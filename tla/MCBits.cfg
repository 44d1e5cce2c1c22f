CONSTANTS
    Longs <- MC_Longs
    Selectors <- MC_Selectors
    Floats <- MC_Floats
    Unsigneds <- MC_Unsigneds
SPECIFICATION Spec
INVARIANTS TypeOK IntegerPuzzlesCorrect FloatPuzzlesCorrect
CHECK_DEADLOCK FALSE
