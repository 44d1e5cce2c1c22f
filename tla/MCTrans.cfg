\* A call ends when the function returns; the end is a deadlock.
CONSTANTS
    Sizes <- MC_Sizes
    Garbage = Garbage
SPECIFICATION Spec
INVARIANTS TypeOK WritesTransposed TransposedOnReturn
CHECK_DEADLOCK FALSE
