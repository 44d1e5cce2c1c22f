\* The program ends after the trace's last line; the end is a deadlock.
CONSTANTS
    setBits = 1
    associativity = 2
    blockBits = 1
    Addresses <- MC_Addresses
    Ops <- MC_Ops
    LineKinds <- MC_LineKinds
    TRACE_LEN = 5
    INT_BITS = 8
SPECIFICATION Spec
INVARIANTS TypeOK StampsOrdered
PROPERTY SimulatesLRU
CHECK_DEADLOCK FALSE
