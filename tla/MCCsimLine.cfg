\* Lines may be longer than linebuf or blank.  The program ends after the
\* trace's last line.
CONSTANTS
    setBits = 1
    associativity = 2
    blockBits = 1
    Addresses <- MC_Addresses
    Ops <- MC_Ops
    LineKinds <- MC_LineKinds
    TRACE_LEN = 2
    INT_BITS = 8
SPECIFICATION Spec
INVARIANT ParsesEveryLine
CHECK_DEADLOCK FALSE
