\* The shell's job list, foreground wait and signal handling under every
\* interleaving of commands, handlers, children and the keyboard.
CONSTANTS
    p1 = p1  p2 = p2
    Pids <- MC_Pids
SPECIFICATION Spec
INVARIANTS
    TypeOK
    JobsMatchChildren
    ForegroundExclusive
PROPERTY
    FgWaitEnds
