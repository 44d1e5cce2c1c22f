\* the child of a command whose program does not exist returns from eval 
\* (tsh.c:363) and runs a second read/eval loop
CONSTANTS
    p1 = p1  p2 = p2
    Pids <- MC_Pids
SPECIFICATION Spec
INVARIANT NoSecondShell
