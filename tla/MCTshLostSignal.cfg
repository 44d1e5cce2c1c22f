\* ctrl-c typed right after a foreground command is forwarded to a child 
\* that has not reached setpgid and execve (tsh.c:356-359)
CONSTANTS
    p1 = p1  p2 = p2
    Pids <- MC_Pids
SPECIFICATION Spec
PROPERTY InterruptReachesJob
