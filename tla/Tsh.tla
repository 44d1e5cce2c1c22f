--------------------------------- MODULE Tsh ----------------------------------
(***************************************************************************)
(* Job control of the tiny shell, src/tsh/tsh.c.                           *)
(*                                                                         *)
(* The shell's main flow (eval and the fg/bg builtins), its three signal   *)
(* handlers, its children and the terminal are the actors.  A handler runs *)
(* as one step when its signal is pending and not blocked in the shell's   *)
(* main context, interrupting the main flow between two of its steps;     *)
(* sigsuspend is the main flow sleeping with the mask it was given until a *)
(* handler has run.  Job ids are abstracted: a job is named by its pid.   *)
(* The job list functions (add_job, delete_job, fg_job, job_set_state)    *)
(* come from tsh_helper.c, which is not in the repository.                *)
(***************************************************************************)
EXTENDS Integers, FiniteSets

CONSTANT Pids   \* the pids fork may return; each is used once

VARIABLES
    jobs,       \* pid -> "FG", "BG", "ST", or "none" when not in the list
    proc,       \* pid -> the child's state, see ProcStates
    reported,   \* pid -> its stop has been collected by waitpid(WUNTRACED)
    pending,    \* signals pending for the shell
    blocked,    \* the shell main context's signal mask
    main_pc,    \* "prompt", "wait" (the loop test) or "suspend"
    pid         \* the global `volatile sig_atomic_t pid`

vars == <<jobs, proc, reported, pending, blocked, main_pc, pid>>

Signals == {"SIGCHLD", "SIGINT", "SIGTSTP"}
mask_3 == Signals

\* "starting": forked, before execve (tsh.c 325-359);
\* "shell": execve failed with ENOENT and the child returned from eval.
ProcStates == {"unborn", "starting", "running", "stopped", "exited",
               "signaled", "reaped", "shell"}

Alive == {"starting", "running", "stopped", "shell"}

\* States waitpid has yet to collect with the child's exit.
Zombie == {"exited", "signaled"}

-----------------------------------------------------------------------------
(* The job list (tsh_helper.c).                                            *)

fg_job == IF \E p \in Pids : jobs[p] = "FG"
          THEN CHOOSE p \in Pids : jobs[p] = "FG" ELSE 0

job_exists(p) == jobs[p] /= "none"

-----------------------------------------------------------------------------
(* Kernel behaviour the code relies on.                                    *)

\* A child's state change raises SIGCHLD for the shell (also on SIGCONT,
\* since the handler is installed without SA_NOCLDSTOP).
Chld == pending' = pending \cup {"SIGCHLD"}

\* sigsuspend returns once a handler has run, restoring the eval mask.
Wake == IF main_pc = "suspend"
        THEN main_pc' = "wait" /\ blocked' = mask_3
        ELSE UNCHANGED <<main_pc, blocked>>

Deliverable(sig) == sig \in pending /\ sig \notin blocked

\* kill(-pid, SIGCONT): a stopped job resumes.
Cont(p) ==
    IF proc[p] = "stopped"
    THEN /\ proc' = [proc EXCEPT ![p] = "running"]
         /\ reported' = [reported EXCEPT ![p] = FALSE]
         /\ Chld
    ELSE UNCHANGED <<proc, reported, pending>>

-----------------------------------------------------------------------------
(* The shell's main flow.                                                  *)

\* Mutant: `pid = 0` after add_job is missing.
Eval_no_reset(p, fg) ==
    /\ main_pc = "prompt"
    /\ proc[p] = "unborn"
    /\ blocked' = mask_3
    /\ proc' = [proc EXCEPT ![p] = "starting"]
    /\ reported' = [reported EXCEPT ![p] = FALSE]
    /\ jobs' = [jobs EXCEPT ![p] = IF fg THEN "FG" ELSE "BG"]
    /\ pid' = p
    /\ main_pc' = "wait"
    /\ UNCHANGED pending

\* eval of a program command line: block mask_3, fork, add_job, pid = 0.
\* The child's steps up to execve are the child's own.
Eval(p, fg) ==
    /\ main_pc = "prompt"
    /\ proc[p] = "unborn"
    /\ blocked' = mask_3
    /\ proc' = [proc EXCEPT ![p] = "starting"]
    /\ reported' = [reported EXCEPT ![p] = FALSE]
    /\ jobs' = [jobs EXCEPT ![p] = IF fg THEN "FG" ELSE "BG"]
    /\ pid' = 0
    /\ main_pc' = "wait"
    /\ UNCHANGED pending

\* builtin fg: kill(-id, SIGCONT), job_set_state(FG), pid = 0, then wait.
Fg(p) ==
    /\ main_pc = "prompt"
    /\ job_exists(p)
    /\ Cont(p)
    /\ jobs' = [jobs EXCEPT ![p] = "FG"]
    /\ pid' = 0
    /\ blocked' = mask_3
    /\ main_pc' = "wait"

\* builtin bg: kill(-id, SIGCONT), job_set_state(BG); eval restores the mask.
Bg(p) ==
    /\ main_pc = "prompt"
    /\ job_exists(p)
    /\ Cont(p)
    /\ jobs' = [jobs EXCEPT ![p] = "BG"]
    /\ UNCHANGED <<blocked, main_pc, pid>>

\* Mutant: `pid` for `!pid` in the loop test.
WaitOver_inverted == pid = 0 \/ fg_job = 0

\* The test of `while (!pid && (fg_job() != 0))`.
WaitOver == pid /= 0 \/ fg_job = 0

\* The loop ends and eval restores the mask it saved (empty at the prompt).
WaitDone ==
    /\ main_pc = "wait"
    /\ WaitOver
    /\ main_pc' = "prompt"
    /\ blocked' = {}
    /\ UNCHANGED <<jobs, proc, reported, pending, pid>>

\* sigsuspend(&prev): unblock and sleep, atomically.
Suspend ==
    /\ main_pc = "wait"
    /\ ~WaitOver
    /\ main_pc' = "suspend"
    /\ blocked' = {}
    /\ UNCHANGED <<jobs, proc, reported, pending, pid>>

-----------------------------------------------------------------------------
(* The signal handlers.                                                    *)

\* Mutant: the WIFSIGNALED branch is missing; a killed child is reaped
\* but its job stays.
sigchld_handler_no_signaled ==
    LET Reap(p)    == proc[p] \in Zombie
        NewStop(p) == proc[p] = "stopped" /\ ~reported[p]
        Left(after) == IF \E p \in Pids : after[p] \in Alive THEN 0 ELSE -1
        Reaped == [p \in Pids |-> IF Reap(p) THEN "reaped" ELSE proc[p]]
    IN  /\ proc' = Reaped
        /\ reported' = [p \in Pids |-> reported[p] \/ NewStop(p)]
        /\ jobs' = [p \in Pids |-> CASE proc[p] = "exited" -> "none"
                                     [] NewStop(p) -> "ST"
                                     [] OTHER      -> jobs[p]]
        /\ pid' = Left(Reaped)

\* Mutant: waitpid without WUNTRACED; stops are never collected.
sigchld_handler_no_untraced ==
    LET Reap(p)    == proc[p] \in Zombie
        Left(after) == IF \E p \in Pids : after[p] \in Alive THEN 0 ELSE -1
        Reaped == [p \in Pids |-> IF Reap(p) THEN "reaped" ELSE proc[p]]
    IN  /\ proc' = Reaped
        /\ reported' = reported
        /\ jobs' = [p \in Pids |-> IF Reap(p) THEN "none" ELSE jobs[p]]
        /\ pid' = Left(Reaped)

\* sigchld_handler's loop: every child waitpid(-1, WUNTRACED | WNOHANG)
\* reports is handled; exited and signaled children are reaped and their
\* jobs deleted, newly stopped ones set to ST.  The loop ends with pid = 0
\* when children remain and -1 when none does.
sigchld_handler ==
    LET Reap(p)    == proc[p] \in Zombie
        NewStop(p) == proc[p] = "stopped" /\ ~reported[p]
        Left(after) == IF \E p \in Pids : after[p] \in Alive THEN 0 ELSE -1
        Reaped == [p \in Pids |-> IF Reap(p) THEN "reaped" ELSE proc[p]]
    IN  /\ proc' = Reaped
        /\ reported' = [p \in Pids |-> reported[p] \/ NewStop(p)]
        /\ jobs' = [p \in Pids |-> CASE Reap(p)    -> "none"
                                     [] NewStop(p) -> "ST"
                                     [] OTHER      -> jobs[p]]
        /\ pid' = Left(Reaped)

SigchldHandler ==
    /\ Deliverable("SIGCHLD")
    /\ pending' = pending \ {"SIGCHLD"}
    /\ sigchld_handler
    /\ Wake

\* sigint_handler and sigtstp_handler: kill(-fg_pid, sig).  A running job
\* does what its program does with sig: the default action (terminate,
\* stop), another (mysigfun stops itself on SIGINT and raises SIGQUIT on
\* SIGTSTP), or nothing.  A job before execve has no process group yet, or
\* runs the shell's own handler on an empty job list: nothing happens.
ForwardHandler(sig) ==
    LET f == fg_job
        React(r) ==
            /\ proc' = [proc EXCEPT ![f] = r]
            /\ reported' = [reported EXCEPT ![f] = FALSE]
            /\ pending' = (pending \ {sig}) \cup (IF r = "running" THEN {} ELSE {"SIGCHLD"})
    IN  /\ Deliverable(sig)
        /\ IF f /= 0 /\ proc[f] = "running"
           THEN \E r \in {"signaled", "stopped", "running"} : React(r)
           ELSE /\ pending' = pending \ {sig}
                /\ UNCHANGED <<proc, reported>>
        /\ Wake
        /\ UNCHANGED <<jobs, pid>>

-----------------------------------------------------------------------------
(* The children and the terminal.                                          *)

\* tsh.c 325-365: redirection, setpgid, execve.  A failed open exits 0, a
\* failed execve exits 1, except ENOENT, which returns from eval.
Exec(p) ==
    /\ proc[p] = "starting"
    /\ \E r \in {"running", "exited", "shell"} :
         /\ proc' = [proc EXCEPT ![p] = r]
         /\ IF r = "exited" THEN Chld ELSE UNCHANGED pending
    /\ UNCHANGED <<jobs, reported, blocked, main_pc, pid>>

\* The program (or a returned shell, at end of input) exits.
Exit(p) ==
    /\ proc[p] \in {"running", "shell"}
    /\ proc' = [proc EXCEPT ![p] = "exited"]
    /\ Chld
    /\ UNCHANGED <<jobs, reported, blocked, main_pc, pid>>

\* The program stops itself, or another process stops it.
Stop(p) ==
    /\ proc[p] = "running"
    /\ proc' = [proc EXCEPT ![p] = "stopped"]
    /\ reported' = [reported EXCEPT ![p] = FALSE]
    /\ Chld
    /\ UNCHANGED <<jobs, blocked, main_pc, pid>>

\* A signal from elsewhere (alarm, SIGKILL) terminates the program.
Killed(p) ==
    /\ proc[p] \in {"running", "stopped"}
    /\ proc' = [proc EXCEPT ![p] = "signaled"]
    /\ Chld
    /\ UNCHANGED <<jobs, reported, blocked, main_pc, pid>>

\* ctrl-c or ctrl-z at the terminal, whose foreground group is the shell's.
Keyboard(sig) ==
    /\ pending' = pending \cup {sig}
    /\ UNCHANGED <<jobs, proc, reported, blocked, main_pc, pid>>

-----------------------------------------------------------------------------

\* tsh.c 117-136 and the global's zero value.
Init ==
    /\ jobs = [p \in Pids |-> "none"]
    /\ proc = [p \in Pids |-> "unborn"]
    /\ reported = [p \in Pids |-> FALSE]
    /\ pending = {}
    /\ blocked = {}
    /\ main_pc = "prompt"
    /\ pid = 0

Next ==
    \/ \E p \in Pids, fg \in BOOLEAN : Eval(p, fg)
    \/ \E p \in Pids : Fg(p) \/ Bg(p)
    \/ WaitDone \/ Suspend
    \/ SigchldHandler
    \/ ForwardHandler("SIGINT") \/ ForwardHandler("SIGTSTP")
    \/ \E p \in Pids : Exec(p) \/ Exit(p) \/ Stop(p) \/ Killed(p)
    \/ Keyboard("SIGINT") \/ Keyboard("SIGTSTP")

\* The shell process is scheduled whenever it is runnable, so its main
\* flow is weakly fair; on every return to user mode the kernel delivers
\* the pending unblocked signals, so SIGCHLD cannot be put off for ever by
\* other signals (strong fairness).  Children, the user and the terminal
\* owe nothing.
Fairness == WF_vars(WaitDone \/ Suspend) /\ SF_vars(SigchldHandler)

Spec == Init /\ [][Next]_vars /\ Fairness

-----------------------------------------------------------------------------
(* Properties.                                                             *)

TypeOK ==
    /\ jobs \in [Pids -> {"none", "FG", "BG", "ST"}]
    /\ proc \in [Pids -> ProcStates]
    /\ reported \in [Pids -> BOOLEAN]
    /\ pending \subseteq Signals /\ blocked \subseteq Signals
    /\ main_pc \in {"prompt", "wait", "suspend"}
    /\ pid \in {0, -1}

\* The job list and the children agree: a job is listed exactly while its
\* child has not been reaped (add_job under the blocked SIGCHLD, delete_job
\* in the handler), and a job listed as stopped is not running.
JobsMatchChildren ==
    \A p \in Pids :
        /\ job_exists(p) = (proc[p] \notin {"unborn", "reaped"})
        /\ jobs[p] = "ST" => proc[p] \in {"stopped"} \cup Zombie

\* At most one job is in the foreground, and none when the shell reads a
\* command: eval's and fg's wait loops, which test the pid the SIGCHLD
\* handler overwrites, end only once the foreground job is gone.
ForegroundExclusive ==
    /\ Cardinality({p \in Pids : jobs[p] = "FG"}) <= 1
    /\ main_pc = "prompt" => fg_job = 0

\* Once the foreground job has stopped or terminated, the shell eventually
\* returns to its prompt: sigsuspend cannot miss the SIGCHLD.
FgWaitEnds ==
    \A p \in Pids :
        (jobs[p] = "FG" /\ proc[p] \in {"stopped"} \cup Zombie) ~> main_pc = "prompt"

\* Every child of the shell either runs its program or exits; none goes on
\* running the shell's own read/eval loop.
NoSecondShell == \A p \in Pids : proc[p] /= "shell"

\* A ctrl-c or ctrl-z the shell forwards reaches the foreground job
\* (sigint_handler: "Sends SIGINT to the foregound job").
InterruptReachesJob ==
    [][\A sig \in {"SIGINT", "SIGTSTP"} :
         (sig \in pending /\ sig \notin pending' /\ fg_job /= 0)
            => proc[fg_job] /= "starting"]_vars

=============================================================================
