--------------------------------- MODULE Dev ---------------------------------
(***************************************************************************)
(* fastware.dev: dev() runs the Vite command in a shell, waits for Vite's  *)
(* port, serves, and stops the shell in a finally clause; against a shell  *)
(* that exits, hangs or ignores SIGTERM and a Ctrl-C at any step.          *)
(*                                                                         *)
(* Popen(shell = True) knows the shell only, and makes no process group:   *)
(* poll(), terminate(), kill() and wait() are about that one PID.  What    *)
(* becomes of the processes behind it, Vite among them, is not dev()'s     *)
(* doing and no part of this module.                                       *)
(***************************************************************************)
EXTENDS Naturals

VARIABLES
    devPc,      \* dev()
    served,     \* serve() was reached
    devEnd,     \* how dev() ends: it returns, raises or is interrupted
    shell,      \* "new", "up" or "dead"
    shellTold   \* the signals that dev() has sent it

devVars == <<devPc, served, devEnd, shell, shellTold>>

DevInit ==
    /\ devPc = "spawn" /\ served = FALSE /\ devEnd = "none"
    /\ shell = "new" /\ shellTold = {}

\* send_signal polls first: a process that is dead is sent nothing.
Send(signal) ==
    shellTold' = IF shell = "up" THEN shellTold \cup {signal} ELSE shellTold

SpawnShell ==
    /\ devPc = "spawn"
    /\ devPc' = "wait" /\ shell' = "up"
    /\ UNCHANGED <<served, devEnd, shellTold>>

\* Something accepts connections on the port, Vite or another process.
ViteReady ==
    /\ devPc = "wait"
    /\ devPc' = "serving" /\ served' = TRUE
    /\ UNCHANGED <<devEnd, shell, shellTold>>

\* The shell is dead while nothing accepts connections.
ShellExited ==
    /\ devPc = "wait" /\ shell = "dead"
    /\ devPc' = "reading"
    /\ UNCHANGED <<served, devEnd, shell, shellTold>>

\* Its error output is read to the end: until what is behind the shell has closed it.
StderrRead ==
    /\ devPc = "reading"
    /\ devPc' = "ended" /\ devEnd' = "failed"
    /\ UNCHANGED <<served, shell, shellTold>>

\* Fifteen seconds: the shell is terminated and not waited for.
ViteLate ==
    /\ devPc = "wait"
    /\ Send("TERM")
    /\ devPc' = "ended" /\ devEnd' = "failed"
    /\ UNCHANGED <<served, shell>>

\* serve() returns, or raises: a taken port, another instance, Ctrl-C.
ServeEnds ==
    /\ devPc = "serving"
    /\ devPc' = "stopping" /\ devEnd' \in {"returned", "failed"}
    /\ UNCHANGED <<served, shell, shellTold>>

TerminateShell ==
    /\ devPc = "stopping"
    /\ Send("TERM")
    /\ devPc' = "waiting"
    /\ UNCHANGED <<served, devEnd, shell>>

ShellGone ==
    /\ devPc \in {"waiting", "reaping"} /\ shell = "dead"
    /\ devPc' = "ended"
    /\ UNCHANGED <<served, devEnd, shell, shellTold>>

\* Mutated form of KillShell: the five seconds end the wait and nothing more.
KillShellNot ==
    /\ devPc = "waiting" /\ shell = "up"
    /\ devPc' = "ended"
    /\ UNCHANGED <<served, devEnd, shell, shellTold>>

KillShell ==
    /\ devPc = "waiting" /\ shell = "up"
    /\ Send("KILL")
    /\ devPc' = "reaping"
    /\ UNCHANGED <<served, devEnd, shell>>

\* A Ctrl-C outside of serve(): what was to follow does not happen.
Interrupt ==
    /\ devPc \in {"wait", "reading", "stopping", "waiting", "reaping"}
    /\ devPc' = "ended" /\ devEnd' = "interrupted"
    /\ UNCHANGED <<served, shell, shellTold>>

ShellDies ==
    /\ shell = "up"
    /\ shell' = "dead"
    /\ UNCHANGED <<devPc, served, devEnd, shellTold>>

DevNext ==
    \/ SpawnShell \/ ViteReady \/ ShellExited \/ StderrRead \/ ViteLate \/ ServeEnds
    \/ TerminateShell \/ ShellGone \/ KillShell \/ Interrupt \/ ShellDies

DevSpec == DevInit /\ [][DevNext]_devVars

-----------------------------------------------------------------------------
(* Properties.                                                             *)

\* However serve() ended, and whatever the shell does with SIGTERM, the process that
\* dev() started is dead when it has ended; before serve() an error of dev() leaves
\* none that was not at least told to stop.  Only a Ctrl-C outside of serve() can
\* leave it alone.
ShellIsStopped ==
    devPc = "ended" /\ devEnd # "interrupted" =>
        shell = "dead" \/ (~served /\ "TERM" \in shellTold)
=============================================================================
