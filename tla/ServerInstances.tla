--------------------------- MODULE ServerInstances ---------------------------
(***************************************************************************)
(* fastware.server: server processes that share one PID file, one port     *)
(* file and one instance registry, the callers of serve_background(), a    *)
(* process that calls stop() and one that calls list_instances().          *)
(*                                                                         *)
(* Every file operation, kill() and bind is a step of its own: the system  *)
(* orders nothing else between processes.  A PID names one process for     *)
(* good (no reuse).  A process that has ended stays a zombie, which        *)
(* answers kill(pid, 0), until its parent has waited for it; and the       *)
(* Granian workers of a supervisor that was killed may outlive it and hold *)
(* its port.  A SIGTERM leaves no trace here: a server may shut down or    *)
(* die at any time anyway, and Granian now and then drops the signal.  The *)
(* text of a file belongs to its inode: what is written through a          *)
(* descriptor after the file was unlinked is lost.                         *)
(***************************************************************************)
EXTENDS Naturals

CONSTANTS
    Servers,    \* the PIDs of the server processes
    Modes,      \* the ways they may be started: serve(single_instance = True),
                \* serve(single_instance = False), serve_background()
    Ports,      \* the ports they may be given
    Parent,     \* the server process that is the parent of each of them, if any:
                \* a program that calls serve_background() and serve()
    None        \* no process, no port

ASSUME ServersAssumption ==
    Servers \cap {None, "none", "empty"} = {}
ASSUME ModesAssumption == Modes \subseteq {"single", "multi", "background"}
ASSUME PortsAssumption == None \notin Ports
ASSUME ParentAssumption == Parent \in [Servers -> Servers \cup {None}]

VARIABLES
    srv,            \* each server process: its control pc, how and on which port
                    \* it was started, the PID seen in its single-instance
                    \* check, the inode fd it writes its PID through, and
                    \* whether a SIGKILL is pending
    pidFile,        \* the PID file: its inode (named by its creator) and text
    portFile,       \* whose port the port file holds
    reg,            \* the registry descriptor of each PID; "lost" if a reader
                    \* removed it because it was half written
    left,           \* the port held by the workers that a server left behind
    stopPc, stopTarget,     \* the process running stop()
    listEntry,      \* the half-written descriptor that the process running
                    \* list_instances() has read and is about to prune
    launching,      \* the port that the serve_background() of each child asks
    contended       \* two of these calls have overlapped, or stop() has removed
                    \* the files of a server that it was not allowed to signal

stopVars == <<stopPc, stopTarget>>
files    == <<pidFile, portFile, reg>>
vars     == <<srv, files, left, stopVars, listEntry, launching, contended>>

NoFile  == [by |-> None, text |-> "none"]
Exists  == pidFile.by # None

\* A process that does not serve: not yet started, or at its end.
Outside(l) == [pc |-> l, mode |-> "none", port |-> None, seen |-> None,
               fd |-> None, killed |-> FALSE]

Checking == {"exists", "read", "probe", "unlink"}
Starting == Checking \cup {"port", "reclaim", "openPid", "writePid",
                           "writePort", "regOpen", "regWrite", "bind"}
Exiting  == {"exitReg", "exitPort", "exitPid"}
Living(p) == srv[p].pc \in Starting \cup Exiting \cup {"running"}

\* A process takes no further step once a SIGKILL is pending.
Able(p) == Living(p) /\ ~srv[p].killed

Records == [pc : Starting \cup Exiting \cup {"new", "running", "zombie", "gone"},
            mode : Modes \cup {"none"}, port : Ports \cup {None},
            seen : Servers \cup {None}, fd : Servers \cup {None},
            killed : BOOLEAN]

TypeOK ==
    /\ srv \in [Servers -> Records]
    /\ pidFile \in [by : Servers \cup {None}, text : Servers \cup {"none", "empty"}]
    /\ Exists <=> pidFile.text # "none"
    /\ portFile \in Servers \cup {None}
    /\ reg \in [Servers -> {"absent", "partial", "entry", "lost"}]
    /\ left \in [Servers -> Ports \cup {None}]
    /\ stopPc \in {"idle", "read", "probe", "wait", "confirm", "rmPid", "rmPort"}
    /\ stopTarget \in Servers \cup {None}
    /\ listEntry \in Servers \cup {None}
    /\ launching \in [Servers -> Ports \cup {None}]
    /\ contended \in BOOLEAN

Init ==
    /\ srv = [p \in Servers |-> Outside("new")]
    /\ pidFile = NoFile /\ portFile = None
    /\ reg = [p \in Servers |-> "absent"] /\ left = [p \in Servers |-> None]
    /\ stopPc = "idle" /\ stopTarget = None
    /\ listEntry = None
    /\ launching = [p \in Servers |-> None]
    /\ contended = FALSE

-----------------------------------------------------------------------------
Goto(p, l) == srv' = [srv EXCEPT ![p].pc = l]

\* The exit hooks are about to run.
Exit(p) == srv' = [srv EXCEPT ![p] = Outside("exitReg")]

\* The end of a process: its parent has yet to wait for it.
End(p) == srv' = [srv EXCEPT ![p] = Outside("zombie")]

\* A zombie is gone when its parent has waited for it.
Waited(q) ==
    IF srv[q].pc = "zombie" THEN [srv EXCEPT ![q] = Outside("gone")] ELSE srv

\* What kill(pid, 0) tells server p of process q once _reap_if_dead_child has waited
\* for it: a zombie is gone for its parent only.  PermissionError means yes as well.
Answers(p, q) == Living(q) \/ (srv[q].pc = "zombie" /\ Parent[q] # p)

\* _remove_pid: unlinks whatever file is there, whoever wrote it.
RemovePid == pidFile' = NoFile

\* Granian holds the port while it serves, and so do workers left behind.
Holds(q, n) == (srv[q].pc = "running" /\ srv[q].port = n) \/ left[q] = n
PortFree(n) == \A q \in Servers : ~Holds(q, n)

\* The history variable: a call begins while another one is in progress, or a
\* second server is started on purpose.
Busy ==
    \/ \E q \in Servers : srv[q].pc \in Starting \/ launching[q] # None
    \/ stopPc # "idle"
Occupied == \E q \in Servers : Living(q) \/ left[q] # None

\* AlreadyRunningError or PortInUseError: no exit hook is registered yet, and nobody
\* knows the PID.
Refuse(p) == srv' = [srv EXCEPT ![p] = Outside("gone")]

-----------------------------------------------------------------------------
(* Starting a server: serve(), or the child of serve_background().         *)

\* Where serve() starts, and _serve_subprocess() in the child that
\* serve_background() spawns: nothing is checked there.
EntryOf(m) == CASE m = "single"     -> "exists"
                [] m = "multi"      -> "port"
                [] m = "background" -> "openPid"

Begin(p, m, n) ==
    /\ srv[p].pc = "new"
    /\ srv' = [srv EXCEPT ![p].mode = m, ![p].port = n, ![p].pc = EntryOf(m)]
    /\ contended' = (contended \/ Busy \/ (m # "single" /\ Occupied))
    /\ UNCHANGED <<files, left, stopVars, listEntry>>

Serve(p) ==
    /\ \E m \in Modes \ {"background"}, n \in Ports : Begin(p, m, n)
    /\ UNCHANGED launching

ServeBackground(p) ==
    /\ "background" \in Modes
    /\ \E n \in Ports :
          Begin(p, "background", n) /\ launching' = [launching EXCEPT ![p] = n]

\* check_already_running, one file system call after the other.
CheckExists(p) ==
    /\ srv[p].pc = "exists"
    /\ Goto(p, IF Exists THEN "read" ELSE "port")
    /\ UNCHANGED <<files, left, stopVars, listEntry, launching, contended>>

\* A file that is empty, or gone by now, counts as stale.
CheckRead(p) ==
    /\ srv[p].pc = "read"
    /\ \/ /\ pidFile.text \in Servers
          /\ srv' = [srv EXCEPT ![p].pc = "probe", ![p].seen = pidFile.text]
       \/ pidFile.text \notin Servers /\ Goto(p, "unlink")
    /\ UNCHANGED <<files, left, stopVars, listEntry, launching, contended>>

\* Mutated form of CheckProbe: the liveness of the recorded PID is not probed.
CheckProbeBlind(p) ==
    /\ srv[p].pc = "probe"
    /\ srv' = [srv EXCEPT ![p].pc = "unlink", ![p].seen = None]
    /\ UNCHANGED <<files, left, stopVars, listEntry, launching, contended>>

\* Mutated form of CheckProbe: the zombie of a child is not waited for.
CheckProbeUnreaped(p) ==
    /\ srv[p].pc = "probe"
    /\ LET q == srv[p].seen IN
       \/ (Living(q) \/ srv[q].pc = "zombie") /\ Refuse(p)
       \/ /\ ~Living(q) /\ srv[q].pc # "zombie"
          /\ srv' = [srv EXCEPT ![p].pc = "unlink", ![p].seen = None]
    /\ UNCHANGED <<files, left, stopVars, listEntry, launching, contended>>

CheckProbe(p) ==
    /\ srv[p].pc = "probe"
    /\ LET q == srv[p].seen IN
       \/ Answers(p, q) /\ Refuse(p)
       \/ /\ ~Answers(p, q)
          /\ srv' = [Waited(q) EXCEPT ![p].pc = "unlink", ![p].seen = None]
    /\ UNCHANGED <<files, left, stopVars, listEntry, launching, contended>>

CheckUnlink(p) ==
    /\ srv[p].pc = "unlink"
    /\ RemovePid
    /\ Goto(p, "port")
    /\ UNCHANGED <<portFile, reg, left, stopVars, listEntry, launching, contended>>

\* ensure_port_available: an occupant is told to stop only if the PID file proves
\* that it is a previous instance of this server, and if that is permitted.
EnsurePort(p) ==
    /\ srv[p].pc = "port"
    /\ LET proven == \E q \in Servers : /\ srv[q].pc = "running" /\ srv[q].port = srv[p].port
                                         /\ pidFile.text = q
       IN \/ PortFree(srv[p].port) /\ Goto(p, "openPid")
          \/ ~PortFree(srv[p].port) /\ proven /\ Goto(p, "reclaim")
          \/ ~PortFree(srv[p].port) /\ ~proven /\ Refuse(p)
    /\ UNCHANGED <<files, left, stopVars, listEntry, launching, contended>>

\* The port became free within five seconds, or not.
Reclaim(p) ==
    /\ srv[p].pc = "reclaim"
    /\ \/ PortFree(srv[p].port) /\ Goto(p, "openPid")
       \/ ~PortFree(srv[p].port) /\ Refuse(p)
    /\ UNCHANGED <<files, left, stopVars, listEntry, launching, contended>>

\* _write_pid: O_CREAT|O_EXCL for a single instance, else create or truncate.
OpenPid(p) ==
    /\ srv[p].pc = "openPid"
    /\ \/ srv[p].mode = "single" /\ Exists /\ Refuse(p) /\ UNCHANGED pidFile
       \/ /\ srv[p].mode = "single" => ~Exists
          /\ LET inode == IF Exists THEN pidFile.by ELSE p IN
             /\ srv' = [srv EXCEPT ![p].pc = "writePid", ![p].fd = inode]
             /\ pidFile' = [by |-> inode, text |-> "empty"]
    /\ UNCHANGED <<portFile, reg, left, stopVars, listEntry, launching, contended>>

WritePid(p) ==
    /\ srv[p].pc = "writePid"
    /\ pidFile' = IF pidFile.by = srv[p].fd THEN [pidFile EXCEPT !.text = p] ELSE pidFile
    /\ srv' = [srv EXCEPT ![p].pc = "writePort", ![p].fd = None]
    /\ UNCHANGED <<portFile, reg, left, stopVars, listEntry, launching, contended>>

WritePort(p) ==
    /\ srv[p].pc = "writePort"
    /\ portFile' = p
    /\ Goto(p, "regOpen")
    /\ UNCHANGED <<pidFile, reg, left, stopVars, listEntry, launching, contended>>

\* register_instance: write_bytes creates the descriptor, then fills it.
RegOpen(p) ==
    /\ srv[p].pc = "regOpen"
    /\ reg' = [reg EXCEPT ![p] = "partial"]
    /\ Goto(p, "regWrite")
    /\ UNCHANGED <<pidFile, portFile, left, stopVars, listEntry, launching, contended>>

RegWrite(p) ==
    /\ srv[p].pc = "regWrite"
    /\ reg' = [reg EXCEPT ![p] = IF @ = "partial" THEN "entry" ELSE @]
    /\ Goto(p, "bind")
    /\ UNCHANGED <<pidFile, portFile, left, stopVars, listEntry, launching, contended>>

\* Granian binds the port and serves, or fails and the process exits.
Bind(p) ==
    /\ srv[p].pc = "bind"
    /\ IF PortFree(srv[p].port) THEN Goto(p, "running") ELSE Exit(p)
    /\ UNCHANGED <<files, left, stopVars, listEntry, launching, contended>>

-----------------------------------------------------------------------------
(* The caller of serve_background(): it asks the port first, then the      *)
(* child, for ten seconds.                                                 *)

Asking(p) == launching[p] # None
Return(p) == launching' = [launching EXCEPT ![p] = None]

\* Mutated form of LaunchAnswered: a child that has not exited counts as up.
LaunchUnasked(p) ==
    /\ Asking(p) /\ Living(p)
    /\ Return(p)
    /\ UNCHANGED <<srv, files, left, stopVars, listEntry, contended>>

\* _probe_health: any HTTP answer, whoever gives it, returns the URL.
LaunchAnswered(p) ==
    /\ Asking(p) /\ ~PortFree(launching[p])
    /\ Return(p)
    /\ UNCHANGED <<srv, files, left, stopVars, listEntry, contended>>

\* RuntimeError: the child has exited, and poll() has waited for it.
LaunchExited(p) ==
    /\ Asking(p) /\ ~Living(p)
    /\ Return(p)
    /\ srv' = Waited(p)
    /\ UNCHANGED <<files, left, stopVars, listEntry, contended>>

\* RuntimeError after proc.terminate(), which ends a child that is not in
\* Granian yet, before any exit hook.
LaunchTimesOut(p) ==
    /\ Asking(p) /\ Living(p)
    /\ Return(p)
    /\ IF srv[p].pc \in Starting THEN End(p) ELSE UNCHANGED srv
    /\ UNCHANGED <<files, left, stopVars, listEntry, contended>>

-----------------------------------------------------------------------------
(* The end of a server.                                                    *)

\* Ctrl-C or a SIGTERM makes Granian return.
Shutdown(p) ==
    /\ srv[p].pc = "running" /\ Able(p)
    /\ Exit(p)
    /\ UNCHANGED <<files, left, stopVars, listEntry, launching, contended>>

\* A process dies, and the workers of a Granian supervisor with it or not.
Die(p) ==
    /\ End(p)
    /\ \E n \in {None} \cup (IF srv[p].pc = "running" THEN {srv[p].port} ELSE {}) :
          left' = [left EXCEPT ![p] = n]
    /\ UNCHANGED <<files, stopVars, listEntry, launching, contended>>

\* SIGKILL, a crash, or a SIGTERM before Granian handles it: no exit hook runs.
Crash(p) == Able(p) /\ Die(p)

\* The kernel carries out the SIGKILL of stop().
KillLands(p) == Living(p) /\ srv[p].killed /\ Die(p)

\* The parent of a zombie waits for it, or ends, and init does.
Reaped(p) ==
    /\ srv[p].pc = "zombie"
    /\ srv' = Waited(p)
    /\ UNCHANGED <<files, left, stopVars, listEntry, launching, contended>>

WorkersEnd(p) ==
    /\ left[p] # None
    /\ left' = [left EXCEPT ![p] = None]
    /\ UNCHANGED <<srv, files, stopVars, listEntry, launching, contended>>

\* The atexit hooks, last registered first.
ExitReg(p) ==
    /\ srv[p].pc = "exitReg"
    /\ reg' = [reg EXCEPT ![p] = "absent"]
    /\ Goto(p, "exitPort")
    /\ UNCHANGED <<pidFile, portFile, left, stopVars, listEntry, launching, contended>>

ExitPort(p) ==
    /\ srv[p].pc = "exitPort"
    /\ portFile' = None
    /\ Goto(p, "exitPid")
    /\ UNCHANGED <<pidFile, reg, left, stopVars, listEntry, launching, contended>>

ExitPid(p) ==
    /\ srv[p].pc = "exitPid"
    /\ RemovePid
    /\ End(p)
    /\ UNCHANGED <<portFile, reg, left, stopVars, listEntry, launching, contended>>

-----------------------------------------------------------------------------
(* stop().                                                                 *)

\* The files are about to be removed.
StopCleanUp == stopPc' = "rmPid" /\ stopTarget' = None

\* Without a PID file stop() raises FileNotFoundError and changes nothing.
StopBegin ==
    /\ stopPc = "idle" /\ Exists
    /\ stopPc' = "read"
    /\ contended' = (contended \/ Busy)
    /\ UNCHANGED <<srv, files, left, stopTarget, listEntry, launching>>

StopRead ==
    /\ stopPc = "read"
    /\ \/ /\ pidFile.text \in Servers
          /\ stopTarget' = pidFile.text /\ stopPc' = "probe"
       \/ /\ pidFile.text \notin Servers
          /\ StopCleanUp
    /\ UNCHANGED <<srv, files, left, listEntry, launching, contended>>

\* What stop() does when kill() says that there is no such process: its parent has
\* waited for it, or is the program that calls stop() and does so now.
StopGone ==
    /\ ~Living(stopTarget)
    /\ srv' = Waited(stopTarget) /\ StopCleanUp

\* kill() finds the target, or its zombie.
StopFinds == Living(stopTarget) \/ srv[stopTarget].pc = "zombie"

\* kill(pid, 0), then SIGTERM to the process or to the group it leads.
StopProbe ==
    /\ stopPc = "probe"
    /\ StopGone \/ (StopFinds /\ stopPc' = "wait" /\ UNCHANGED <<srv, stopTarget>>)
    /\ UNCHANGED <<files, left, listEntry, launching, contended>>

\* The SIGTERM is not permitted: stop() raises, and removes the files all the same.
StopDenied ==
    /\ stopPc = "probe" /\ StopFinds
    /\ StopCleanUp /\ contended' = (contended \/ Living(stopTarget))
    /\ UNCHANGED <<srv, files, left, listEntry, launching>>

\* The target is gone within the grace window.
StopWait ==
    /\ stopPc = "wait" /\ StopGone
    /\ UNCHANGED <<files, left, listEntry, launching, contended>>

\* Mutated form of StopKill: the grace window ends without an escalation.
StopKillMissing ==
    /\ stopPc = "wait" /\ StopFinds
    /\ stopPc' = "confirm"
    /\ UNCHANGED <<srv, files, left, stopTarget, listEntry, launching, contended>>

\* The grace window is over: SIGKILL, which the kernel only queues, and which does
\* nothing to a zombie.
StopKill ==
    /\ stopPc = "wait" /\ StopFinds
    /\ srv' = [srv EXCEPT ![stopTarget].killed = Living(stopTarget)]
    /\ stopPc' = "confirm"
    /\ UNCHANGED <<files, left, stopTarget, listEntry, launching, contended>>

\* _confirm_dead returns True, or False after two seconds; nobody looks at it.
StopConfirm ==
    /\ stopPc = "confirm"
    /\ StopGone \/ (StopFinds /\ StopCleanUp /\ UNCHANGED srv)
    /\ UNCHANGED <<files, left, listEntry, launching, contended>>

\* _cleanup_pid_and_port.
StopRmPid ==
    /\ stopPc = "rmPid"
    /\ RemovePid
    /\ stopPc' = "rmPort"
    /\ UNCHANGED <<srv, portFile, reg, left, stopTarget, listEntry, launching, contended>>

StopRmPort ==
    /\ stopPc = "rmPort"
    /\ portFile' = None
    /\ stopPc' = "idle"
    /\ UNCHANGED <<srv, pidFile, reg, left, stopTarget, listEntry, launching, contended>>

-----------------------------------------------------------------------------
(* list_instances().                                                       *)

\* A corrupt descriptor is about to be pruned.
ListRead(q) ==
    /\ listEntry = None /\ reg[q] = "partial"
    /\ listEntry' = q
    /\ UNCHANGED <<srv, files, left, stopVars, launching, contended>>

ListPrune ==
    /\ listEntry # None
    /\ reg' = [reg EXCEPT ![listEntry] = IF @ = "absent" THEN @ ELSE "lost"]
    /\ listEntry' = None
    /\ UNCHANGED <<srv, pidFile, portFile, left, stopVars, launching, contended>>

\* The descriptor of a dead PID is pruned, of a zombie by its parent; nobody else
\* touches that file, so the probe and the unlink are one step.  A live entry is
\* listed.
ListDead(q) ==
    /\ listEntry = None /\ reg[q] = "entry" /\ ~Living(q)
    /\ srv' = Waited(q)
    /\ reg' = [reg EXCEPT ![q] = "absent"]
    /\ UNCHANGED <<pidFile, portFile, left, stopVars, listEntry, launching, contended>>

-----------------------------------------------------------------------------
StartStep(p) ==
    /\ Able(p)
    /\ \/ CheckExists(p) \/ CheckRead(p) \/ CheckProbe(p) \/ CheckUnlink(p)
       \/ EnsurePort(p) \/ Reclaim(p) \/ OpenPid(p) \/ WritePid(p) \/ WritePort(p)
       \/ RegOpen(p) \/ RegWrite(p) \/ Bind(p)

ExitStep(p) == Able(p) /\ (ExitReg(p) \/ ExitPort(p) \/ ExitPid(p))

LaunchStep(p) == LaunchAnswered(p) \/ LaunchExited(p) \/ LaunchTimesOut(p)

StopStep ==
    \/ StopRead \/ StopProbe \/ StopDenied \/ StopWait \/ StopKill \/ StopConfirm
    \/ StopRmPid \/ StopRmPort

Next ==
    \/ \E p \in Servers :
          \/ Serve(p) \/ ServeBackground(p) \/ StartStep(p) \/ Shutdown(p) \/ ExitStep(p)
          \/ Crash(p) \/ KillLands(p) \/ Reaped(p) \/ WorkersEnd(p) \/ LaunchStep(p)
    \/ StopBegin \/ StopStep
    \/ (\E q \in Servers : ListRead(q) \/ ListDead(q)) \/ ListPrune

\* stop() runs on, and the kernel carries out a SIGKILL; nobody has to start, serve,
\* stop, list or wait for anything.
Fairness == WF_vars(StopStep) /\ \A p \in Servers : WF_vars(KillLands(p))

Spec == Init /\ [][Next]_vars /\ Fairness

-----------------------------------------------------------------------------
(* Properties.                                                             *)

Running == {p \in Servers : srv[p].pc = "running" /\ Able(p)}

\* The comment in serve(): exclusive creation of the PID file closes the race
\* between the check and the creation, so single-instance servers exclude each
\* other.
SingleInstance ==
    \A p, q \in Running :
        srv[p].mode = "single" /\ srv[q].mode = "single" => p = q

\* What holds of it: as long as calls do not overlap, nobody starts a second server
\* on purpose and stop() is allowed to stop, a running server can be found, whatever
\* crashed before and at whichever step: the PID and port files are its own, and the
\* registry has its descriptor unless a reader met it half written.  So at most one
\* runs.
RunningIsDiscoverable ==
    ~contended => \A p \in Running :
        pidFile.text = p /\ portFile = p /\ reg[p] \in {"entry", "lost"}

\* The files that a dead server left behind, in whatever state, keep nobody from
\* starting.  Without interference a start is refused only by what is still there: a
\* server that lives, one that its parent has not waited for, and that is not the
\* refused one, or workers that hold the port.
OnlyProcessesRefuse ==
    [][\A p \in Servers :
          srv[p].pc \in Starting /\ srv'[p].pc = "gone" /\ ~contended
            => \E q \in Servers \ {p} : Answers(p, q) \/ left[q] = srv[p].port]_vars

\* serve_background() returns a URL only when the child it spawned serves there, or
\* the workers that it left, whatever crashed before; unless calls overlap or an older
\* server is there: then the answer may come from that one, and the child may have
\* failed to bind.
LaunchedIsRunning ==
    [][\A p \in Servers :
          LaunchAnswered(p) /\ ~contended => Holds(p, launching[p])]_vars

\* A server that stop() waits for ends, even when it drops SIGTERM, and even if the
\* SIGKILL has not been carried out by the time the files are removed and the next
\* server starts.
StopKills ==
    \A p \in Servers : stopPc = "wait" /\ stopTarget = p ~> ~Living(p)
=============================================================================
