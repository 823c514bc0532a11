------------------------------ MODULE Supervise ------------------------------
(***************************************************************************)
(* fastware.supervise: one supervisor that starts its components in order, *)
(* watches them and tears them down, against signals at any step,          *)
(* components that die or ignore SIGTERM, a second `dev stop` process, and *)
(* the launcher that waits for a daemon to register.                       *)
(*                                                                         *)
(* A component is its position in the start order and stands for the       *)
(* leader of its process group, the process that DevProcess waits for.     *)
(* The clock is left out: a wait ends by its condition or by its deadline. *)
(***************************************************************************)
EXTENDS Naturals, Sequences

CONSTANTS
    Orders,     \* the configurations: the kinds of components in start order
    MaxSignals  \* bound: SIGINT or SIGTERM sent from outside

Kinds == {"aux", "vite", "app", "cmd"}  \* "app", "cmd": the backend's two forms

ASSUME OrdersAssumption == Orders \subseteq Seq(Kinds)
ASSUME MaxSignalsAssumption == MaxSignals \in Nat

VARIABLES
    order,      \* the configuration of this run
    pc,         \* the supervisor
    at,         \* the component it is starting or stopping
    started,    \* the length of the list `started`
    ready,      \* how many components have passed their readiness check
    flag,       \* stop_requested["flag"]
    registered, \* the supervisor's entry is in the instance registry
    outcome,    \* how _run_foreground ends: "ok" is its return, the others
                \* are exceptions, or the death of the supervisor itself
    child,      \* each component's process: "new", "up" or "dead"
    told,       \* the components that were sent SIGINT or SIGTERM
    killed,     \* the components that were sent SIGKILL
    signals,    \* how many signals were sent from outside
    stopper,    \* a process in stop_dev_instances()
    launcher    \* a process in _spawn_daemon(), or "none" in the foreground

children == <<child, told, killed>>
control  == <<pc, at, started, ready, registered, outcome>>
others   == <<signals, stopper, launcher>>
vars     == <<order, control, flag, children, others>>

N     == Len(order)
Comps == 1 .. N
Up(i) == child[i] = "up"

\* The handlers of _run_foreground are installed.
Starting == {"ports", "spawn", "append", "ready", "alive", "register"}
Handling == Starting \cup {"check", "scan", "restore"}
Stopping == {"stop", "wait", "reap"}

TypeOK ==
    /\ order \in Orders
    /\ pc \in Handling \cup Stopping \cup {"gates", "ended"}
    /\ at \in 0 .. N + 1 /\ started \in 0 .. N /\ ready \in 0 .. N
    /\ flag \in BOOLEAN /\ registered \in BOOLEAN
    /\ outcome \in {"none", "ok", "refused", "error", "died", "interrupted", "killed"}
    /\ child \in [Comps -> {"new", "up", "dead"}]
    /\ told \subseteq Comps /\ killed \subseteq Comps
    /\ signals \in 0 .. MaxSignals
    /\ stopper \in {"idle", "waiting", "done"}
    /\ launcher \in {"none", "waiting", "ok", "failed"}

Init ==
    /\ order \in Orders
    /\ pc = "gates" /\ at = 0 /\ started = 0 /\ ready = 0
    /\ flag = FALSE /\ registered = FALSE /\ outcome = "none"
    /\ child = [i \in Comps |-> "new"] /\ told = {} /\ killed = {}
    /\ signals = 0 /\ stopper = "idle" /\ launcher \in {"none", "waiting"}

-----------------------------------------------------------------------------
(* Start-up.  The flag is not read here: a stop that is requested while    *)
(* components start takes effect in the supervise loop.                    *)

\* Where the start goes on with component i: the ports of the pair are checked
\* before the first of the two.
GoOn(i) ==
    /\ at' = i
    /\ pc' = IF i > N THEN "register"
             ELSE IF order[i] # "aux" /\ (i = 1 \/ order[i - 1] = "aux") THEN "ports"
             ELSE "spawn"

\* An exception: the finally clause runs next.
Fail(o) == pc' = "restore" /\ outcome' = o /\ UNCHANGED <<at, started, ready, registered>>

\* check_sw_mode and run_pre_spawn_gates; then the handlers are installed.
GatesPass ==
    /\ pc = "gates"
    /\ GoOn(1)
    /\ UNCHANGED <<order, started, ready, registered, outcome, flag, children, others>>

GatesFail ==
    /\ pc = "gates"
    /\ pc' = "ended" /\ outcome' = "refused"
    /\ UNCHANGED <<order, at, started, ready, registered, flag, children, others>>

PortsFree ==
    /\ pc = "ports"
    /\ pc' = "spawn"
    /\ UNCHANGED <<order, at, started, ready, registered, outcome, flag, children, others>>

PortInUse == pc = "ports" /\ Fail("error") /\ UNCHANGED <<order, flag, children, others>>

Spawn ==
    /\ pc = "spawn"
    /\ child' = [child EXCEPT ![at] = "up"]
    /\ pc' = "append"
    /\ UNCHANGED <<order, at, started, ready, registered, outcome, flag, told, killed, others>>

\* Popen raises: no such command.
SpawnFails == pc = "spawn" /\ Fail("error") /\ UNCHANGED <<order, flag, children, others>>

\* Mutated form of Add: the component is listed when it is ready.
AddLate ==
    /\ pc = "append"
    /\ started' = started
    /\ pc' = "ready"
    /\ UNCHANGED <<order, at, ready, registered, outcome, flag, children, others>>

Add ==
    /\ pc = "append"
    /\ started' = at
    /\ pc' = "ready"
    /\ UNCHANGED <<order, at, ready, registered, outcome, flag, children, others>>

\* The health of an aux service is asked of the service, whoever serves it; an
\* answer at a port of the pair counts after is_running().
Answers ==
    /\ pc = "ready" /\ order[at] # "cmd"
    /\ IF order[at] = "aux"
       THEN pc' = "alive" /\ UNCHANGED <<at, ready>>
       ELSE Up(at) /\ ready' = at /\ GoOn(at + 1)
    /\ UNCHANGED <<order, started, registered, outcome, flag, children, others>>

\* A backend command has no port: it is ready when it outlives a settling time.
Settles ==
    /\ pc = "ready" /\ order[at] = "cmd" /\ Up(at)
    /\ ready' = at /\ GoOn(at + 1)
    /\ UNCHANGED <<order, started, registered, outcome, flag, children, others>>

ExitsEarly ==
    /\ pc = "ready" /\ order[at] # "aux" /\ ~Up(at)
    /\ Fail("error")
    /\ UNCHANGED <<order, flag, children, others>>

\* Mutated form of TimesOut: the pair is waited for without a deadline.
TimesOutAux ==
    /\ pc = "ready" /\ order[at] = "aux"
    /\ Fail("error")
    /\ UNCHANGED <<order, flag, children, others>>

TimesOut ==
    /\ pc = "ready" /\ order[at] # "cmd"
    /\ Fail("error")
    /\ UNCHANGED <<order, flag, children, others>>

AuxAlive ==
    /\ pc = "alive" /\ Up(at)
    /\ ready' = at /\ GoOn(at + 1)
    /\ UNCHANGED <<order, started, registered, outcome, flag, children, others>>

AuxDied ==
    /\ pc = "alive" /\ ~Up(at)
    /\ Fail("died")
    /\ UNCHANGED <<order, flag, children, others>>

Register ==
    /\ pc = "register"
    /\ registered' = TRUE /\ pc' = "check"
    /\ UNCHANGED <<order, at, started, ready, outcome, flag, children, others>>

-----------------------------------------------------------------------------
(* supervise_loop: a signal may fall between the look at the flag and the  *)
(* scan.                                                                   *)

LoopStop ==
    /\ pc = "check" /\ flag
    /\ Fail("ok")
    /\ UNCHANGED <<order, flag, children, others>>

LoopCheck ==
    /\ pc = "check" /\ ~flag
    /\ pc' = "scan"
    /\ UNCHANGED <<order, at, started, ready, registered, outcome, flag, children, others>>

LoopScan ==
    /\ pc = "scan"
    /\ IF \E i \in 1 .. started : ~Up(i)
       THEN pc' = "restore" /\ outcome' = "died"
       ELSE pc' = "check" /\ outcome' = outcome
    /\ UNCHANGED <<order, at, started, ready, registered, flag, children, others>>

-----------------------------------------------------------------------------
(* The finally clause: the handlers are restored first, then the list is   *)
(* torn down from its end.                                                 *)

\* Mutated form of Restore: the list is stopped in start order.
RestoreLast ==
    /\ pc = "restore"
    /\ pc' = "stop" /\ at' = IF started = 0 THEN 0 ELSE 1
    /\ UNCHANGED <<order, started, ready, registered, outcome, flag, children, others>>

Restore ==
    /\ pc = "restore"
    /\ pc' = "stop" /\ at' = started
    /\ UNCHANGED <<order, started, ready, registered, outcome, flag, children, others>>

\* DevProcess.stop of component `at`.
StopDead ==
    /\ pc = "stop" /\ at > 0 /\ ~Up(at)
    /\ at' = at - 1
    /\ UNCHANGED <<order, pc, started, ready, registered, outcome, flag, children, others>>

StopTerm ==
    /\ pc = "stop" /\ at > 0 /\ Up(at)
    /\ told' = told \cup {at}
    /\ pc' = "wait"
    /\ UNCHANGED <<order, at, started, ready, registered, outcome, flag, child, killed, others>>

StopExited ==
    /\ pc \in {"wait", "reap"} /\ ~Up(at)
    /\ pc' = "stop" /\ at' = at - 1
    /\ UNCHANGED <<order, started, ready, registered, outcome, flag, children, others>>

\* Mutated form of StopKill: the grace period ends the wait and nothing more.
StopKillNot ==
    /\ pc = "wait" /\ Up(at)
    /\ pc' = "reap" /\ UNCHANGED killed
    /\ UNCHANGED <<order, at, started, ready, registered, outcome, flag, child, told, others>>

StopKill ==
    /\ pc = "wait" /\ Up(at)
    /\ killed' = killed \cup {at}
    /\ pc' = "reap"
    /\ UNCHANGED <<order, at, started, ready, registered, outcome, flag, child, told, others>>

\* The component is still there five seconds after SIGKILL: a log line.
StopSurvived ==
    /\ pc = "reap" /\ Up(at)
    /\ pc' = "stop" /\ at' = at - 1
    /\ UNCHANGED <<order, started, ready, registered, outcome, flag, children, others>>

Deregister ==
    /\ pc = "stop" /\ at = 0
    /\ registered' = FALSE /\ pc' = "ended"
    /\ UNCHANGED <<order, at, started, ready, outcome, flag, children, others>>

-----------------------------------------------------------------------------
(* The world around: components, signals, `dev stop`, the launcher.        *)

Dies(i) ==
    /\ Up(i)
    /\ child' = [child EXCEPT ![i] = "dead"]
    /\ UNCHANGED <<order, control, flag, told, killed, others>>

\* What a SIGINT or SIGTERM does to the supervisor: _handle_signal, or without
\* the handlers KeyboardInterrupt or death, which abandons a teardown.
HandleSignal ==
    /\ IF pc \in Handling
       THEN /\ flag' = TRUE
            /\ told' = told \cup {i \in 1 .. started : Up(i)}
            /\ UNCHANGED control
       ELSE /\ pc' = "ended" /\ outcome' = "interrupted"
            /\ UNCHANGED <<flag, told, at, started, ready, registered>>
    /\ UNCHANGED <<order, child, killed>>

Signal ==
    /\ pc # "ended" /\ signals < MaxSignals
    /\ signals' = signals + 1
    /\ HandleSignal
    /\ UNCHANGED <<stopper, launcher>>

\* list_dev_instances finds a live supervisor by its entry.
DevStop ==
    /\ stopper = "idle" /\ registered /\ pc # "ended"
    /\ stopper' = "waiting"
    /\ HandleSignal
    /\ UNCHANGED <<signals, launcher>>

\* Ten seconds have passed: only a teardown that waits for a component takes
\* that long.
DevStopKills ==
    /\ stopper = "waiting" /\ pc \in {"wait", "reap"}
    /\ stopper' = "done"
    /\ pc' = "ended" /\ outcome' = "killed"
    /\ UNCHANGED <<order, at, started, ready, registered, flag, children, signals, launcher>>

DevStopDone ==
    /\ stopper = "waiting" /\ pc = "ended"
    /\ stopper' = "done"
    /\ UNCHANGED <<order, control, flag, children, signals, launcher>>

\* Mutated form of LauncherSees: the exit of the daemon is not looked at.
LauncherSeesNoExit ==
    /\ launcher = "waiting" /\ (registered \/ pc = "ended")
    /\ launcher' = "ok"
    /\ UNCHANGED <<order, control, flag, children, signals, stopper>>

LauncherSees ==
    /\ launcher = "waiting" /\ (registered \/ pc = "ended")
    /\ launcher' = IF pc = "ended" THEN "failed" ELSE "ok"
    /\ UNCHANGED <<order, control, flag, children, signals, stopper>>

\* Fifteen seconds without an entry.  The daemon is left to itself.
LauncherTimesOut ==
    /\ launcher = "waiting" /\ pc \in Starting
    /\ launcher' = "failed"
    /\ UNCHANGED <<order, control, flag, children, signals, stopper>>

-----------------------------------------------------------------------------
Supervisor ==
    \/ GatesPass \/ GatesFail \/ PortsFree \/ PortInUse
    \/ Spawn \/ SpawnFails \/ Add \/ Settles \/ ExitsEarly \/ TimesOut
    \/ AuxAlive \/ AuxDied \/ Register
    \/ LoopStop \/ LoopCheck \/ LoopScan
    \/ Restore \/ StopDead \/ StopTerm \/ StopExited \/ StopKill \/ StopSurvived
    \/ Deregister

World ==
    \/ \E i \in Comps : Dies(i)
    \/ Signal \/ DevStop \/ DevStopKills \/ DevStopDone
    \/ LauncherSees \/ LauncherTimesOut

Next == Supervisor \/ Answers \/ World

\* The supervisor's own steps are not held up: every wait has a deadline.
\* SIGKILL takes effect in the end.  Nobody has to answer a probe, to die
\* otherwise or to send a signal.
Fairness ==
    /\ WF_vars(Supervisor)
    /\ \A i \in UNION {1 .. Len(o) : o \in Orders} : WF_vars(i \in killed /\ Dies(i))

Spec == Init /\ [][Next]_vars /\ Fairness

-----------------------------------------------------------------------------
(* Properties.                                                             *)

Unclean == {"interrupted", "killed"}

\* When the supervisor ends by itself, whatever failed or was signalled on the
\* way, each component it ever spawned is dead or was sent SIGKILL (and its
\* entry is gone).  A second signal during the teardown and the SIGKILL of
\* `dev stop` are excepted: supervise.py:587 gives the first its default effect.
NoChildLeft ==
    pc = "ended" /\ outcome \notin Unclean =>
        /\ ~registered
        /\ \A i \in Comps : Up(i) => i \in killed

\* The registry never shows, and the launcher never reports, an environment
\* before all of its components were ready; run_dev returns 0 only for one that
\* was asked to stop, and names a component only if one is dead.
StatusIsTrue ==
    /\ registered \/ launcher = "ok" \/ outcome = "ok" => ready = N
    /\ outcome = "ok" => flag
    /\ outcome = "died" => \E i \in Comps : child[i] = "dead"

\* Without a signal, a component is told to stop only when every component
\* that was started after it is dead or was killed.
StopsInReverse ==
    [][\A i \in told' \ told : ~flag' =>
          \A j \in Comps : j > i /\ Up(j) => j \in killed]_vars

\* A stop that is requested, however early, ends the supervisor and all that
\* it started, also components that ignore SIGTERM.
StopReachesAll ==
    flag ~> /\ pc = "ended"
            /\ outcome \in Unclean \/ \A i \in Comps : ~Up(i)

\* A start is decided: components that hang and never answer do not keep the
\* supervisor from registering or giving up.
StartIsDecided == <>(registered \/ pc = "ended")
=============================================================================
