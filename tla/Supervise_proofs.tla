--------------------------- MODULE Supervise_proofs ---------------------------
(***************************************************************************)
(* For every set of configurations and every number of signals: no         *)
(* component is left behind, and what the supervisor reports is true.      *)
(***************************************************************************)
EXTENDS Supervise, TLAPS

\* What each place of the code says about the component in work.
PlaceInv ==
    /\ pc = "gates" => started = 0 /\ ready = 0
    /\ pc \in {"ports", "spawn", "append"} => at \in Comps /\ started = at - 1 /\ ready = at - 1
    /\ pc \in {"ready", "alive"} => at \in Comps /\ started = at /\ ready = at - 1
    /\ pc \in {"register", "check", "scan"} => started = N /\ ready = N
    /\ pc = "stop" => at <= N
    /\ pc \in {"wait", "reap"} => at \in Comps

\* A component that was spawned is on the list, or about to be put there.
SpawnInv ==
    \A i \in Comps : (child[i] # "new") <=> (i <= started \/ (pc = "append" /\ i = at))

\* The teardown leaves behind it only components that are dead or were killed.
StopInv ==
    /\ pc \in Stopping => \A i \in Comps : i > at /\ Up(i) => i \in killed
    /\ pc = "reap" => at \in killed
    /\ NoChildLeft

\* What is registered, and why the supervisor ended.
ReportInv ==
    /\ registered => pc \notin Starting \cup {"gates"}
    /\ outcome \in Unclean => pc = "ended"
    /\ StatusIsTrue

IInv == TypeOK /\ PlaceInv /\ SpawnInv /\ StopInv /\ ReportInv

\* A configuration is a finite list of components.
LEMMA OrderType == TypeOK => N \in Nat /\ Comps = 1 .. N
BY OrdersAssumption DEF TypeOK, N, Comps

LEMMA OrderStays == ASSUME TypeOK, order' = order PROVE N \in Nat /\ N' = N
<1>1. N \in Nat
    BY OrderType
<1>2. N' = N
    BY DEF N
<1>3. QED BY <1>1, <1>2

LEMMA Initially == Init => IInv
<1> SUFFICES ASSUME Init PROVE IInv
    OBVIOUS
<1>1. N \in Nat
    BY OrdersAssumption DEF Init, N
<1>2. TypeOK
    <2>1. child \in [Comps -> {"new", "up", "dead"}]
        BY DEF Init
    <2>2. at \in 0 .. N + 1 /\ started \in 0 .. N /\ ready \in 0 .. N
        BY <1>1 DEF Init
    <2>3. signals \in 0 .. MaxSignals
        BY MaxSignalsAssumption DEF Init
    <2>4. QED BY <2>1, <2>2, <2>3 DEF Init, TypeOK, Handling, Starting, Stopping
<1>3. PlaceInv
    BY <1>1 DEF Init, PlaceInv
<1>4. SpawnInv
    BY <1>1 DEF Init, SpawnInv, Comps
<1>5. StopInv
    BY <1>1 DEF Init, StopInv, NoChildLeft, Stopping
<1>6. ReportInv
    BY <1>1 DEF Init, ReportInv, StatusIsTrue, Starting, Unclean
<1>7. QED BY <1>2, <1>3, <1>4, <1>5, <1>6 DEF IInv

\* A signal only raises the flag and tells the components, or ends the supervisor.
SignalEffect ==
    /\ UNCHANGED <<order, child, killed, at, started, ready, registered>>
    /\ flag' \in BOOLEAN /\ (flag => flag') /\ told' \subseteq Comps
    /\ \/ pc' = pc /\ outcome' = outcome
       \/ pc' = "ended" /\ outcome' = "interrupted" /\ pc # "append"

LEMMA SignalHandled == ASSUME IInv, HandleSignal PROVE SignalEffect
<1> USE DEF SignalEffect
<1>1. flag \in BOOLEAN /\ told \subseteq Comps /\ started \in 0 .. N /\ N \in Nat
    BY OrderType DEF IInv, TypeOK
<1>2. CASE pc \in Handling
    <2>1. /\ told' = told \cup {i \in 1 .. started : Up(i)}
          /\ flag' = TRUE
          /\ UNCHANGED <<order, child, killed, at, started, ready, registered, pc, outcome>>
        BY <1>2 DEF HandleSignal, control
    <2>2. told' \subseteq Comps
        <3>1. 1 .. started \subseteq Comps
            BY <1>1 DEF Comps
        <3>2. QED BY <1>1, <2>1, <3>1, Zenon
    <2>3. QED BY <2>1, <2>2
<1>3. CASE pc \notin Handling
    BY <1>1, <1>3 DEF HandleSignal, Handling, Starting
<1>4. QED BY <1>2, <1>3

\* Every step of the supervisor, of its components and of those who signal it
\* preserves the invariant.
LEMMA NextKeeps == ASSUME IInv, [Next]_vars PROVE IInv'
<1>0. N \in Nat /\ N' = N
    <2>1. order' = order
        BY DEF Next, Supervisor, World, HandleSignal, vars, GatesPass, GatesFail, PortsFree, PortInUse, Spawn, SpawnFails, Add, Settles,
               ExitsEarly, TimesOut, AuxAlive, AuxDied, Register, LoopStop,
               LoopCheck, LoopScan, Restore, StopDead, StopTerm, StopExited,
               StopKill, StopSurvived, Deregister, Answers, Signal, DevStop,
               DevStopKills, DevStopDone, LauncherSees, LauncherTimesOut, Dies,
               Fail, GoOn
    <2>2. QED BY <2>1, OrderStays DEF IInv
<1> USE DEF IInv, TypeOK, PlaceInv, SpawnInv, StopInv, ReportInv, NoChildLeft, StatusIsTrue,
            Comps, Up, Handling, Starting, Stopping, Unclean, control, children, others
<1>1. CASE GatesPass
    BY <1>0, <1>1 DEF GatesPass, GoOn
<1>2. CASE GatesFail
    BY <1>0, <1>2 DEF GatesFail
<1>3. CASE PortsFree
    BY <1>0, <1>3 DEF PortsFree
<1>4. CASE PortInUse
    BY <1>0, <1>4 DEF PortInUse, Fail
<1>5. CASE Spawn
    BY <1>0, <1>5 DEF Spawn
<1>6. CASE SpawnFails
    BY <1>0, <1>6 DEF SpawnFails, Fail
<1>7. CASE Add
    BY <1>0, <1>7 DEF Add
<1>8. CASE Settles
    BY <1>0, <1>8 DEF Settles, GoOn
<1>9. CASE ExitsEarly
    BY <1>0, <1>9 DEF ExitsEarly, Fail
<1>10. CASE TimesOut
    BY <1>0, <1>10 DEF TimesOut, Fail
<1>11. CASE AuxAlive
    BY <1>0, <1>11 DEF AuxAlive, GoOn
<1>12. CASE AuxDied
    BY <1>0, <1>12 DEF AuxDied, Fail
<1>13. CASE Register
    BY <1>0, <1>13 DEF Register
<1>14. CASE LoopStop
    BY <1>0, <1>14 DEF LoopStop, Fail
<1>15. CASE LoopCheck
    BY <1>0, <1>15 DEF LoopCheck
<1>16. CASE LoopScan
    BY <1>0, <1>16 DEF LoopScan
<1>17. CASE Restore
    BY <1>0, <1>17 DEF Restore
<1>18. CASE StopDead
    BY <1>0, <1>18 DEF StopDead
<1>19. CASE StopTerm
    BY <1>0, <1>19 DEF StopTerm
<1>20. CASE StopExited
    BY <1>0, <1>20 DEF StopExited
<1>21. CASE StopKill
    BY <1>0, <1>21 DEF StopKill
<1>22. CASE StopSurvived
    BY <1>0, <1>22 DEF StopSurvived
<1>23. CASE Deregister
    <2>1. NoChildLeft'
        BY <1>0, <1>23 DEF Deregister
    <2>2. QED BY <1>0, <1>23, <2>1 DEF Deregister
<1>24. CASE Answers
    BY <1>0, <1>24 DEF Answers, GoOn
<1>25. CASE Signal
    <2>1. SignalEffect
        BY <1>25, SignalHandled DEF Signal
    <2>2. QED BY MaxSignalsAssumption, <1>0, <1>25, <2>1 DEF Signal, SignalEffect
<1>26. CASE DevStop
    <2>1. SignalEffect
        BY <1>26, SignalHandled DEF DevStop
    <2>2. QED BY <1>0, <1>26, <2>1 DEF DevStop, SignalEffect
<1>27. CASE DevStopKills
    BY <1>0, <1>27 DEF DevStopKills
<1>28. CASE DevStopDone
    BY <1>0, <1>28 DEF DevStopDone
<1>29. CASE LauncherSees
    BY <1>0, <1>29 DEF LauncherSees
<1>30. CASE LauncherTimesOut
    BY <1>0, <1>30 DEF LauncherTimesOut
<1>31. ASSUME NEW i \in Comps, Dies(i) PROVE IInv'
    BY <1>0, <1>31 DEF Dies
<1>32. CASE UNCHANGED vars
    <2>1. UNCHANGED <<order, pc, at, started, ready, flag, registered, outcome, child, told,
                      killed, signals, stopper, launcher>>
        BY <1>32 DEF vars
    <2>2. QED BY <1>0, <2>1
<1>33. QED
    BY <1>1, <1>2, <1>3, <1>4, <1>5, <1>6, <1>7, <1>8, <1>9, <1>10, <1>11, <1>12,
       <1>13, <1>14, <1>15, <1>16, <1>17, <1>18, <1>19, <1>20, <1>21, <1>22, <1>23, <1>24,
       <1>25, <1>26, <1>27, <1>28, <1>29, <1>30, <1>31, <1>32
       DEF Next, Supervisor, World

\* The strengthened invariant holds in every reachable state.
THEOREM Invariance == Spec => []IInv
<1>1. IInv /\ [Next]_vars => IInv'
    BY NextKeeps
<1>2. QED BY Initially, <1>1, PTL DEF Spec

\* No component is left behind by a supervisor that ends by itself (the finally
\* clause of _run_foreground), for every configuration and any signals.
THEOREM NoneLeft == Spec => []NoChildLeft
<1>1. IInv => NoChildLeft
    BY DEF IInv, StopInv
<1>2. QED BY <1>1, Invariance, PTL

\* The registry, the launcher and the exit status of run_dev never claim more
\* than there is.
THEOREM Truthful == Spec => []StatusIsTrue
<1>1. IInv => StatusIsTrue
    BY DEF IInv, ReportInv
<1>2. QED BY <1>1, Invariance, PTL

\* Type correctness of the supervisor.
THEOREM TypeCorrect == Spec => []TypeOK
<1>1. IInv => TypeOK
    BY DEF IInv
<1>2. QED BY <1>1, Invariance, PTL

\* Components stop in reverse order unless a signal tells them all (teardown of
\* _run_foreground): only DevProcess.stop of the last one left sends SIGTERM.
THEOREM Reverse == Spec => StopsInReverse
<1> DEFINE Step == \A i \in told' \ told : ~flag' =>
                      \A j \in Comps : j > i /\ Up(j) => j \in killed
<1>1. IInv /\ [Next]_vars => [Step]_vars
    <2> SUFFICES ASSUME IInv, Next, told' # told, ~flag' PROVE Step
        BY DEF vars, children
    <2>1. CASE StopTerm
        BY <2>1 DEF StopTerm, IInv, StopInv, Stopping
    <2>2. CASE Signal \/ DevStop
        <3>1. HandleSignal
            BY <2>2 DEF Signal, DevStop
        <3>2. QED BY <3>1 DEF HandleSignal
    <2>3. CASE ~StopTerm /\ ~Signal /\ ~DevStop
        <3>1. told' = told
            BY <2>3 DEF Next, Supervisor, World, children, GatesPass, GatesFail, PortsFree, PortInUse, Spawn, SpawnFails, Add,
                   Settles, ExitsEarly, TimesOut, AuxAlive, AuxDied,
                   Register, LoopStop, LoopCheck, LoopScan, Restore,
                   StopDead, StopExited, StopKill, StopSurvived,
                   Deregister, Answers, DevStopKills, DevStopDone,
                   LauncherSees, LauncherTimesOut, Dies
        <3>2. QED BY <3>1
    <2>4. QED BY <2>1, <2>2, <2>3
<1>2. QED BY <1>1, Invariance, PTL DEF Spec, StopsInReverse
-----------------------------------------------------------------------------
(* How far the supervisor is from its end.                                 *)

\* A bound on the steps of its own that are left, look and scan of the supervise
\* loop counted once: five for a component to start, three to stop it.
Loop == 3 * N + 3
StepsLeft ==
    CASE pc = "ended"    -> 0
      [] pc = "reap"     -> 3 * at - 1
      [] pc = "wait"     -> 3 * at
      [] pc = "stop"     -> 3 * at + 1
      [] pc = "restore"  -> 3 * N + 2
      [] pc = "check"    -> Loop
      [] pc = "scan"     -> Loop + 1
      [] pc = "register" -> Loop + 2
      [] pc = "alive"    -> Loop + 5 * (N - at) + 3
      [] pc = "ready"    -> Loop + 5 * (N - at) + 4
      [] pc = "append"   -> Loop + 5 * (N - at) + 5
      [] pc = "spawn"    -> Loop + 5 * (N - at) + 6
      [] pc = "ports"    -> Loop + 5 * (N - at) + 7
      [] pc = "gates"    -> Loop + 5 * N + 3

Nearer == StepsLeft' < StepsLeft

LEMMA StepsAreCounted ==
    ASSUME IInv
    PROVE  StepsLeft \in 0 .. 8 * N + 6 /\ (pc # "ended" => StepsLeft # 0)
<1>1. N \in Nat /\ at \in 0 .. N + 1
    BY OrderType DEF IInv, TypeOK
<1>2. pc \in {"ports", "spawn", "append", "ready", "alive", "wait", "reap"} => at \in 1 .. N
    BY DEF IInv, PlaceInv, Comps
<1>3. pc = "stop" => at <= N
    BY DEF IInv, PlaceInv
<1>4. pc \in Handling \cup Stopping \cup {"gates", "ended"}
    BY DEF IInv, TypeOK
<1>5. CASE pc \in {"alive", "ready", "append", "spawn", "ports"}
    <2>1. \E k \in 3 .. 7 : StepsLeft = Loop + 5 * (N - at) + k
        BY <1>1, <1>5 DEF StepsLeft
    <2>2. at \in 1 .. N
        BY <1>2, <1>5
    <2>3. QED BY <1>1, <2>1, <2>2 DEF Loop
<1>6. CASE pc \in {"reap", "wait", "stop"}
    <2>1. StepsLeft \in {3 * at - 1, 3 * at, 3 * at + 1}
        BY <1>6 DEF StepsLeft
    <2>2. at <= N /\ (at >= 1 \/ StepsLeft = 3 * at + 1)
        BY <1>1, <1>2, <1>3, <1>6 DEF StepsLeft
    <2>3. QED BY <1>1, <2>1, <2>2
<1>7. CASE pc \in {"restore", "check", "scan", "register", "gates"}
    <2>1. StepsLeft \in {3 * N + 2, 3 * N + 3, 3 * N + 4, 3 * N + 5, 8 * N + 6}
        BY <1>1, <1>7 DEF StepsLeft, Loop
    <2>2. QED BY <1>1, <2>1
<1>8. CASE pc = "ended"
    BY <1>1, <1>8 DEF StepsLeft
<1>9. QED
    <2>1. \/ pc \in {"alive", "ready", "append", "spawn", "ports"}
          \/ pc \in {"reap", "wait", "stop"}
          \/ pc \in {"restore", "check", "scan", "register", "gates"}
          \/ pc = "ended"
        BY <1>4 DEF Handling, Starting, Stopping
    <2>2. QED BY <2>1, <1>5, <1>6, <1>7, <1>8

\* To go on with the next component is a step nearer, from either wait.
LEMMA GoesOn == ASSUME IInv, pc \in {"ready", "alive"}, N \in Nat, N' = N, GoOn(at + 1)
                PROVE  Nearer
<1>1. at \in 1 .. N
    BY DEF IInv, PlaceInv, Comps
<1>2. StepsLeft \in {3 * N + 5 * (N - at) + 6, 3 * N + 5 * (N - at) + 7}
    BY <1>1 DEF StepsLeft, Loop
<1>3. CASE at + 1 > N
    <2>1. pc' = "register"
        BY <1>3 DEF GoOn
    <2>2. StepsLeft' = 3 * N + 5
        BY <2>1 DEF StepsLeft, Loop
    <2>3. QED BY <1>1, <1>2, <2>2 DEF Nearer
<1>4. CASE ~(at + 1 > N)
    <2>1. pc' \in {"ports", "spawn"} /\ at' = at + 1
        BY <1>4 DEF GoOn
    <2>2. StepsLeft' \in {3 * N + 5 * (N - at') + 9, 3 * N + 5 * (N - at') + 10}
        BY <1>1, <2>1 DEF StepsLeft, Loop
    <2>3. 5 * (N - at') = 5 * (N - at) - 5 /\ 5 * (N - at) \in Nat
        BY <1>1, <2>1
    <2>4. QED BY <1>1, <1>2, <2>2, <2>3 DEF Nearer
<1>5. QED BY <1>3, <1>4

\* Only the look at a flag that is not up leads the supervisor back.
LEMMA SupervisorNears == ASSUME IInv, Supervisor, ~LoopCheck PROVE Nearer
<1>0. N \in Nat /\ N' = N
    <2>1. order' = order
        BY DEF Supervisor, GatesPass, GatesFail, PortsFree, PortInUse, Spawn, SpawnFails, Add,
               Settles, ExitsEarly, TimesOut, AuxAlive, AuxDied, Register, LoopStop, LoopCheck,
               LoopScan, Restore, StopDead, StopTerm, StopExited, StopKill, StopSurvived,
               Deregister
    <2>2. QED BY <2>1, OrderStays DEF IInv
<1> USE <1>0 DEF IInv, TypeOK, PlaceInv, Comps, Nearer, StepsLeft, Loop
<1>1. CASE GatesPass
    BY <1>1 DEF GatesPass, GoOn
<1>2. CASE GatesFail
    BY <1>2 DEF GatesFail
<1>3. CASE PortsFree
    BY <1>3 DEF PortsFree
<1>4. CASE PortInUse
    BY <1>4 DEF PortInUse, Fail
<1>5. CASE Spawn
    BY <1>5 DEF Spawn
<1>6. CASE SpawnFails
    BY <1>6 DEF SpawnFails, Fail
<1>7. CASE Add
    BY <1>7 DEF Add
<1>8. CASE Settles
    BY <1>8, GoesOn DEF Settles
<1>9. CASE ExitsEarly
    BY <1>9 DEF ExitsEarly, Fail
<1>10. CASE TimesOut
    BY <1>10 DEF TimesOut, Fail
<1>11. CASE AuxAlive
    BY <1>11, GoesOn DEF AuxAlive
<1>12. CASE AuxDied
    BY <1>12 DEF AuxDied, Fail
<1>13. CASE Register
    BY <1>13 DEF Register
<1>14. CASE LoopStop
    BY <1>14 DEF LoopStop, Fail
<1>15. CASE LoopScan
    BY <1>15 DEF LoopScan
<1>16. CASE Restore
    BY <1>16 DEF Restore
<1>17. CASE StopDead
    BY <1>17 DEF StopDead
<1>18. CASE StopTerm
    BY <1>18 DEF StopTerm
<1>19. CASE StopExited
    BY <1>19 DEF StopExited
<1>20. CASE StopKill
    BY <1>20 DEF StopKill
<1>21. CASE StopSurvived
    BY <1>21 DEF StopSurvived
<1>22. CASE Deregister
    BY <1>22 DEF Deregister
<1>23. QED
    BY <1>1, <1>2, <1>3, <1>4, <1>5, <1>6, <1>7, <1>8, <1>9, <1>10, <1>11, <1>12, <1>13, <1>14, <1>15, <1>16, <1>17, <1>18, <1>19, <1>20, <1>21, <1>22
       DEF Supervisor

\* Nobody else leads it back: an answer advances it, a signal may end it.
LEMMA OthersDoNot == ASSUME IInv, Answers \/ World \/ UNCHANGED vars
                     PROVE  Nearer \/ StepsLeft' = StepsLeft
<1>0. N \in Nat /\ N' = N
    <2>1. order' = order
        BY DEF Answers, World, HandleSignal, vars, Signal, DevStop, DevStopKills, DevStopDone,
               LauncherSees, LauncherTimesOut, Dies
    <2>2. QED BY <2>1, OrderStays DEF IInv
<1>1. CASE Answers
    <2>1. CASE order[at] = "aux"
        <3>1. pc = "ready" /\ pc' = "alive" /\ at' = at /\ at \in Nat
            BY <1>0, <1>1, <2>1 DEF Answers, IInv, TypeOK
        <3>2. QED BY <1>0, <3>1 DEF StepsLeft, Loop, Nearer
    <2>2. CASE order[at] # "aux"
        BY <1>0, <1>1, <2>2, GoesOn DEF Answers
    <2>3. QED BY <2>1, <2>2
<1>2. CASE Signal \/ DevStop \/ DevStopKills
    <2>1. at' = at /\ (pc' = pc \/ (pc' = "ended" /\ pc # "ended"))
        BY <1>2 DEF Signal, DevStop, DevStopKills, HandleSignal, control
    <2>2. CASE pc' = pc
        BY <1>0, <2>1, <2>2 DEF StepsLeft, Loop
    <2>3. CASE pc' = "ended" /\ pc # "ended"
        <3>1. StepsLeft' = 0
            BY <2>3 DEF StepsLeft
        <3>2. StepsLeft \in Nat /\ StepsLeft # 0
            BY <1>0, <2>3, StepsAreCounted
        <3>3. QED BY <3>1, <3>2 DEF Nearer
    <2>4. QED BY <2>1, <2>2, <2>3
<1>3. CASE ~Answers /\ ~Signal /\ ~DevStop /\ ~DevStopKills
    <2>1. at' = at /\ pc' = pc
        BY <1>3 DEF Answers, World, vars, control, DevStopDone, LauncherSees, LauncherTimesOut, Dies
    <2>2. QED BY <1>0, <2>1 DEF StepsLeft, Loop
<1>4. QED BY <1>1, <1>2, <1>3

\* What deadlines and the flag are for (wait_ready, DevProcess.stop, supervise_loop):
\* for N components the supervisor ends after at most 8N + 6 steps of its own, not
\* counting rounds of the loop that are made only while nobody has asked to stop
\* and every component is ready, and nothing that others do adds to them.
EndsInBoundedSteps ==
    [][/\ StepsLeft \in 0 .. 8 * N + 6
       /\ StepsLeft' < StepsLeft \/ (~Supervisor /\ StepsLeft' = StepsLeft)
             \/ (LoopCheck /\ ~flag /\ ready = N)]_vars

THEOREM Bounded == Spec => EndsInBoundedSteps
<1> DEFINE Step == /\ StepsLeft \in 0 .. 8 * N + 6
                   /\ StepsLeft' < StepsLeft \/ (~Supervisor /\ StepsLeft' = StepsLeft)
                         \/ (LoopCheck /\ ~flag /\ ready = N)
<1>1. IInv /\ [Next]_vars => [Step]_vars
    <2> SUFFICES ASSUME IInv, Next PROVE Step
        OBVIOUS
    <2>1. CASE LoopCheck
        BY <2>1, StepsAreCounted DEF LoopCheck, IInv, PlaceInv
    <2>2. CASE Supervisor /\ ~LoopCheck
        BY <2>2, StepsAreCounted, SupervisorNears DEF Nearer
    <2>3. CASE ~Supervisor
        BY <2>3, StepsAreCounted, OthersDoNot DEF Next, Nearer
    <2>4. QED BY <2>1, <2>2, <2>3 DEF Supervisor
<1>2. QED BY <1>1, Invariance, PTL DEF Spec, EndsInBoundedSteps
=============================================================================
