----------------------- MODULE RequestLifecycle_proofs -----------------------
(* Proofs about RequestLifecycle, for every number of dependencies and every *)
(* body cap.                                                                 *)
EXTENDS RequestLifecycle, TLAPS

Sending == {"sendingStart", "sendingBody", "awaitChild", "aclose"}
Outer   == {"large", "excResult", "httpError", "fallback"}

\* The stream: a child task lives only while it is awaited, and an open
\* generator belongs to the response being sent.
StreamInv ==
    /\ child \in ChildAlive => pc = "awaitChild"
    /\ gen = "open" => /\ pc \in {"sendingStart", "awaitChild", "aclose"}
                       /\ reply \in {"result", "excResult"}
    /\ gen = "open" /\ pc = "sendingStart" => child = "none"
    /\ child # "none" => reply # "none"

\* The watcher is over wherever the request task can leave without joining it.
WatcherInv ==
    /\ pc \in {"body", "excHandler", "done"} \/ reply \in Outer
          => watcher \in {"none", "done"}
    /\ pc \in Sending => reply # "none"

\* The cleanups list holds the open dependencies, a prefix of the resolved
\* ones; only an outside cancellation loses some of them.
DepInv ==
    /\ \A d \in DepIds : d <= held => dep[d] = "open"
    /\ \A d \in DepIds : d > held /\ dep[d] = "open"
          => exc = "cancel" /\ pc \in {"joinWatcher", "done"}
    /\ pc \in {"body", "joinWatcher", "excHandler", "done"} \/ reply \in Outer
          => held = 0
    /\ LifoTeardown

\* Whatever is cancelled was cancelled by the watcher or by the server.
CancelInv ==
    /\ exc = "cancel" \/ mustCancel => extCancel
    /\ childCancel \/ child = "cancelled" => disconnected \/ extCancel

\* starts counts the replies that began; a second one is the fallback.
StartInv ==
    /\ started <=> reply # "none"
    /\ started <=> starts > 0
    /\ pc \in {"body", "resolve", "handler", "excHandler"} => ~started
    /\ SecondStartOnlyAfterHandlerReply
    /\ pc = "aclose" /\ exc = "error" => client = "gone" \/ child = "error"

\* Every start is followed by at most one final body message.
EndInv ==
    /\ ends <= starts
    /\ pc = "sendingStart" \/ child \in ChildAlive \ {"final"} => ends < starts

IInv ==
    /\ TypeOK /\ StreamInv /\ WatcherInv /\ DepInv
    /\ CancelInv /\ StartInv /\ EndInv

-----------------------------------------------------------------------------
\* A request begins in a state that satisfies the inductive invariant.
THEOREM InitInv == Init => IInv
<1> SUFFICES ASSUME Init PROVE IInv
  OBVIOUS
<1> USE NDepsAssumption, MaxBodyAssumption DEF Init, DepIds, ChildAlive, ChildOver
<1>1. TypeOK
  <2>1. dep \in [DepIds -> {"unopened", "open", "closed"}]
    OBVIOUS
  <2>2. multi \in BOOLEAN /\ started \in BOOLEAN
    OBVIOUS
  <2>3. body \in 0..MaxBody /\ held \in 0..NDeps
    OBVIOUS
  <2>4. MainTypeOK
    BY <2>1, <2>2, <2>3 DEF MainTypeOK
  <2>5. SendTypeOK
    BY DEF SendTypeOK
  <2>6. ChildTypeOK /\ PeerTypeOK
    BY DEF ChildTypeOK, PeerTypeOK
  <2> QED
    BY <2>4, <2>5, <2>6 DEF TypeOK
<1>2. DepInv
  BY DEF DepInv, LifoTeardown, Outer
<1>3. StreamInv /\ WatcherInv /\ CancelInv
  BY DEF StreamInv, WatcherInv, CancelInv, Sending, Outer
<1>4. StartInv /\ EndInv
  BY DEF StartInv, SecondStartOnlyAfterHandlerReply, EndInv
<1> QED
  BY <1>1, <1>2, <1>3, <1>4 DEF IInv

\* Every step of the four actors preserves the inductive invariant.
THEOREM NextInv == IInv /\ [Next]_vars => IInv'
<1> USE NDepsAssumption, MaxBodyAssumption
    DEF IInv, TypeOK, MainTypeOK, SendTypeOK, ChildTypeOK, PeerTypeOK,
        StreamInv, WatcherInv, DepInv, LifoTeardown, CancelInv, StartInv,
        SecondStartOnlyAfterHandlerReply, EndInv, DepIds, ChildAlive,
        ChildOver, Sending, Outer, mainVars, childVars, peerVars
<1>1. SUFFICES ASSUME IInv, [Next]_vars
               PROVE  IInv'
  OBVIOUS
<1>2. CASE MoreBody
  BY <1>1, <1>2 DEF MoreBody, Runs
<1>3. CASE BodyTooLarge
  <2>1. MainTypeOK'
    BY <1>1, <1>3 DEF BodyTooLarge, Runs, BeginReply
  <2>2. SendTypeOK' /\ ChildTypeOK' /\ PeerTypeOK'
    BY <1>1, <1>3 DEF BodyTooLarge, Runs, BeginReply
  <2>3. DepInv'
    BY <1>1, <1>3 DEF BodyTooLarge, Runs, BeginReply
  <2>4. StreamInv' /\ WatcherInv' /\ CancelInv' /\ StartInv' /\ EndInv'
    BY <1>1, <1>3 DEF BodyTooLarge, Runs, BeginReply
  <2> QED
    BY <2>1, <2>2, <2>3, <2>4 DEF IInv, TypeOK
<1>4. CASE BodyRead
  BY <1>1, <1>4 DEF BodyRead, Runs
<1>5. CASE BodyFails
  <2>1. MainTypeOK'
    BY <1>1, <1>5 DEF BodyFails, Runs, Fallback, Exit, BeginReply
  <2>2. SendTypeOK' /\ ChildTypeOK' /\ PeerTypeOK'
    BY <1>1, <1>5 DEF BodyFails, Runs, Fallback, Exit, BeginReply
  <2>3. DepInv'
    BY <1>1, <1>5 DEF BodyFails, Runs, Fallback, Exit, BeginReply
  <2>4. StreamInv' /\ WatcherInv' /\ CancelInv' /\ StartInv' /\ EndInv'
    BY <1>1, <1>5 DEF BodyFails, Runs, Fallback, Exit, BeginReply
  <2> QED
    BY <2>1, <2>2, <2>3, <2>4 DEF IInv, TypeOK
<1>6. CASE ResolveDep
  <2>1. MainTypeOK'
    BY <1>1, <1>6 DEF ResolveDep, Runs
  <2>2. SendTypeOK' /\ ChildTypeOK' /\ PeerTypeOK'
    BY <1>1, <1>6 DEF ResolveDep, Runs
  <2>3. DepInv'
    BY <1>1, <1>6 DEF ResolveDep, Runs
  <2>4. StreamInv' /\ WatcherInv' /\ CancelInv' /\ StartInv' /\ EndInv'
    BY <1>1, <1>6 DEF ResolveDep, Runs
  <2> QED
    BY <2>1, <2>2, <2>3, <2>4 DEF IInv, TypeOK
<1>7. CASE ResolveFails
  BY <1>1, <1>7 DEF ResolveFails, Runs
<1>8. CASE CallHandler
  <2>1. MainTypeOK'
    BY <1>1, <1>8 DEF CallHandler, Runs
  <2>2. SendTypeOK' /\ ChildTypeOK' /\ PeerTypeOK'
    BY <1>1, <1>8 DEF CallHandler, Runs
  <2>3. DepInv'
    BY <1>1, <1>8 DEF CallHandler, Runs
  <2>4. StreamInv' /\ WatcherInv' /\ CancelInv' /\ StartInv' /\ EndInv'
    BY <1>1, <1>8 DEF CallHandler, Runs
  <2> QED
    BY <2>1, <2>2, <2>3, <2>4 DEF IInv, TypeOK
<1>9. CASE HandlerReturns
  <2>1. MainTypeOK'
    BY <1>1, <1>9 DEF HandlerReturns, Runs, BeginReply
  <2>2. SendTypeOK' /\ ChildTypeOK' /\ PeerTypeOK'
    BY <1>1, <1>9 DEF HandlerReturns, Runs, BeginReply
  <2>3. DepInv'
    BY <1>1, <1>9 DEF HandlerReturns, Runs, BeginReply
  <2>4. StreamInv' /\ WatcherInv' /\ CancelInv' /\ StartInv' /\ EndInv'
    BY <1>1, <1>9 DEF HandlerReturns, Runs, BeginReply
  <2> QED
    BY <2>1, <2>2, <2>3, <2>4 DEF IInv, TypeOK
<1>10. CASE ReturnsStream
  <2>1. MainTypeOK'
    BY <1>1, <1>10 DEF ReturnsStream, Runs, BeginReply
  <2>2. SendTypeOK' /\ ChildTypeOK' /\ PeerTypeOK'
    BY <1>1, <1>10 DEF ReturnsStream, Runs, BeginReply
  <2>3. DepInv'
    BY <1>1, <1>10 DEF ReturnsStream, Runs, BeginReply
  <2>4. StreamInv' /\ WatcherInv' /\ CancelInv' /\ StartInv' /\ EndInv'
    BY <1>1, <1>10 DEF ReturnsStream, Runs, BeginReply
  <2> QED
    BY <2>1, <2>2, <2>3, <2>4 DEF IInv, TypeOK
<1>11. CASE HandlerRaises
  <2>1. MainTypeOK'
    BY <1>1, <1>11 DEF HandlerRaises, Runs
  <2>2. SendTypeOK' /\ ChildTypeOK' /\ PeerTypeOK'
    BY <1>1, <1>11 DEF HandlerRaises, Runs
  <2>3. DepInv'
    BY <1>1, <1>11 DEF HandlerRaises, Runs
  <2>4. StreamInv' /\ WatcherInv' /\ CancelInv' /\ StartInv' /\ EndInv'
    BY <1>1, <1>11 DEF HandlerRaises, Runs
  <2> QED
    BY <2>1, <2>2, <2>3, <2>4 DEF IInv, TypeOK
<1>12. CASE StartSent
  <2>1. MainTypeOK'
    BY <1>1, <1>12 DEF StartSent, Runs
  <2>2. SendTypeOK' /\ PeerTypeOK'
    BY <1>1, <1>12 DEF StartSent, Runs
  <2>5. ChildTypeOK'
    BY <1>1, <1>12 DEF StartSent, Runs
  <2>3. DepInv'
    BY <1>1, <1>12 DEF StartSent, Runs
  <2>4. StreamInv' /\ WatcherInv' /\ CancelInv' /\ StartInv' /\ EndInv'
    BY <1>1, <1>12 DEF StartSent, Runs
  <2> QED
    BY <2>1, <2>2, <2>3, <2>4, <2>5 DEF IInv, TypeOK
<1>13. CASE BodySent
  <2>1. MainTypeOK'
    BY <1>1, <1>13 DEF BodySent, Runs, Leave, Fallback, Exit, BeginReply
  <2>2. SendTypeOK' /\ ChildTypeOK' /\ PeerTypeOK'
    BY <1>1, <1>13 DEF BodySent, Runs, Leave, Fallback, Exit, BeginReply
  <2>3. DepInv'
    BY <1>1, <1>13 DEF BodySent, Runs, Leave, Fallback, Exit, BeginReply
  <2>4. StreamInv' /\ WatcherInv' /\ CancelInv' /\ StartInv' /\ EndInv'
    BY <1>1, <1>13 DEF BodySent, Runs, Leave, Fallback, Exit, BeginReply
  <2> QED
    BY <2>1, <2>2, <2>3, <2>4 DEF IInv, TypeOK
<1>14. CASE SendRaises
  <2>1. MainTypeOK'
    BY <1>1, <1>14 DEF SendRaises, Leave, Fallback, Exit, BeginReply
  <2>2. SendTypeOK' /\ ChildTypeOK' /\ PeerTypeOK'
    BY <1>1, <1>14 DEF SendRaises, Leave, Fallback, Exit, BeginReply
  <2>3. DepInv'
    BY <1>1, <1>14 DEF SendRaises, Leave, Fallback, Exit, BeginReply
  <2>4. StreamInv' /\ WatcherInv' /\ CancelInv' /\ StartInv' /\ EndInv'
    BY <1>1, <1>14 DEF SendRaises, Leave, Fallback, Exit, BeginReply
  <2> QED
    BY <2>1, <2>2, <2>3, <2>4 DEF IInv, TypeOK
<1>15. CASE ChildAwaited
  <2>1. MainTypeOK'
    BY <1>1, <1>15 DEF ChildAwaited, Runs
  <2>2. SendTypeOK' /\ ChildTypeOK' /\ PeerTypeOK'
    BY <1>1, <1>15 DEF ChildAwaited, Runs
  <2>3. DepInv'
    BY <1>1, <1>15 DEF ChildAwaited, Runs
  <2>4. StreamInv' /\ WatcherInv' /\ CancelInv' /\ StartInv' /\ EndInv'
    BY <1>1, <1>15 DEF ChildAwaited, Runs
  <2> QED
    BY <2>1, <2>2, <2>3, <2>4 DEF IInv, TypeOK
<1>16. CASE Aclose
  <2>1. MainTypeOK'
    BY <1>1, <1>16 DEF Aclose, Runs, Leave, Fallback, Exit, BeginReply
  <2>2. SendTypeOK' /\ ChildTypeOK' /\ PeerTypeOK'
    BY <1>1, <1>16 DEF Aclose, Runs, Leave, Fallback, Exit, BeginReply
  <2>3. DepInv'
    BY <1>1, <1>16 DEF Aclose, Runs, Leave, Fallback, Exit, BeginReply
  <2>4. StreamInv' /\ WatcherInv' /\ CancelInv' /\ StartInv' /\ EndInv'
    BY <1>1, <1>16 DEF Aclose, Runs, Leave, Fallback, Exit, BeginReply
  <2> QED
    BY <2>1, <2>2, <2>3, <2>4 DEF IInv, TypeOK
<1>17. CASE CleanupDep
  <2>1. dep' \in [DepIds -> {"unopened", "open", "closed"}]
    BY <1>1, <1>17 DEF CleanupDep
  <2>2. MainTypeOK'
    <3>1. held' \in 0..NDeps
      BY <1>1, <1>17 DEF CleanupDep, Runs
    <3>4. multi' \in BOOLEAN
      BY <1>1, <1>17 DEF CleanupDep
    <3>2. UNCHANGED <<reply, body, started>>
      BY <1>17 DEF CleanupDep, Runs
    <3>3. pc' \in {"cleanup", "joinWatcher"} /\ exc' \in {exc, "cancel"}
      BY <1>17 DEF CleanupDep, Runs
    <3> QED
      BY <1>1, <2>1, <3>1, <3>2, <3>3, <3>4
  <2>3. SendTypeOK' /\ ChildTypeOK' /\ PeerTypeOK'
    BY <1>1, <1>17 DEF CleanupDep, Runs
  <2>4. DepInv'
    BY <1>1, <1>17 DEF CleanupDep, Runs
  <2>5. StreamInv' /\ WatcherInv' /\ CancelInv' /\ StartInv' /\ EndInv'
    BY <1>1, <1>17 DEF CleanupDep, Runs
  <2> QED
    BY <2>2, <2>3, <2>4, <2>5 DEF IInv, TypeOK
<1>18. CASE CleanupEnds
  <2>1. MainTypeOK'
    BY <1>1, <1>18 DEF CleanupEnds, Runs, StopWatcher
  <2>2. SendTypeOK' /\ ChildTypeOK' /\ PeerTypeOK'
    BY <1>1, <1>18 DEF CleanupEnds, Runs, StopWatcher
  <2>3. DepInv'
    BY <1>1, <1>18 DEF CleanupEnds, Runs, StopWatcher
  <2>4. StreamInv' /\ WatcherInv' /\ CancelInv' /\ StartInv' /\ EndInv'
    BY <1>1, <1>18 DEF CleanupEnds, Runs, StopWatcher
  <2> QED
    BY <2>1, <2>2, <2>3, <2>4 DEF IInv, TypeOK
<1>19. CASE WatcherJoined
  <2>1. MainTypeOK'
    BY <1>1, <1>19 DEF WatcherJoined, Dispatch, Fallback, Exit, BeginReply
  <2>2. SendTypeOK' /\ PeerTypeOK'
    <3>1. ASSUME started PROVE starts' = starts
      BY <1>19, <3>1 DEF WatcherJoined, Dispatch, Fallback, Exit, BeginReply
    <3>3. ASSUME ~started PROVE starts' \in {0, 1}
      BY <1>1, <1>19, <3>3 DEF WatcherJoined, Dispatch, Fallback, Exit, BeginReply
    <3>2. PeerTypeOK' /\ ends' = ends
      BY <1>1, <1>19 DEF WatcherJoined
    <3> QED
      BY <1>1, <3>1, <3>2, <3>3
  <2>5. ChildTypeOK'
    BY <1>1, <1>19 DEF WatcherJoined, Dispatch, Fallback, Exit, BeginReply
  <2>3. DepInv'
    BY <1>1, <1>19 DEF WatcherJoined, Dispatch, Fallback, Exit, BeginReply
  <2>4. StreamInv' /\ WatcherInv' /\ CancelInv' /\ StartInv' /\ EndInv'
    BY <1>1, <1>19 DEF WatcherJoined, Dispatch, Fallback, Exit, BeginReply
  <2> QED
    BY <2>1, <2>2, <2>3, <2>4, <2>5 DEF IInv, TypeOK
<1>20. CASE ExcHandlerReturns
  <2>1. MainTypeOK'
    BY <1>1, <1>20 DEF ExcHandlerReturns, Runs, BeginReply
  <2>2. SendTypeOK' /\ ChildTypeOK' /\ PeerTypeOK'
    BY <1>1, <1>20 DEF ExcHandlerReturns, Runs, BeginReply
  <2>3. DepInv'
    BY <1>1, <1>20 DEF ExcHandlerReturns, Runs, BeginReply
  <2>4. StreamInv' /\ WatcherInv' /\ CancelInv' /\ StartInv' /\ EndInv'
    BY <1>1, <1>20 DEF ExcHandlerReturns, Runs, BeginReply
  <2> QED
    BY <2>1, <2>2, <2>3, <2>4 DEF IInv, TypeOK
<1>21. CASE ExcHandlerRaises
  <2>1. MainTypeOK'
    BY <1>1, <1>21 DEF ExcHandlerRaises, Runs, Fallback, Exit, BeginReply
  <2>2. SendTypeOK' /\ ChildTypeOK' /\ PeerTypeOK'
    BY <1>1, <1>21 DEF ExcHandlerRaises, Runs, Fallback, Exit, BeginReply
  <2>3. DepInv'
    BY <1>1, <1>21 DEF ExcHandlerRaises, Runs, Fallback, Exit, BeginReply
  <2>4. StreamInv' /\ WatcherInv' /\ CancelInv' /\ StartInv' /\ EndInv'
    BY <1>1, <1>21 DEF ExcHandlerRaises, Runs, Fallback, Exit, BeginReply
  <2> QED
    BY <2>1, <2>2, <2>3, <2>4 DEF IInv, TypeOK
<1>22. CASE Cancelled
  <2>1. /\ mustCancel /\ mustCancel' = FALSE
        /\ UNCHANGED <<body, child, registered, childCancel, ends>>
        /\ UNCHANGED <<client, disconnected, extCancel>>
    BY <1>22 DEF Cancelled
  <2>2. CASE CancelledOutside
    <3>1. MainTypeOK'
      BY <1>1, <2>1, <2>2 DEF CancelledOutside, Exit
    <3>2. SendTypeOK' /\ ChildTypeOK' /\ PeerTypeOK'
      BY <1>1, <2>1, <2>2 DEF CancelledOutside, Exit
    <3>3. DepInv'
      BY <1>1, <2>1, <2>2 DEF CancelledOutside, Exit
    <3>4. StreamInv' /\ WatcherInv' /\ CancelInv' /\ StartInv' /\ EndInv'
      BY <1>1, <2>1, <2>2 DEF CancelledOutside, Exit
    <3> QED
      BY <3>1, <3>2, <3>3, <3>4 DEF IInv, TypeOK
  <2>3. CASE CancelledInResolve
    <3>1. MainTypeOK'
      BY <1>1, <2>1, <2>3 DEF CancelledInResolve, StopWatcher
    <3>2. SendTypeOK' /\ ChildTypeOK' /\ PeerTypeOK'
      BY <1>1, <2>1, <2>3 DEF CancelledInResolve, StopWatcher
    <3>3. DepInv'
      BY <1>1, <2>1, <2>3 DEF CancelledInResolve, StopWatcher
    <3>4. StreamInv' /\ WatcherInv' /\ CancelInv' /\ StartInv' /\ EndInv'
      BY <1>1, <2>1, <2>3 DEF CancelledInResolve, StopWatcher
    <3> QED
      BY <3>1, <3>2, <3>3, <3>4 DEF IInv, TypeOK
  <2>4. CASE CancelledInHandler
    <3>1. MainTypeOK'
      BY <1>1, <2>1, <2>4 DEF CancelledInHandler
    <3>2. SendTypeOK' /\ ChildTypeOK' /\ PeerTypeOK'
      BY <1>1, <2>1, <2>4 DEF CancelledInHandler
    <3>3. DepInv'
      BY <1>1, <2>1, <2>4 DEF CancelledInHandler
    <3>4. StreamInv' /\ WatcherInv' /\ CancelInv' /\ StartInv' /\ EndInv'
      BY <1>1, <2>1, <2>4 DEF CancelledInHandler
    <3> QED
      BY <3>1, <3>2, <3>3, <3>4 DEF IInv, TypeOK
  <2>5. CASE CancelledInSend
    <3>1. MainTypeOK'
      BY <1>1, <2>1, <2>5 DEF CancelledInSend, Leave, Fallback, Exit, BeginReply
    <3>2. SendTypeOK' /\ ChildTypeOK' /\ PeerTypeOK'
      BY <1>1, <2>1, <2>5 DEF CancelledInSend, Leave, Fallback, Exit, BeginReply
    <3>3. DepInv'
      BY <1>1, <2>1, <2>5 DEF CancelledInSend, Leave, Fallback, Exit, BeginReply
    <3>4. StreamInv' /\ WatcherInv' /\ CancelInv' /\ StartInv' /\ EndInv'
      BY <1>1, <2>1, <2>5 DEF CancelledInSend, Leave, Fallback, Exit, BeginReply
    <3> QED
      BY <3>1, <3>2, <3>3, <3>4 DEF IInv, TypeOK
  <2>6. CASE CancelledInAwait
    <3>1. MainTypeOK'
      BY <1>1, <2>1, <2>6 DEF CancelledInAwait
    <3>2. SendTypeOK' /\ ChildTypeOK' /\ PeerTypeOK'
      BY <1>1, <2>1, <2>6 DEF CancelledInAwait
    <3>3. DepInv'
      BY <1>1, <2>1, <2>6 DEF CancelledInAwait
    <3>4. StreamInv' /\ WatcherInv' /\ CancelInv' /\ StartInv' /\ EndInv'
      BY <1>1, <2>1, <2>6 DEF CancelledInAwait
    <3> QED
      BY <3>1, <3>2, <3>3, <3>4 DEF IInv, TypeOK
  <2>7. CASE CancelledInAclose
    <3>1. MainTypeOK'
      BY <1>1, <2>1, <2>7 DEF CancelledInAclose, Leave, Fallback, Exit, BeginReply
    <3>2. SendTypeOK' /\ ChildTypeOK' /\ PeerTypeOK'
      BY <1>1, <2>1, <2>7 DEF CancelledInAclose, Leave, Fallback, Exit, BeginReply
    <3>3. DepInv'
      BY <1>1, <2>1, <2>7 DEF CancelledInAclose, Leave, Fallback, Exit, BeginReply
    <3>4. StreamInv' /\ WatcherInv' /\ CancelInv' /\ StartInv' /\ EndInv'
      BY <1>1, <2>1, <2>7 DEF CancelledInAclose, Leave, Fallback, Exit, BeginReply
    <3> QED
      BY <3>1, <3>2, <3>3, <3>4 DEF IInv, TypeOK
  <2>8. CASE CancelledInCleanup
    <3>1. dep' \in [DepIds -> {"unopened", "open", "closed"}]
      BY <1>1, <2>1, <2>8 DEF CancelledInCleanup
    <3>2. MainTypeOK'
      <4>1. held' \in 0..NDeps
        BY <2>8 DEF CancelledInCleanup
      <4>4. multi' \in BOOLEAN
        BY <2>8 DEF CancelledInCleanup
      <4>2. UNCHANGED <<reply, body, started>>
        BY <2>1, <2>8 DEF CancelledInCleanup, StopWatcher
      <4>3. pc' \in {"cleanup", "joinWatcher"} /\ exc' \in {exc, "cancel"}
        BY <2>8 DEF CancelledInCleanup, StopWatcher
      <4> QED
        BY <1>1, <3>1, <4>1, <4>2, <4>3, <4>4
    <3>3. SendTypeOK' /\ ChildTypeOK' /\ PeerTypeOK'
      BY <1>1, <2>1, <2>8 DEF CancelledInCleanup, StopWatcher
    <3>4. DepInv'
      BY <1>1, <2>1, <2>8 DEF CancelledInCleanup, StopWatcher
    <3>5. StreamInv' /\ WatcherInv' /\ CancelInv' /\ StartInv' /\ EndInv'
      BY <1>1, <2>1, <2>8 DEF CancelledInCleanup, StopWatcher
    <3> QED
      BY <3>2, <3>3, <3>4, <3>5 DEF IInv, TypeOK
  <2> QED
    BY <1>22, <2>2, <2>3, <2>4, <2>5, <2>6, <2>7, <2>8 DEF Cancelled
<1>23. CASE ChildStarts
  <2>1. MainTypeOK'
    BY <1>1, <1>23 DEF ChildStarts
  <2>2. SendTypeOK' /\ ChildTypeOK' /\ PeerTypeOK'
    BY <1>1, <1>23 DEF ChildStarts
  <2>3. DepInv'
    BY <1>1, <1>23 DEF ChildStarts
  <2>4. StreamInv' /\ WatcherInv' /\ CancelInv' /\ StartInv' /\ EndInv'
    BY <1>1, <1>23 DEF ChildStarts
  <2> QED
    BY <2>1, <2>2, <2>3, <2>4 DEF IInv, TypeOK
<1>24. CASE GenYields
  BY <1>1, <1>24 DEF GenYields
<1>25. CASE GenEnds
  BY <1>1, <1>25 DEF GenEnds
<1>26. CASE GenRaises
  BY <1>1, <1>26 DEF GenRaises
<1>27. CASE GenInterrupted
  <2>1. MainTypeOK'
    BY <1>1, <1>27 DEF GenInterrupted
  <2>2. SendTypeOK' /\ PeerTypeOK'
    BY <1>1, <1>27 DEF GenInterrupted
  <2>5. ChildTypeOK'
    BY <1>1, <1>27 DEF GenInterrupted
  <2>3. DepInv'
    BY <1>1, <1>27 DEF GenInterrupted
  <2>4. StreamInv' /\ WatcherInv' /\ CancelInv' /\ StartInv' /\ EndInv'
    BY <1>1, <1>27 DEF GenInterrupted
  <2> QED
    BY <2>1, <2>2, <2>3, <2>4, <2>5 DEF IInv, TypeOK
<1>28. CASE ChunkSent
  BY <1>1, <1>28 DEF ChunkSent
<1>29. CASE ChunkFails
  BY <1>1, <1>29 DEF ChunkFails
<1>30. CASE FinalSent
  BY <1>1, <1>30 DEF FinalSent
<1>31. CASE ChildSendInterrupted
  <2>1. MainTypeOK'
    BY <1>1, <1>31 DEF ChildSendInterrupted
  <2>2. SendTypeOK' /\ ChildTypeOK' /\ PeerTypeOK'
    BY <1>1, <1>31 DEF ChildSendInterrupted
  <2>3. DepInv'
    BY <1>1, <1>31 DEF ChildSendInterrupted
  <2>4. StreamInv' /\ WatcherInv' /\ CancelInv' /\ StartInv' /\ EndInv'
    BY <1>1, <1>31 DEF ChildSendInterrupted
  <2> QED
    BY <2>1, <2>2, <2>3, <2>4 DEF IInv, TypeOK
<1>32. CASE WatcherSees
  BY <1>1, <1>32 DEF WatcherSees, MarkDisconnected
<1>33. CASE WatcherEnds
  BY <1>1, <1>33 DEF WatcherEnds
<1>34. CASE ClientGone
  BY <1>1, <1>34 DEF ClientGone
<1>35. CASE ExternalCancel
  <2>1. MainTypeOK'
    BY <1>1, <1>35 DEF ExternalCancel
  <2>2. SendTypeOK' /\ ChildTypeOK' /\ PeerTypeOK'
    BY <1>1, <1>35 DEF ExternalCancel
  <2>3. DepInv'
    BY <1>1, <1>35 DEF ExternalCancel
  <2>4. StreamInv' /\ WatcherInv' /\ CancelInv' /\ StartInv' /\ EndInv'
    BY <1>1, <1>35 DEF ExternalCancel
  <2> QED
    BY <2>1, <2>2, <2>3, <2>4 DEF IInv, TypeOK
<1>36. CASE UNCHANGED vars
  BY <1>1, <1>36 DEF vars
<1> HIDE DEF IInv, TypeOK
<1> QED
  BY <1>1, <1>2, <1>3, <1>4, <1>5, <1>6, <1>7, <1>8, <1>9, <1>10, <1>11, <1>12, <1>13, <1>14, <1>15, <1>16, <1>17, <1>18, <1>19, <1>20, <1>21, <1>22, <1>23, <1>24, <1>25, <1>26, <1>27, <1>28, <1>29, <1>30, <1>31, <1>32, <1>33, <1>34, <1>35, <1>36
     DEF Next, MainProgress, MainOther, ChildProgress, Finished

-----------------------------------------------------------------------------
\* The inductive invariant holds in every reachable state.
THEOREM Invariance == Spec => []IInv
BY InitInv, NextInv, PTL DEF Spec

\* Type correctness.
THEOREM TypeCorrect == Spec => []TypeOK
<1>1. IInv => TypeOK
  BY DEF IInv
<1> QED
  BY <1>1, Invariance, PTL

\* No task and no open generator outlives the request, on any path through the
\* except and finally clauses of app and _send_stream.
THEOREM NothingOutlives == Spec => []NothingOutlivesRequest
<1>1. IInv => NothingOutlivesRequest
  BY DEF IInv, StreamInv, WatcherInv, NothingOutlivesRequest
<1> QED
  BY <1>1, Invariance, PTL

\* Without an outside cancellation every dependency is torn down, however many
\* the route has and wherever the request failed.
THEOREM TornDown == Spec => []DependenciesTornDown
<1>1. IInv => DependenciesTornDown
  BY NDepsAssumption DEF IInv, TypeOK, MainTypeOK, DepInv, CancelInv, DepIds,
     DependenciesTornDown
<1> QED
  BY <1>1, Invariance, PTL

\* Dependencies are torn down in the reverse of the order of their resolution.
THEOREM Lifo == Spec => []LifoTeardown
<1>1. IInv => LifoTeardown
  BY DEF IInv, DepInv
<1> QED
  BY <1>1, Invariance, PTL

\* A second response start only follows a failed exception handler reply.
THEOREM SecondStart == Spec => []SecondStartOnlyAfterHandlerReply
<1>1. IInv => SecondStartOnlyAfterHandlerReply
  BY DEF IInv, StartInv
<1> QED
  BY <1>1, Invariance, PTL

\* A request task that ends cancelled was cancelled by the server.
THEOREM GenuineCancellation == Spec => []CancellationIsGenuine
<1>1. IInv => CancellationIsGenuine
  BY DEF IInv, CancelInv, CancellationIsGenuine
<1> QED
  BY <1>1, Invariance, PTL

\* A dependency is only closed by the two cleanup steps.
LEMMA ClosingStep ==
    ASSUME [Next]_vars, NEW d \in DepIds, dep[d] = "open", dep'[d] = "closed"
    PROVE  pc = "cleanup"
<1> SUFFICES ASSUME pc # "cleanup" PROVE dep'[d] # "closed"
  OBVIOUS
<1>1. CASE ResolveDep
  BY <1>1 DEF ResolveDep
<1>2. CASE ~ResolveDep
  <2>1. dep' = dep
    BY <1>2 DEF Next, MainProgress, MainOther, ChildProgress, Finished, vars,
       mainVars, peerVars, childVars, StartSent, BodySent, SendRaises, ChildAwaited,
       Aclose, CleanupDep, CleanupEnds, WatcherJoined, Cancelled, Runs,
       CancelledOutside, CancelledInResolve, CancelledInHandler, CancelledInSend,
       CancelledInAwait, CancelledInAclose, CancelledInCleanup, MoreBody,
       BodyTooLarge, BodyRead, BodyFails, ResolveFails, CallHandler,
       HandlerReturns, ReturnsStream, HandlerRaises, ExcHandlerReturns,
       ExcHandlerRaises, ChildStarts, GenInterrupted, ChunkSent, ChunkFails,
       FinalSent, ChildSendInterrupted, GenYields, GenEnds, GenRaises,
       WatcherSees, WatcherEnds, ClientGone, ExternalCancel
  <2> QED
    BY <2>1
<1> QED
  BY <1>1, <1>2

\* A resource provided by a dependency outlives the stream that may use it.
THEOREM ResourceOutlives == Spec => ResourceOutlivesStream
<1>1. IInv /\ [Next]_vars =>
        [\A d \in DepIds : (dep[d] = "open" /\ dep'[d] = "closed")
            => gen # "open" /\ child \notin ChildAlive]_vars
  <2> SUFFICES ASSUME IInv, [Next]_vars, NEW d \in DepIds,
                      dep[d] = "open", dep'[d] = "closed"
               PROVE  gen # "open" /\ child \notin ChildAlive
    OBVIOUS
  <2>1. pc = "cleanup"
    BY ClosingStep, Zenon
  <2> QED
    BY <2>1 DEF IInv, StreamInv
<1> QED
  BY <1>1, Invariance, PTL DEF Spec, ResourceOutlivesStream
-----------------------------------------------------------------------------
(* What the client hears.                                                  *)

\* Nothing has gone wrong that the request cannot answer: the client is there, the
\* server has not cancelled, and no generator has failed after the start.
Fine == client = "connected" /\ ~extCancel /\ child # "error"

\* How far the answer has come at each point of the request.
AnsweredInv ==
    /\ pc \notin {"cleanup", "joinWatcher", "done"} => exc = "none"
    /\ child \in {"final", "ok"} => ends = 1
    /\ pc = "awaitChild" => child \in ChildAlive \cup {"ok"}
    /\ pc = "aclose" => child = "ok"
    /\ pc = "sendingBody" => ends = 1
    /\ pc \in {"cleanup", "joinWatcher"} /\ started => ends = 1
    /\ pc \in {"cleanup", "joinWatcher"} /\ exc = "none" => started
    /\ pc = "done" /\ exc = "none" => started /\ ends = 1

AnswerInv ==
    /\ disconnected => client = "gone"
    /\ Fine => AnsweredInv

\* While all is fine nobody has been cancelled and no second response begins.
QuietInv ==
    /\ client = "connected" /\ ~extCancel /\ child # "error"
    /\ ~mustCancel /\ ~childCancel /\ ~disconnected
    /\ exc # "cancel" /\ child # "cancelled"
    /\ started = (starts = 1) /\ starts \in {0, 1} /\ ends \in {0, 1} /\ ends <= starts
    /\ child \in {"none", "ok"} \cup ChildAlive /\ started \in BOOLEAN

LEMMA FineIsQuiet == IInv /\ AnswerInv /\ Fine => QuietInv
<1> SUFFICES ASSUME IInv, AnswerInv, Fine PROVE QuietInv
  OBVIOUS
<1>1. /\ ~mustCancel /\ exc # "cancel" /\ ~disconnected
      /\ ~childCancel /\ child # "cancelled"
  BY DEF IInv, CancelInv, AnswerInv, Fine, TypeOK, PeerTypeOK, ChildTypeOK
<1>2. starts \in 0..2 /\ ends \in 0..2 /\ ends <= starts /\ starts # 2
  BY DEF IInv, TypeOK, SendTypeOK, EndInv, StartInv, SecondStartOnlyAfterHandlerReply, Fine
<1>3. started \in BOOLEAN /\ (started <=> starts > 0)
  BY DEF IInv, TypeOK, MainTypeOK, StartInv
<1>4. starts \in {0, 1} /\ ends \in {0, 1}
  BY <1>2
<1>5. started = (starts = 1)
  <2>1. started <=> starts = 1
    BY <1>3, <1>4
  <2> QED
    BY <1>3, <2>1, Zenon
<1>6. child \in {"none", "ok"} \cup ChildAlive
  BY <1>1 DEF IInv, TypeOK, ChildTypeOK, ChildOver, Fine
<1> QED
  BY <1>1, <1>2, <1>3, <1>4, <1>5, <1>6 DEF QuietInv, Fine

\* What has gone wrong stays wrong.
LEMMA FineBefore == ASSUME IInv, [Next]_vars, Fine' PROVE Fine
<1> USE DEF Fine, mainVars, childVars, peerVars
<1>1. client = "connected"
  <2>1. CASE ClientGone
    BY <2>1 DEF ClientGone
  <2>2. CASE ~ClientGone
    <3>1. client' = client
      BY <2>2 DEF Next, MainProgress, MainOther, ChildProgress, Finished, vars,
         StartSent, BodySent, SendRaises, ChildAwaited, Aclose, CleanupDep,
         CleanupEnds, WatcherJoined, Cancelled, MoreBody, BodyTooLarge, BodyRead,
         BodyFails, ResolveDep, ResolveFails, CallHandler, HandlerReturns,
         ReturnsStream, HandlerRaises, ExcHandlerReturns, ExcHandlerRaises,
         ChildStarts, GenInterrupted, ChunkSent, ChunkFails, FinalSent,
         ChildSendInterrupted, GenYields, GenEnds, GenRaises, WatcherSees,
         WatcherEnds, ExternalCancel
    <3> QED
      BY <3>1
  <2> QED
    BY <2>1, <2>2
<1>2. ~extCancel
  <2>1. CASE ExternalCancel
    BY <2>1 DEF ExternalCancel
  <2>2. CASE ~ExternalCancel
    <3>1. extCancel' = extCancel
      BY <2>2 DEF Next, MainProgress, MainOther, ChildProgress, Finished, vars,
         StartSent, BodySent, SendRaises, ChildAwaited, Aclose, CleanupDep,
         CleanupEnds, WatcherJoined, Cancelled, MoreBody, BodyTooLarge, BodyRead,
         BodyFails, ResolveDep, ResolveFails, CallHandler, HandlerReturns,
         ReturnsStream, HandlerRaises, ExcHandlerReturns, ExcHandlerRaises,
         ChildStarts, GenInterrupted, ChunkSent, ChunkFails, FinalSent,
         ChildSendInterrupted, GenYields, GenEnds, GenRaises, WatcherSees,
         WatcherEnds, ClientGone
    <3> QED
      BY <3>1
  <2> QED
    BY <2>1, <2>2
<1>3. child # "error"
  <2> SUFFICES ASSUME child = "error" PROVE FALSE
    OBVIOUS
  <2>1. CASE StartSent
    BY <2>1 DEF StartSent, Runs, IInv, StreamInv
  <2>2. CASE ~StartSent
    <3>1. child' = child
      BY <2>2 DEF Next, MainProgress, MainOther, ChildProgress, Finished, vars,
         BodySent, SendRaises, ChildAwaited, Aclose, CleanupDep,
         CleanupEnds, WatcherJoined, Cancelled, MoreBody, BodyTooLarge, BodyRead,
         BodyFails, ResolveDep, ResolveFails, CallHandler, HandlerReturns,
         ReturnsStream, HandlerRaises, ExcHandlerReturns, ExcHandlerRaises,
         ChildStarts, GenInterrupted, ChunkSent, ChunkFails, FinalSent,
         ChildSendInterrupted, GenYields, GenEnds, GenRaises, WatcherSees,
         WatcherEnds, ClientGone, ExternalCancel
    <3> QED
      BY <3>1
  <2> QED
    BY <2>1, <2>2
<1> QED
  BY <1>1, <1>2, <1>3

\* Only the watcher marks a request, and it has seen that the client is gone.
LEMMA MarkedIsGone ==
    ASSUME IInv, AnswerInv, [Next]_vars, disconnected' PROVE client' = "gone"
<1> USE DEF mainVars, childVars, peerVars
<1>1. CASE WatcherSees
  BY <1>1 DEF WatcherSees
<1>2. CASE ~WatcherSees
  <2>1. disconnected' = disconnected /\ (client' = client \/ client' = "gone")
    BY <1>2 DEF Next, MainProgress, MainOther, ChildProgress, Finished, vars,
       StartSent, BodySent, SendRaises, ChildAwaited, Aclose, CleanupDep,
       CleanupEnds, WatcherJoined, Cancelled, MoreBody, BodyTooLarge, BodyRead,
       BodyFails, ResolveDep, ResolveFails, CallHandler, HandlerReturns,
       ReturnsStream, HandlerRaises, ExcHandlerReturns, ExcHandlerRaises,
       ChildStarts, GenInterrupted, ChunkSent, ChunkFails, FinalSent,
       ChildSendInterrupted, GenYields, GenEnds, GenRaises, WatcherEnds,
       ClientGone, ExternalCancel
  <2> QED
    BY <2>1 DEF AnswerInv
<1> QED
  BY <1>1, <1>2

\* Every step that leaves all fine brings the answer on, or leaves it.
LEMMA AnswerStep ==
    ASSUME IInv, QuietInv, AnsweredInv, [Next]_vars, Fine'
    PROVE  AnsweredInv'
<1>0. /\ child \in ChildAlive => pc = "awaitChild"
      /\ gen = "open" /\ pc = "sendingStart" => child = "none"
      /\ pc \in {"body", "resolve", "handler", "excHandler"} => ~started
      /\ pc \in Sending => started
      /\ pc = "sendingStart" \/ child \in ChildAlive \ {"final"} => ends < starts
  BY DEF IInv, StreamInv, StartInv, EndInv, WatcherInv
<1> USE <1>0 DEF QuietInv, AnsweredInv, Fine, ChildAlive, Sending, mainVars, childVars, peerVars
<1>1. CASE MoreBody
  BY <1>1 DEF MoreBody, Runs
<1>2. CASE BodyTooLarge
  BY <1>2 DEF BodyTooLarge, Runs, BeginReply
<1>3. CASE BodyRead
  BY <1>3 DEF BodyRead, Runs
<1>4. CASE BodyFails
  BY <1>4 DEF BodyFails, Runs, Fallback, Exit, BeginReply
<1>5. CASE ResolveDep
  BY <1>5 DEF ResolveDep, Runs
<1>6. CASE ResolveFails
  BY <1>6 DEF ResolveFails, Runs
<1>7. CASE CallHandler
  BY <1>7 DEF CallHandler, Runs
<1>8. CASE HandlerReturns
  BY <1>8 DEF HandlerReturns, Runs, BeginReply
<1>9. CASE ReturnsStream
  BY <1>9 DEF ReturnsStream, Runs, BeginReply
<1>10. CASE HandlerRaises
  BY <1>10 DEF HandlerRaises, Runs
<1>11. CASE StartSent
  BY <1>11 DEF StartSent, Runs
<1>12. CASE BodySent
  BY <1>12 DEF BodySent, Runs, Leave, Fallback, Exit, BeginReply
<1>13. CASE ChildAwaited
  BY <1>13 DEF ChildAwaited, Runs, ChildOver
<1>14. CASE Aclose
  BY <1>14 DEF Aclose, Runs, Leave, Fallback, Exit, BeginReply
<1>15. CASE CleanupDep
  BY <1>15 DEF CleanupDep, Runs
<1>16. CASE CleanupEnds
  BY <1>16 DEF CleanupEnds, Runs, StopWatcher
<1>17. CASE WatcherJoined
  BY <1>17 DEF WatcherJoined, Dispatch, Fallback, Exit, BeginReply
<1>18. CASE ExcHandlerReturns
  BY <1>18 DEF ExcHandlerReturns, Runs, BeginReply
<1>19. CASE ExcHandlerRaises
  BY <1>19 DEF ExcHandlerRaises, Runs, Fallback, Exit, BeginReply
<1>20. CASE ChildStarts
  BY <1>20 DEF ChildStarts
<1>21. CASE GenYields
  BY <1>21 DEF GenYields
<1>22. CASE GenEnds
  BY <1>22 DEF GenEnds
<1>23. CASE GenRaises
  BY <1>23 DEF GenRaises
<1>24. CASE ChunkSent
  BY <1>24 DEF ChunkSent
<1>25. CASE FinalSent
  BY <1>25 DEF FinalSent
<1>26. CASE WatcherEnds
  BY <1>26 DEF WatcherEnds
<1>27. CASE ExternalCancel
  BY <1>27 DEF ExternalCancel
<1>28. CASE SendRaises \/ Cancelled \/ GenInterrupted \/ ChunkFails
             \/ ChildSendInterrupted \/ WatcherSees \/ ClientGone
  BY <1>28 DEF SendRaises, Cancelled, GenInterrupted, ChunkFails, ChildSendInterrupted,
     WatcherSees, ClientGone
<1>29. CASE UNCHANGED vars
  BY <1>29 DEF vars
<1> QED
  BY <1>1, <1>2, <1>3, <1>4, <1>5, <1>6, <1>7, <1>8, <1>9, <1>10, <1>11, <1>12, <1>13, <1>14, <1>15, <1>16, <1>17, <1>18, <1>19, <1>20, <1>21, <1>22, <1>23, <1>24, <1>25, <1>26, <1>27, <1>28, <1>29
     DEF Next, MainProgress, MainOther, ChildProgress, Finished

LEMMA AnswerInitially == Init => AnswerInv
BY DEF Init, AnswerInv, AnsweredInv

\* A request that returns normally to a connected client has sent one response, whole:
\* on every path through the handlers, the except clauses and the stream.
THEOREM Answered == Spec => []RequestIsAnswered
<1>1. IInv /\ AnswerInv /\ [Next]_vars => AnswerInv'
  <2> SUFFICES ASSUME IInv, AnswerInv, [Next]_vars PROVE AnswerInv'
    OBVIOUS
  <2>1. (disconnected => client = "gone")'
    BY MarkedIsGone
  <2>2. ASSUME Fine' PROVE AnsweredInv'
    <3>1. Fine
      BY <2>2, FineBefore
    <3>2. QuietInv
      BY <3>1, FineIsQuiet
    <3>3. AnsweredInv
      BY <3>1 DEF AnswerInv
    <3> QED
      BY <2>2, <3>2, <3>3, AnswerStep
  <2> QED
    BY <2>1, <2>2 DEF AnswerInv
<1>2. IInv /\ AnswerInv => RequestIsAnswered
  <2> SUFFICES ASSUME IInv, AnswerInv, pc = "done", exc = "none", Fine
               PROVE  starts = 1 /\ ends = 1
    BY DEF RequestIsAnswered, Fine
  <2>1. QuietInv /\ AnsweredInv
    BY FineIsQuiet DEF AnswerInv
  <2> QED
    BY <2>1 DEF QuietInv, AnsweredInv
<1> QED
  BY <1>1, <1>2, AnswerInitially, Invariance, PTL DEF Spec

-----------------------------------------------------------------------------
(* How far a request that has begun to answer is from its end.             *)

Plain == {"large", "httpError", "fallback"}

\* A bound on the steps that are left to the child, the rounds of a generator that
\* nobody cancels left aside, and to the request task.
ChildLeft ==
    CASE child = "created"                -> 3
      [] child \in {"pulling", "sending"} -> 2
      [] child = "final"                  -> 1
      [] OTHER                            -> 0

StepsLeft ==
    CASE pc = "sendingStart" -> IF reply \in Plain THEN 2 ELSE held + 8
      [] pc = "awaitChild"   -> held + 4 + ChildLeft
      [] pc = "sendingBody"  -> IF reply \in Plain THEN 1 ELSE held + 3
      [] pc = "aclose"       -> held + 3
      [] pc = "cleanup"      -> held + 2
      [] pc = "joinWatcher"  -> 1
      [] OTHER               -> 0

Nearer == StepsLeft' < StepsLeft

LEMMA StepsAreCounted ==
    ASSUME IInv, started
    PROVE  StepsLeft \in 0 .. NDeps + 8 /\ (pc # "done" => StepsLeft # 0)
<1>1. held \in 0 .. NDeps /\ NDeps \in Nat /\ ChildLeft \in 0 .. 3
    BY NDepsAssumption DEF IInv, TypeOK, MainTypeOK, ChildLeft
<1>2. pc \in {"sendingStart", "awaitChild", "sendingBody", "aclose", "cleanup", "joinWatcher", "done"}
    BY DEF IInv, TypeOK, MainTypeOK, StartInv
<1>3. QED BY <1>1, <1>2 DEF StepsLeft

\* A response that ends lets the request end, or gives way to the opaque 500.
LEMMA LeaveNears ==
    ASSUME IInv, NEW e, Leave(e), held' = held, started,
           \/ pc = "sendingStart" \/ pc = "sendingBody" \/ pc = "aclose"
    PROVE  Nearer
<1>1. held \in Nat /\ reply \in {"none", "large", "result", "invalid", "excResult", "httpError", "fallback"}
    BY NDepsAssumption DEF IInv, TypeOK, MainTypeOK
<1>2. CASE reply \in {"result", "invalid"} /\ pc' = "cleanup"
    BY <1>1, <1>2 DEF StepsLeft, Plain, Nearer
<1>3. CASE reply = "excResult" /\ Fallback
    <2>1. pc' = "done" \/ (pc' = "sendingStart" /\ reply' = "fallback")
        BY <1>3 DEF Fallback, Exit, BeginReply
    <2>2. StepsLeft' <= 2 /\ StepsLeft' \in Nat
        BY <2>1 DEF StepsLeft, Plain
    <2>3. StepsLeft \in Nat /\ StepsLeft >= 3
        BY <1>1, <1>3 DEF StepsLeft, Plain
    <2>4. QED BY <2>2, <2>3 DEF Nearer
<1>4. CASE pc' = "done"
    <2>1. StepsLeft' = 0
        BY <1>4 DEF StepsLeft
    <2>2. StepsLeft \in Nat /\ StepsLeft # 0
        BY StepsAreCounted, <1>1 DEF StepsLeft, Plain
    <2>3. QED BY <2>1, <2>2 DEF Nearer
<1>5. \/ reply \in {"result", "invalid"} /\ pc' = "cleanup"
      \/ reply = "excResult" /\ Fallback
      \/ pc' = "done"
    BY Zenon DEF Leave, Exit
<1>6. QED BY <1>2, <1>3, <1>4, <1>5

\* Every step of the request task leads it on.
LEMMA MainNears == ASSUME IInv, MainProgress, started PROVE Nearer
<1>1. held \in Nat /\ started \in BOOLEAN /\ reply \in {"none", "large", "result", "invalid", "excResult", "httpError", "fallback"}
    BY NDepsAssumption DEF IInv, TypeOK, MainTypeOK
<1>2. child \in ChildOver => ChildLeft = 0
    BY DEF ChildOver, ChildLeft
<1>3. gen = "open" => reply \notin Plain
    BY DEF IInv, StreamInv, Plain
<1> USE DEF Runs
<1>4. CASE StartSent
    <2>1. CASE gen = "open"
        <3>1. pc = "sendingStart" /\ pc' = "awaitChild" /\ child' = "created" /\ held' = held
            BY <1>4, <2>1 DEF StartSent
        <3>2. ChildLeft' = 3
            BY <3>1 DEF ChildLeft
        <3>3. StepsLeft = held + 8 /\ StepsLeft' = held + 7
            BY <1>1, <1>3, <2>1, <3>1, <3>2 DEF StepsLeft
        <3>4. QED BY <1>1, <3>3 DEF Nearer
    <2>2. CASE gen # "open"
        <3>1. pc = "sendingStart" /\ pc' = "sendingBody" /\ reply' = reply /\ held' = held
            BY <1>4, <2>2 DEF StartSent
        <3>2. QED BY <1>1, <3>1 DEF StepsLeft, Nearer
    <2>3. QED BY <2>1, <2>2
<1>5. CASE BodySent
    BY <1>5, LeaveNears DEF BodySent
<1>6. CASE SendRaises
    <2>1. CASE gen = "open"
        <3>1. pc = "sendingStart" /\ pc' = "aclose" /\ held' = held
            BY <1>6, <2>1 DEF SendRaises, IInv, StreamInv
        <3>2. QED BY <1>1, <1>3, <2>1, <3>1 DEF StepsLeft, Nearer
    <2>2. CASE gen # "open"
        <3>1. Leave("error") /\ held' = held /\ (pc = "sendingStart" \/ pc = "sendingBody")
            BY <1>6, <2>2, Zenon DEF SendRaises
        <3>2. QED BY <3>1, LeaveNears
    <2>3. QED BY <2>1, <2>2
<1>7. CASE ChildAwaited
    <2>1. pc = "awaitChild" /\ pc' = "aclose" /\ held' = held /\ ChildLeft = 0
        BY <1>2, <1>7 DEF ChildAwaited
    <2>2. QED BY <1>1, <2>1 DEF StepsLeft, Nearer
<1>8. CASE Aclose
    BY <1>8, LeaveNears DEF Aclose
<1>9. CASE CleanupDep
    <2>1. pc = "cleanup" /\ pc' = "cleanup" /\ held' = held - 1 /\ held > 0
        BY <1>9 DEF CleanupDep
    <2>2. QED BY <1>1, <2>1 DEF StepsLeft, Nearer
<1>10. CASE CleanupEnds
    <2>1. pc = "cleanup" /\ pc' = "joinWatcher"
        BY <1>10 DEF CleanupEnds
    <2>2. QED BY <1>1, <2>1 DEF StepsLeft, Nearer
<1>11. CASE WatcherJoined
    <2>1. pc = "joinWatcher" /\ Dispatch(exc) /\ exc \in {"none", "http", "error", "cancel"}
        BY <1>11 DEF WatcherJoined, IInv, TypeOK, MainTypeOK
    <2>2. pc' = "done"
        BY <2>1, Zenon DEF Dispatch, Exit
    <2>3. QED BY <1>1, <2>1, <2>2 DEF StepsLeft, Nearer
<1>12. CASE Cancelled
    <2>1. pc \notin {"body", "resolve", "handler", "excHandler"}
        BY DEF IInv, StartInv
    <2>2. CASE CancelledInSend
        <3>1. CASE gen = "open"
            <4>1. pc = "sendingStart" /\ pc' = "aclose" /\ held' = held
                BY <2>2, <3>1 DEF CancelledInSend, IInv, StreamInv
            <4>2. QED BY <1>1, <1>3, <3>1, <4>1 DEF StepsLeft, Nearer
        <3>2. CASE gen # "open"
            <4>1. Leave("cancel") /\ held' = held /\ (pc = "sendingStart" \/ pc = "sendingBody")
                BY <2>2, <3>2, Zenon DEF CancelledInSend
            <4>2. QED BY <4>1, LeaveNears
        <3>3. QED BY <3>1, <3>2
    <2>3. CASE CancelledInAwait
        <3>1. pc = "awaitChild" /\ pc' = "aclose" /\ held' = held /\ ChildLeft = 0
            BY <1>2, <2>3 DEF CancelledInAwait
        <3>2. QED BY <1>1, <3>1 DEF StepsLeft, Nearer
    <2>4. CASE CancelledInAclose
        BY <2>4, LeaveNears DEF CancelledInAclose
    <2>5. CASE CancelledInCleanup
        <3>1. pc = "cleanup" /\ pc' = "joinWatcher"
            BY <2>5 DEF CancelledInCleanup
        <3>2. QED BY <1>1, <3>1 DEF StepsLeft, Nearer
    <2>6. QED BY <1>12, <2>1, <2>2, <2>3, <2>4, <2>5
              DEF Cancelled, CancelledOutside, CancelledInResolve, CancelledInHandler
<1>13. QED BY <1>4, <1>5, <1>6, <1>7, <1>8, <1>9, <1>10, <1>11, <1>12 DEF MainProgress

\* The child leads it on, too, but for a round of its generator.
LEMMA ChildNears ==
    ASSUME IInv, ChildProgress \/ GenYields \/ GenEnds \/ GenRaises
    PROVE  Nearer \/ ((GenYields \/ ChunkSent) /\ StepsLeft' = StepsLeft)
<1>1. held \in Nat /\ held' = held /\ pc = "awaitChild" /\ pc' = pc
    BY NDepsAssumption DEF IInv, TypeOK, MainTypeOK, StreamInv, ChildAlive, ChildProgress, ChildStarts,
       GenYields, GenEnds, GenRaises, GenInterrupted, ChunkSent, ChunkFails, FinalSent,
       ChildSendInterrupted, mainVars
<1>2. ChildLeft \in Nat /\ (ChildLeft)' \in Nat
    BY DEF ChildLeft
<1>3. CASE GenYields \/ ChunkSent
    <2>1. ChildLeft' = ChildLeft
        BY <1>3 DEF GenYields, ChunkSent, ChildLeft
    <2>2. QED BY <1>1, <1>3, <2>1 DEF StepsLeft
<1>4. CASE ~GenYields /\ ~ChunkSent
    <2>1. ChildLeft' < ChildLeft
        BY <1>4 DEF ChildProgress, ChildStarts, GenEnds, GenRaises, GenInterrupted, ChunkFails, FinalSent,
           ChildSendInterrupted, ChildLeft
    <2>2. StepsLeft = held + 4 + ChildLeft /\ StepsLeft' = held + 4 + ChildLeft'
        BY <1>1 DEF StepsLeft
    <2>3. \A h, n, m \in Nat : n < m => h + 4 + n < h + 4 + m
        OBVIOUS
    <2>4. QED BY <1>1, <1>2, <2>1, <2>2, <2>3 DEF Nearer
<1>5. QED BY <1>3, <1>4

\* What the try and finally clauses of the route branch are for: once its response has
\* started, a request is over after at most NDeps + 8 steps of its own and its child's,
\* whatever is sent, raised or cancelled meanwhile, and nothing that the watcher, the
\* client or the server does adds to them.  Only the rounds of a generator that nobody
\* has cancelled are not counted.
UnwindsInBoundedSteps ==
    [][started =>
        /\ StepsLeft \in 0 .. NDeps + 8 /\ (pc # "done" => StepsLeft # 0)
        /\ \/ StepsLeft' < StepsLeft
           \/ /\ StepsLeft' = StepsLeft
              /\ \/ (GenYields \/ ChunkSent) /\ ~childCancel
                 \/ WatcherSees \/ WatcherEnds \/ ClientGone \/ ExternalCancel]_vars

THEOREM Bounded == Spec => UnwindsInBoundedSteps
<1> DEFINE Step ==
        started =>
        /\ StepsLeft \in 0 .. NDeps + 8 /\ (pc # "done" => StepsLeft # 0)
        /\ \/ StepsLeft' < StepsLeft
           \/ /\ StepsLeft' = StepsLeft
              /\ \/ (GenYields \/ ChunkSent) /\ ~childCancel
                 \/ WatcherSees \/ WatcherEnds \/ ClientGone \/ ExternalCancel
<1>1. IInv /\ [Next]_vars => [Step]_vars
    <2> SUFFICES ASSUME IInv, Next, started, ~UNCHANGED vars PROVE Step
        OBVIOUS
    <2>1. CASE MainProgress
        BY <2>1, MainNears, StepsAreCounted DEF Nearer
    <2>2. CASE ChildProgress \/ GenYields \/ GenEnds \/ GenRaises
        <3>1. GenYields \/ ChunkSent => ~childCancel
            BY DEF GenYields, ChunkSent
        <3>2. QED BY <2>2, <3>1, ChildNears, StepsAreCounted DEF Nearer
    <2>3. CASE WatcherSees \/ WatcherEnds \/ ClientGone \/ ExternalCancel
        <3>1. UNCHANGED <<pc, reply, held, child>>
            BY <2>3 DEF WatcherSees, WatcherEnds, ClientGone, ExternalCancel, mainVars, childVars
        <3>2. ChildLeft' = ChildLeft
            BY <3>1 DEF ChildLeft
        <3>3. StepsLeft' = StepsLeft
            BY <3>1, <3>2 DEF StepsLeft
        <3>4. QED BY <2>3, <3>3, StepsAreCounted
    <2>4. CASE MainOther
        <3>1. pc \in {"body", "resolve", "handler", "excHandler"}
            BY <2>4 DEF MainOther, Runs, MoreBody, BodyTooLarge, BodyRead, BodyFails, ResolveDep, ResolveFails,
               CallHandler, HandlerReturns, ReturnsStream, HandlerRaises, ExcHandlerReturns, ExcHandlerRaises
        <3>2. QED BY <3>1 DEF IInv, StartInv
    <2>5. QED BY <2>1, <2>2, <2>3, <2>4 DEF Next, Finished
<1>2. QED BY <1>1, Invariance, PTL DEF Spec, UnwindsInBoundedSteps

-----------------------------------------------------------------------------
(* What the request waits for at its end.                                  *)

\* The watcher is there from the end of the body on, and it is asked to end before it
\* is waited for.
JoinInv ==
    /\ pc = "joinWatcher" => watcher \in {"cancelling", "done"}
    /\ pc \in {"resolve", "handler", "cleanup"} \/ reply \in {"result", "invalid"}
          => watcher # "none"

LEMMA WatcherStays ==
    ASSUME [Next]_vars, ~BodyRead, ~CleanupEnds, ~CancelledInResolve, ~CancelledInCleanup,
           watcher # "none"
    PROVE  watcher' # "none" /\ (watcher \in {"cancelling", "done"} => watcher' \in {"cancelling", "done"})
<1>1. CASE watcher' = watcher
    BY <1>1
<1>2. CASE WatcherSees \/ WatcherEnds
    BY <1>2 DEF WatcherSees, WatcherEnds
<1>3. CASE ~WatcherSees /\ ~WatcherEnds /\ watcher' # watcher
    BY <1>3 DEF Next, MainProgress, MainOther, ChildProgress, Finished, vars, peerVars,
       StartSent, BodySent, SendRaises, ChildAwaited, Aclose, CleanupDep, WatcherJoined, Cancelled,
       CancelledOutside, CancelledInHandler, CancelledInSend, CancelledInAwait, CancelledInAclose,
       MoreBody, BodyTooLarge, BodyFails, ResolveDep, ResolveFails, CallHandler, HandlerReturns,
       ReturnsStream, HandlerRaises, ExcHandlerReturns, ExcHandlerRaises, ChildStarts, GenYields,
       GenEnds, GenRaises, GenInterrupted, ChunkSent, ChunkFails, FinalSent, ChildSendInterrupted,
       ClientGone, ExternalCancel
<1>4. QED BY <1>1, <1>2, <1>3

\* Where there is no watcher yet, nothing gets past the end of the body but a reply of
\* the outer branch.
LEMMA NoWatcherYet ==
    ASSUME IInv, [Next]_vars, JoinInv, ~BodyRead, watcher = "none"
    PROVE  /\ pc' \notin {"resolve", "handler", "cleanup", "joinWatcher"}
           /\ reply' \notin {"result", "invalid"}
<1>1. /\ pc \notin {"resolve", "handler", "cleanup", "joinWatcher"}
      /\ reply \notin {"result", "invalid"}
    BY DEF JoinInv
<1> USE DEF Runs
<1>2. ASSUME NEW e, Leave(e) PROVE /\ pc' \in {"done", "sendingStart"}
                                   /\ reply' \notin {"result", "invalid"}
    BY <1>1, <1>2 DEF Leave, Exit, Fallback, BeginReply
<1>3. CASE pc' = pc /\ reply' = reply
    BY <1>1, <1>3
<1>4. CASE MainProgress
    <2>1. CASE \/ BodySent \/ Aclose \/ CancelledInAclose
               \/ (SendRaises \/ CancelledInSend) /\ gen # "open"
        <3>1. \E e : Leave(e)
            BY <2>1, Zenon DEF BodySent, Aclose, SendRaises, CancelledInSend, CancelledInAclose
        <3>2. QED BY <1>2, <3>1
    <2>2. CASE /\ ~BodySent /\ ~Aclose /\ ~CancelledInAclose
               /\ ~((SendRaises \/ CancelledInSend) /\ gen # "open")
        <3>1. pc' \in {"awaitChild", "aclose", "sendingBody", "done"} /\ reply' = reply
            BY <1>1, <1>4, <2>2
               DEF MainProgress, StartSent, SendRaises, ChildAwaited, CleanupDep, CleanupEnds,
                   WatcherJoined, Cancelled, CancelledOutside, CancelledInResolve, CancelledInHandler,
                   CancelledInSend, CancelledInAwait, CancelledInCleanup, Exit
        <3>2. QED BY <1>1, <3>1
    <2>3. QED BY <2>1, <2>2, Zenon
<1>5. CASE MainOther
    BY <1>1, <1>5 DEF MainOther, MoreBody, BodyTooLarge, BodyFails, ResolveDep, ResolveFails,
       CallHandler, HandlerReturns, ReturnsStream, HandlerRaises, ExcHandlerReturns, ExcHandlerRaises,
       BeginReply, Fallback, Exit
<1>6. CASE ~MainProgress /\ ~MainOther
    <2>1. pc' = pc /\ reply' = reply
        BY <1>6 DEF Next, Finished, vars, mainVars, ChildProgress, ChildStarts, GenYields, GenEnds,
           GenRaises, GenInterrupted, ChunkSent, ChunkFails, FinalSent, ChildSendInterrupted,
           WatcherSees, WatcherEnds, ClientGone, ExternalCancel
    <2>2. QED BY <1>3, <2>1
<1>7. QED BY <1>4, <1>5, <1>6

LEMMA JoinKeep == ASSUME IInv, [Next]_vars, JoinInv PROVE JoinInv'
<1>1. watcher \in {"none", "waiting", "cancelling", "done"}
    BY DEF IInv, TypeOK, PeerTypeOK
<1>2. CASE BodyRead
    BY <1>2 DEF BodyRead, JoinInv
<1>3. CASE CleanupEnds \/ CancelledInResolve \/ CancelledInCleanup
    <2>1. pc \in {"resolve", "cleanup"} /\ StopWatcher
        BY <1>3 DEF CleanupEnds, CancelledInResolve, CancelledInCleanup, Runs
    <2>2. watcher # "none"
        BY <2>1 DEF JoinInv
    <2>3. watcher' \in {"cancelling", "done"}
        BY <1>1, <2>1, <2>2 DEF StopWatcher
    <2>4. QED BY <2>3 DEF JoinInv
<1>4. CASE /\ watcher = "none" /\ ~BodyRead
    BY <1>4, NoWatcherYet DEF JoinInv
<1>5. CASE /\ watcher # "none"
           /\ ~BodyRead /\ ~CleanupEnds /\ ~CancelledInResolve /\ ~CancelledInCleanup
    <2>1. watcher' # "none" /\ (watcher \in {"cancelling", "done"} => watcher' \in {"cancelling", "done"})
        BY <1>5, WatcherStays
    <2>2. pc' = "joinWatcher" => pc = "joinWatcher"
        BY <1>5 DEF Next, MainProgress, MainOther, ChildProgress, Finished, vars, mainVars,
           StartSent, BodySent, SendRaises, ChildAwaited, Aclose, CleanupDep, WatcherJoined, Cancelled,
           CancelledOutside, CancelledInHandler, CancelledInSend, CancelledInAwait, CancelledInAclose,
           MoreBody, BodyTooLarge, BodyFails, ResolveDep, ResolveFails, CallHandler, HandlerReturns,
           ReturnsStream, HandlerRaises, ExcHandlerReturns, ExcHandlerRaises, ChildStarts, GenYields,
           GenEnds, GenRaises, GenInterrupted, ChunkSent, ChunkFails, FinalSent, ChildSendInterrupted,
           WatcherSees, WatcherEnds, ClientGone, ExternalCancel, Leave, Exit, Fallback, BeginReply, Dispatch
    <2>3. QED BY <2>1, <2>2 DEF JoinInv
<1>6. QED BY <1>2, <1>3, <1>4, <1>5

\* The finally of handle_request: where the request waits for the disconnect watcher,
\* the watcher has been asked to end or has ended, on every path that leads there.
WatcherIsAsked == pc = "joinWatcher" => watcher \in {"cancelling", "done"}

THEOREM JoinsWhatEnds == Spec => []WatcherIsAsked
<1>1. Init => JoinInv
    BY DEF Init, JoinInv
<1>2. IInv /\ JoinInv /\ [Next]_vars => JoinInv'
    BY JoinKeep
<1>3. JoinInv => WatcherIsAsked
    BY DEF JoinInv, WatcherIsAsked
<1>4. QED BY Invariance, <1>1, <1>2, <1>3, PTL DEF Spec
=============================================================================
