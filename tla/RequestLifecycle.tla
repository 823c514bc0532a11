-------------------------- MODULE RequestLifecycle --------------------------
(***************************************************************************)
(* One matched HTTP request inside fastware's create_app().app.            *)
(*                                                                         *)
(* Four asyncio actors share the request: the request task itself (pc),    *)
(* the disconnect watcher that owns receive() after the body, the child    *)
(* task that drives a streaming body, and the server, which may cancel the *)
(* request task from outside.  They interleave at awaits only, so every    *)
(* action below is what one task does between two awaits.                  *)
(*                                                                         *)
(* Abstracted: the bytes of bodies, headers, HEAD (it only empties         *)
(* payloads) and the values the dependencies return.  Handlers, factories  *)
(* and generators are user code: they end in any of the ways Python code   *)
(* can, except that a generator does not go on yielding after it has been  *)
(* cancelled.  A client that is gone stays gone, and receive() keeps       *)
(* answering http.disconnect, as ASGI requires.                            *)
(***************************************************************************)
EXTENDS Naturals

CONSTANTS
    NDeps,      \* number of generator dependencies of the route
    MaxBody     \* body chunks that fit under max_body_size

ASSUME NDepsAssumption == NDeps \in Nat
ASSUME MaxBodyAssumption == MaxBody \in Nat

VARIABLES
    pc,             \* where the request task is suspended
    exc,            \* the exception in flight in the request task
    reply,          \* which response the request task is sending
    body,           \* body chunks accumulated so far
    dep,            \* life of each dependency generator
    held,           \* length of the cleanups list the running code holds
    multi,          \* cleanup met a generator that yielded twice
    started,        \* the nonlocal response_started
    starts,         \* http.response.start messages handed to send()
    ends,           \* body messages with more_body = False handed to send()
    client,         \* the peer: connected, then gone
    disconnected,   \* request._disconnected
    watcher,        \* the _disconnect_watcher task
    child,          \* the _drive task
    registered,     \* request._stream_task is the child
    childCancel,    \* cancellation requested for the child, not yet delivered
    gen,            \* the StreamResponse generator
    mustCancel,     \* cancellation requested for the request task, undelivered
    extCancel       \* the server has cancelled the request task

mainVars  == <<pc, exc, reply, body, dep, held, multi, started, starts>>
childVars == <<child, registered, childCancel, gen, ends>>
peerVars  == <<client, disconnected, watcher, mustCancel, extCancel>>
vars      == <<mainVars, childVars, peerVars>>

DepIds     == 1..NDeps
ChildOver  == {"ok", "error", "cancelled"}
ChildAlive == {"created", "pulling", "sending", "final"}

MainTypeOK ==
    /\ pc \in {"body", "resolve", "handler", "sendingStart", "sendingBody",
               "awaitChild", "aclose", "cleanup", "joinWatcher",
               "excHandler", "done"}
    /\ exc \in {"none", "http", "error", "cancel"}
    /\ reply \in {"none", "large", "result", "invalid", "excResult",
                  "httpError", "fallback"}
    /\ body \in 0..MaxBody
    /\ dep \in [DepIds -> {"unopened", "open", "closed"}]
    /\ held \in 0..NDeps
    /\ multi \in BOOLEAN /\ started \in BOOLEAN

SendTypeOK == starts \in 0..2 /\ ends \in 0..2

ChildTypeOK ==
    /\ child \in {"none"} \cup ChildAlive \cup ChildOver
    /\ registered \in BOOLEAN /\ childCancel \in BOOLEAN
    /\ gen \in {"none", "open", "closed"}

PeerTypeOK ==
    /\ client \in {"connected", "gone"}
    /\ watcher \in {"none", "waiting", "cancelling", "done"}
    /\ disconnected \in BOOLEAN
    /\ mustCancel \in BOOLEAN /\ extCancel \in BOOLEAN

TypeOK == MainTypeOK /\ SendTypeOK /\ ChildTypeOK /\ PeerTypeOK

Init ==
    /\ pc = "body" /\ exc = "none" /\ reply = "none" /\ body = 0
    /\ dep = [d \in DepIds |-> "unopened"] /\ held = 0 /\ multi = FALSE
    /\ started = FALSE /\ starts = 0 /\ ends = 0
    /\ client = "connected" /\ disconnected = FALSE /\ watcher = "none"
    /\ child = "none" /\ registered = FALSE /\ childCancel = FALSE
    /\ gen = "none" /\ mustCancel = FALSE /\ extCancel = FALSE

-----------------------------------------------------------------------------
(* Control shared by the steps of the request task.                        *)

\* The request task resumes at l with no cancellation to deliver.
Runs(l) == pc = l /\ ~mustCancel

\* tracked_send of http.response.start: the flag is set before the await.
BeginReply(r) ==
    /\ reply' = r
    /\ pc' = "sendingStart"
    /\ started' = TRUE
    /\ starts' = starts + 1

\* The request task returns (e = "none") or lets e propagate to the server.
Exit(e) ==
    /\ pc' = "done"
    /\ exc' = e
    /\ UNCHANGED <<reply, started, starts>>

\* No exception handler produced a response: re-raise for the test client, or
\* send the opaque 500.
Fallback ==
    \/ Exit("error")
    \/ BeginReply("fallback") /\ exc' = "none"

\* Mutated form of Leave: the early return after the response_model 500 is
\* missing, so the result is sent as well.
LeaveWithoutReturn(e) ==
    IF reply = "invalid" /\ e = "none"
    THEN BeginReply("result") /\ UNCHANGED exc
    ELSE pc' = "cleanup" /\ exc' = e /\ UNCHANGED <<reply, started, starts>>

\* What follows _send_result or _send_response when it ends with e.
Leave(e) ==
    \/ /\ reply \in {"result", "invalid"}
       /\ pc' = "cleanup" /\ exc' = e
       /\ UNCHANGED <<reply, started, starts>>
    \/ /\ reply = "excResult" /\ e = "error"
       /\ Fallback
    \/ /\ reply = "large" /\ e = "error"    \* response_started: logged
       /\ Exit("none")
    \/ /\ reply \notin {"result", "invalid"}
       /\ ~(reply \in {"excResult", "large"} /\ e = "error")
       /\ Exit(e)

\* Mutated form of Dispatch: the except clauses do not test response_started.
DispatchUnguarded(e) ==
    \/ e \in {"none", "cancel"} /\ Exit(e)
    \/ e = "http" /\ BeginReply("httpError") /\ exc' = "none"
    \/ /\ e = "error"
       /\ \/ Fallback
          \/ /\ pc' = "excHandler" /\ exc' = "none"
             /\ UNCHANGED <<reply, started, starts>>

\* The except clauses of the route branch, for an exception e that left the
\* inner try; a response that has started can no longer be changed.
Dispatch(e) ==
    \/ e \in {"none", "cancel"} /\ Exit(e)
    \/ e \in {"http", "error"} /\ started /\ Exit("none")
    \/ e = "http" /\ ~started /\ BeginReply("httpError") /\ exc' = "none"
    \/ /\ e = "error" /\ ~started
       /\ \/ Fallback
          \/ /\ pc' = "excHandler" /\ exc' = "none"
             /\ UNCHANGED <<reply, started, starts>>

-----------------------------------------------------------------------------
(* The request task.                                                       *)

\* A body chunk with more_body = True that fits under max_body_size.
MoreBody ==
    /\ Runs("body") /\ body < MaxBody
    /\ body' = body + 1
    /\ UNCHANGED <<pc, exc, reply, dep, held, multi, started, starts>>
    /\ UNCHANGED <<childVars, peerVars>>

\* The chunk that exceeds max_body_size: 413, before any watcher exists.
BodyTooLarge ==
    /\ Runs("body") /\ body = MaxBody
    /\ BeginReply("large")
    /\ UNCHANGED <<exc, body, dep, held, multi, childVars, peerVars>>

\* A message without more_body ends the loop: the last chunk, or a disconnect.
\* The Request is built and the watcher task created in the same step.
BodyRead ==
    /\ Runs("body")
    /\ pc' = "resolve" /\ watcher' = "waiting"
    /\ UNCHANGED <<exc, reply, body, dep, held, multi, started, starts>>
    /\ UNCHANGED <<childVars, client, disconnected, mustCancel, extCancel>>

\* receive() raises before there is a Request: exception handlers are skipped.
BodyFails ==
    /\ Runs("body")
    /\ Fallback
    /\ UNCHANGED <<body, dep, held, multi, childVars, peerVars>>

\* resolve(): the next generator factory yields its value.
ResolveDep ==
    /\ Runs("resolve") /\ held < NDeps
    /\ dep' = [dep EXCEPT ![held + 1] = "open"]
    /\ held' = held + 1
    /\ UNCHANGED <<pc, exc, reply, body, multi, started, starts>>
    /\ UNCHANGED <<childVars, peerVars>>

\* Mutated form of ResolveFails: the except clause of resolve() is missing.
ResolveFailsUncleaned ==
    /\ Runs("resolve") /\ held < NDeps
    /\ exc' \in {"http", "error"}
    /\ pc' = "cleanup" /\ held' = 0
    /\ UNCHANGED <<reply, body, dep, multi, started, starts>>
    /\ UNCHANGED <<childVars, peerVars>>

\* resolve(): a factory raises; what was opened is cleaned up, then it raises.
ResolveFails ==
    /\ Runs("resolve") /\ held < NDeps
    /\ exc' \in {"http", "error"}
    /\ pc' = "cleanup"
    /\ UNCHANGED <<reply, body, dep, held, multi, started, starts>>
    /\ UNCHANGED <<childVars, peerVars>>

\* Every dependency is resolved: the handler is called.
CallHandler ==
    /\ Runs("resolve") /\ held = NDeps
    /\ pc' = "handler"
    /\ UNCHANGED <<exc, reply, body, dep, held, multi, started, starts>>
    /\ UNCHANGED <<childVars, peerVars>>

\* The handler returns a buffered result, which is sent as it is or replaced
\* by a 500 when response_model rejects it.
HandlerReturns ==
    /\ Runs("handler")
    /\ \E r \in {"result", "invalid"} : BeginReply(r)
    /\ UNCHANGED <<exc, body, dep, held, multi, childVars, peerVars>>

\* Mutated form of ReturnsStream: the cleanup does not wrap the response send.
ReturnsStreamUnwrapped ==
    /\ Runs("handler") /\ reply' = "result" /\ pc' = "cleanup"
    /\ gen' = "open"
    /\ UNCHANGED <<exc, body, dep, held, multi, started, starts, peerVars>>
    /\ UNCHANGED <<child, registered, childCancel, ends>>

\* The handler, or a registered exception handler, returns a StreamResponse.
ReturnsStream ==
    /\ \/ Runs("handler") /\ BeginReply("result")
       \/ Runs("excHandler") /\ BeginReply("excResult")
    /\ gen' = "open"
    /\ UNCHANGED <<exc, body, dep, held, multi, peerVars>>
    /\ UNCHANGED <<child, registered, childCancel, ends>>

HandlerRaises ==
    /\ Runs("handler")
    /\ exc' \in {"http", "error"}
    /\ pc' = "cleanup"
    /\ UNCHANGED <<reply, body, dep, held, multi, started, starts>>
    /\ UNCHANGED <<childVars, peerVars>>

\* send(start) returns.  A stream gets its child task, registered for the
\* watcher; a buffered response goes on to its only body message.
StartSent ==
    /\ Runs("sendingStart")
    /\ \/ /\ gen = "open"
          /\ pc' = "awaitChild" /\ child' = "created" /\ registered' = TRUE
          /\ UNCHANGED <<ends, childCancel, gen>>
       \/ /\ gen # "open"
          /\ pc' = "sendingBody" /\ ends' = ends + 1
          /\ UNCHANGED <<child, registered, childCancel, gen>>
    /\ UNCHANGED <<exc, reply, body, dep, held, multi, started, starts, peerVars>>

BodySent ==
    /\ Runs("sendingBody")
    /\ Leave("none")
    /\ UNCHANGED <<body, dep, held, multi, childVars, peerVars>>

\* send() raises once the client is gone; an unstarted stream is still closed.
SendRaises ==
    /\ pc \in {"sendingStart", "sendingBody"} /\ ~mustCancel
    /\ client = "gone"
    /\ \/ /\ gen = "open"
          /\ pc' = "aclose" /\ exc' = "error"
          /\ UNCHANGED <<reply, started, starts>>
       \/ gen # "open" /\ Leave("error")
    /\ UNCHANGED <<body, dep, held, multi, childVars, peerVars>>

\* Mutated forms of ChildAwaited: no finally around the child, and a re-raise
\* that does not ask whether the client disconnected.
ChildAwaitedNoFinally ==
    /\ Runs("awaitChild") /\ child \in ChildOver
    /\ Leave(IF child = "error" THEN "error" ELSE "none")
    /\ UNCHANGED <<body, dep, held, multi, childVars, peerVars>>

ChildAwaitedReraises ==
    /\ Runs("awaitChild") /\ child \in ChildOver
    /\ pc' = "aclose"
    /\ exc' = CASE child = "error"     -> "error"
               [] child = "cancelled" -> "cancel"
               [] OTHER               -> "none"
    /\ UNCHANGED <<reply, body, dep, held, multi, started, starts>>
    /\ UNCHANGED <<childVars, peerVars>>

\* await child returns.  A cancelled child is the client's doing if the
\* request is marked disconnected, and an outside cancellation otherwise.
ChildAwaited ==
    /\ Runs("awaitChild") /\ child \in ChildOver
    /\ pc' = "aclose"
    /\ exc' = IF child = "error" THEN "error"
              ELSE IF child = "cancelled" /\ ~disconnected THEN "cancel"
              ELSE "none"
    /\ UNCHANGED <<reply, body, dep, held, multi, started, starts>>
    /\ UNCHANGED <<childVars, peerVars>>

\* The finally of _send_stream: the generator is closed, then the outcome goes
\* on to whoever called _send_result.
Aclose ==
    /\ Runs("aclose")
    /\ gen' = "closed"
    /\ Leave(exc)
    /\ UNCHANGED <<body, dep, held, multi, peerVars>>
    /\ UNCHANGED <<child, registered, childCancel, ends>>

\* Mutated form of CleanupDep: the list is not reversed.
CleanupDepForward ==
    /\ Runs("cleanup") /\ held > 0
    /\ \E d \in DepIds :
          /\ dep[d] = "open" /\ \A c \in DepIds : c < d => dep[c] # "open"
          /\ dep' = [dep EXCEPT ![d] = "closed"]
    /\ held' = held - 1
    /\ multi' \in {multi, TRUE}
    /\ UNCHANGED <<pc, exc, reply, body, started, starts, childVars, peerVars>>

\* DependencyResolver.cleanup: the generators run out in reverse order; errors
\* are logged, a second yield is remembered.
CleanupDep ==
    /\ Runs("cleanup") /\ held > 0
    /\ dep' = [dep EXCEPT ![held] = "closed"]
    /\ held' = held - 1
    /\ multi' \in {multi, TRUE}
    /\ UNCHANGED <<pc, exc, reply, body, started, starts, childVars, peerVars>>

StopWatcher == watcher' = IF watcher = "waiting" THEN "cancelling" ELSE watcher

\* The list is empty: a remembered second yield replaces the exception in
\* flight, and the outer finally cancels the watcher.
CleanupEnds ==
    /\ Runs("cleanup") /\ held = 0
    /\ exc' = IF multi THEN "error" ELSE exc
    /\ multi' = FALSE
    /\ pc' = "joinWatcher"
    /\ StopWatcher
    /\ UNCHANGED <<reply, body, dep, held, started, starts, childVars>>
    /\ UNCHANGED <<client, disconnected, mustCancel, extCancel>>

\* await watcher swallows CancelledError, whoever it was meant for.
WatcherJoined ==
    /\ pc = "joinWatcher" /\ watcher = "done"
    /\ mustCancel' = FALSE
    /\ Dispatch(exc)
    /\ UNCHANGED <<body, dep, held, multi, childVars>>
    /\ UNCHANGED <<client, disconnected, watcher, extCancel>>

\* A registered exception handler returns a buffered result or raises.
ExcHandlerReturns ==
    /\ Runs("excHandler")
    /\ BeginReply("excResult")
    /\ UNCHANGED <<exc, body, dep, held, multi, childVars, peerVars>>

ExcHandlerRaises ==
    /\ Runs("excHandler")
    /\ Fallback
    /\ UNCHANGED <<body, dep, held, multi, childVars, peerVars>>

-----------------------------------------------------------------------------
(* An outside cancellation reaches the request task at its await.          *)

\* In the body loop or an exception handler nothing is left to unwind.
CancelledOutside ==
    /\ pc \in {"body", "excHandler"}
    /\ Exit("cancel")
    /\ UNCHANGED <<dep, held, multi, watcher, gen>>

\* resolve() only catches Exception: its cleanups list dies with its frame.
CancelledInResolve ==
    /\ pc = "resolve"
    /\ pc' = "joinWatcher" /\ exc' = "cancel"
    /\ held' = 0 /\ StopWatcher
    /\ UNCHANGED <<reply, dep, multi, started, starts, gen>>

CancelledInHandler ==
    /\ pc = "handler"
    /\ pc' = "cleanup" /\ exc' = "cancel"
    /\ UNCHANGED <<reply, dep, held, multi, started, starts, watcher, gen>>

CancelledInSend ==
    /\ pc \in {"sendingStart", "sendingBody"}
    /\ \/ /\ gen = "open"
          /\ pc' = "aclose" /\ exc' = "cancel"
          /\ UNCHANGED <<reply, started, starts>>
       \/ gen # "open" /\ Leave("cancel")
    /\ UNCHANGED <<dep, held, multi, watcher, gen>>

\* The child had already ended; its outcome is discarded.
CancelledInAwait ==
    /\ pc = "awaitChild" /\ child \in ChildOver
    /\ pc' = "aclose"
    /\ exc' = IF disconnected THEN "none" ELSE "cancel"
    /\ UNCHANGED <<reply, dep, held, multi, started, starts, watcher, gen>>

CancelledInAclose ==
    /\ pc = "aclose"
    /\ gen' = "closed"
    /\ Leave("cancel")
    /\ UNCHANGED <<dep, held, multi, watcher>>

\* cleanup() only catches Exception: the generator it was awaiting unwinds,
\* the rest of the list is abandoned.
CancelledInCleanup ==
    /\ pc = "cleanup"
    /\ dep' = IF held > 0 THEN [dep EXCEPT ![held] = "closed"] ELSE dep
    /\ held' = 0 /\ multi' = FALSE
    /\ pc' = "joinWatcher" /\ exc' = "cancel" /\ StopWatcher
    /\ UNCHANGED <<reply, started, starts, gen>>

Cancelled ==
    /\ mustCancel /\ mustCancel' = FALSE
    /\ \/ CancelledOutside \/ CancelledInResolve \/ CancelledInHandler
       \/ CancelledInSend \/ CancelledInAwait \/ CancelledInAclose
       \/ CancelledInCleanup
    /\ UNCHANGED <<body, child, registered, childCancel, ends>>
    /\ UNCHANGED <<client, disconnected, extCancel>>

-----------------------------------------------------------------------------
(* The child task: _drive.                                                 *)

\* The first step of the task; cancelled before it, the body never runs.
ChildStarts ==
    /\ child = "created"
    /\ child' = IF childCancel THEN "cancelled" ELSE "pulling"
    /\ childCancel' = FALSE
    /\ UNCHANGED <<registered, gen, ends, mainVars, peerVars>>

GenYields ==
    /\ child = "pulling" /\ ~childCancel
    /\ child' = "sending"
    /\ UNCHANGED <<registered, childCancel, gen, ends, mainVars, peerVars>>

GenEnds ==
    /\ child = "pulling" /\ ~childCancel
    /\ child' = "final" /\ gen' = "closed" /\ ends' = ends + 1
    /\ UNCHANGED <<registered, childCancel, mainVars, peerVars>>

GenRaises ==
    /\ child = "pulling" /\ ~childCancel
    /\ child' = "error" /\ gen' = "closed"
    /\ UNCHANGED <<registered, childCancel, ends, mainVars, peerVars>>

\* CancelledError is thrown into the generator, which lets it propagate or
\* catches it and returns (then the final empty body is sent).
GenInterrupted ==
    /\ child = "pulling" /\ childCancel
    /\ gen' = "closed" /\ childCancel' = FALSE
    /\ \/ child' = "cancelled" /\ UNCHANGED ends
       \/ child' = "final" /\ ends' = ends + 1
    /\ UNCHANGED <<registered, mainVars, peerVars>>

ChunkSent ==
    /\ child = "sending" /\ ~childCancel
    /\ child' = "pulling"
    /\ UNCHANGED <<registered, childCancel, gen, ends, mainVars, peerVars>>

\* A failing send of a chunk stops the stream and leaves the generator
\* suspended at its yield.
ChunkFails ==
    /\ child = "sending" /\ ~childCancel /\ client = "gone"
    /\ child' = "ok"
    /\ UNCHANGED <<registered, childCancel, gen, ends, mainVars, peerVars>>

FinalSent ==
    /\ child = "final" /\ ~childCancel
    /\ child' = "ok"
    /\ UNCHANGED <<registered, childCancel, gen, ends, mainVars, peerVars>>

\* Mutated form of ChildSendInterrupted: _drive catches BaseException around
\* send(), so a cancellation is swallowed and the stream goes on.
ChildSendInterruptedSwallowed ==
    /\ child \in {"sending", "final"} /\ childCancel
    /\ child' = "pulling" /\ childCancel' = FALSE
    /\ UNCHANGED <<registered, gen, ends, mainVars, peerVars>>

ChildSendInterrupted ==
    /\ child \in {"sending", "final"} /\ childCancel
    /\ child' = "cancelled" /\ childCancel' = FALSE
    /\ UNCHANGED <<registered, gen, ends, mainVars, peerVars>>

-----------------------------------------------------------------------------
(* The watcher, the client and the server.                                 *)

\* request._mark_disconnected: the flag, and a cancel of the stream task if one
\* is registered and not done.
MarkDisconnected ==
    /\ disconnected' = TRUE
    /\ childCancel' = (childCancel \/ (registered /\ child \in ChildAlive))

WatcherSees ==
    /\ watcher = "waiting" /\ client = "gone"
    /\ MarkDisconnected
    /\ watcher' = "done"
    /\ UNCHANGED <<child, registered, gen, ends, mainVars>>
    /\ UNCHANGED <<client, mustCancel, extCancel>>

\* receive() raises in the watcher, or the watcher takes its cancellation.
WatcherEnds ==
    /\ watcher \in {"waiting", "cancelling"}
    /\ watcher' = "done"
    /\ UNCHANGED <<client, disconnected, mustCancel, extCancel>>
    /\ UNCHANGED <<mainVars, childVars>>

ClientGone ==
    /\ client = "connected"
    /\ client' = "gone"
    /\ UNCHANGED <<disconnected, watcher, mustCancel, extCancel>>
    /\ UNCHANGED <<mainVars, childVars>>

\* The server cancels the request task, at most once.  A task that awaits the
\* child passes the cancellation to it.
ExternalCancel ==
    /\ ~extCancel /\ pc # "done"
    /\ extCancel' = TRUE
    /\ \/ /\ pc = "awaitChild" /\ child \in ChildAlive
          /\ childCancel' = TRUE
          /\ UNCHANGED mustCancel
       \/ /\ ~(pc = "awaitChild" /\ child \in ChildAlive)
          /\ mustCancel' = TRUE
          /\ UNCHANGED childCancel
    /\ UNCHANGED <<mainVars, child, registered, gen, ends>>
    /\ UNCHANGED <<client, disconnected, watcher>>

\* The request is over; only the client may still go away.
Finished == pc = "done" /\ UNCHANGED vars

-----------------------------------------------------------------------------
\* Steps of the request task that wait for the server or the event loop only.
MainProgress ==
    \/ StartSent \/ BodySent \/ SendRaises \/ ChildAwaited \/ Aclose
    \/ CleanupDep \/ CleanupEnds \/ WatcherJoined \/ Cancelled

\* Steps of the request task that wait for the client or for user code.
MainOther ==
    \/ MoreBody \/ BodyTooLarge \/ BodyRead \/ BodyFails
    \/ ResolveDep \/ ResolveFails \/ CallHandler
    \/ HandlerReturns \/ ReturnsStream \/ HandlerRaises
    \/ ExcHandlerReturns \/ ExcHandlerRaises

\* Steps of the child that wait for the server or the event loop only.
ChildProgress ==
    \/ ChildStarts \/ GenInterrupted \/ ChunkSent \/ ChunkFails
    \/ FinalSent \/ ChildSendInterrupted

Next ==
    \/ MainProgress \/ MainOther
    \/ ChildProgress \/ GenYields \/ GenEnds \/ GenRaises
    \/ WatcherSees \/ WatcherEnds
    \/ ClientGone \/ ExternalCancel \/ Finished

\* send() answers, tasks that can run are run, and receive() reports a client
\* that is gone.  Nothing is assumed of handlers, factories or of a generator
\* between two yields; cleanups and aclose() are assumed to end.
Fairness ==
    /\ WF_vars(MainProgress)
    /\ WF_vars(ChildProgress)
    /\ WF_vars(WatcherSees)
    /\ WF_vars(watcher = "cancelling" /\ WatcherEnds)

Spec == Init /\ [][Next]_vars /\ Fairness

-----------------------------------------------------------------------------
(* Properties.                                                             *)

\* When the request is over, the watcher and the child task have ended and the
\* stream generator is closed, on every path through the except and finally
\* clauses ("aclose() is guaranteed in every path").
NothingOutlivesRequest ==
    pc = "done" => /\ watcher \in {"none", "done"}
                   /\ child \notin ChildAlive
                   /\ gen # "open"

\* A resource provided by a dependency stays alive across the whole streamed
\* body: it is torn down only once no generator and no child task can use it.
ResourceOutlivesStream ==
    [][\A d \in DepIds : (dep[d] = "open" /\ dep'[d] = "closed")
          => gen # "open" /\ child \notin ChildAlive]_vars

\* A dependency is never closed before one that was resolved after it.
LifoTeardown ==
    \A d, e \in DepIds :
        d < e /\ dep[d] = "closed" => dep[e] # "open"

\* Every dependency that yielded is torn down by the end of the request, unless
\* the server cancelled the request task.
DependenciesTornDown ==
    pc = "done" /\ ~extCancel => \A d \in DepIds : dep[d] # "open"

\* A second http.response.start is only ever the opaque 500 that follows a
\* registered exception handler whose own response broke off after its start;
\* every other error path respects response_started.
SecondStartOnlyAfterHandlerReply ==
    starts = 2 => /\ reply = "fallback"
                  /\ client = "gone" \/ child = "error"

\* The request task ends cancelled only if the server cancelled it: a client
\* disconnect that cancels the stream never surfaces as a cancellation.
CancellationIsGenuine ==
    exc = "cancel" => extCancel

\* A request that returns normally to a connected client has sent exactly one
\* complete response, unless its generator failed after the start.
RequestIsAnswered ==
    /\ pc = "done" /\ exc = "none"
    /\ client = "connected" /\ ~extCancel /\ child # "error"
    => starts = 1 /\ ends = 1

\* A stream whose cancellation was requested unwinds until the whole request,
\* dependencies and watcher included, is over.
CancelledStreamUnwinds == childCancel ~> pc = "done"

\* The comment beside response_started: error paths never attempt a second
\* response.
AtMostOneStart == starts <= 1

\* The docstrings of _send_stream and Request._mark_disconnected: once the
\* watcher has recorded the disconnect, a generator blocked between yields is
\* unwound promptly instead of leaking.
DisconnectUnwindsStream ==
    (disconnected /\ gen = "open") ~> gen = "closed"
=============================================================================
