------------------------------ MODULE DevProxy ------------------------------
(***************************************************************************)
(* One HTTP request or WebSocket connection on its way through the         *)
(* middleware of fastware.middleware, in the order create_app() nests it:  *)
(* trusted host, Vite proxy, CORS, request id, timing, application.        *)
(*                                                                         *)
(* The application behind the proxy is what Dispatch of Routing says; a    *)
(* handler may read the body or leave it, watch for a disconnect, answer   *)
(* or raise.  Contents of chunks, frames and headers are left out.         *)
(***************************************************************************)
EXTENDS Routing

CONSTANTS
    Apps,       \* the applications, as Dispatch reads them
    Methods,    \* the methods and paths of a request
    Paths,
    Backend,    \* _is_api_request: the prefixes that are never proxied
    Chunks      \* the chunks of a request's body

ASSUME ChunksAssumption == Chunks \in Nat \ {0}
ASSUME TablesAssumption ==
    \A a \in Apps : a.table \in Seq([method : STRING, pattern : Seq(STRING)])
ASSUME PathsAssumption == Paths \subseteq Seq(STRING)

\* A prefix of the backend is compared with paths: it has no parameters.
ASSUME BackendAssumption ==
    \A prefix \in Backend : prefix \in Seq(STRING) /\ PathParam \notin Range(prefix)

VARIABLES
    app, req,   \* the application and the request, forgotten once dispatched
    origin,     \* the Origin header: "none", "allowed" or "other"
    pc,         \* where the request is
    proxied,    \* the proxy took it: it is not on one of the backend's paths
    arrived,    \* how many chunks the client has sent
    read,       \* how many were received by anyone
    gone,       \* the client has disconnected
    seen,       \* somebody has received the disconnect
    is404,      \* is_404 of the proxy
    status,     \* what the application has started, or 0
    starts,     \* the response starts that reach the client
    ended,      \* the last body message has reached the client
    vite,       \* the requests sent to Vite, as the chunks of their bodies
    history,    \* RequestTimingMiddleware.request_history, as statuses
    ws          \* a WebSocket session: accepted, close codes, Vite's side of
                \* the connection, the two tasks between the sides, and whether
                \* the server has cancelled the request task

body   == <<arrived, read, gone, seen>>
answer == <<is404, status, starts, ended, vite, history>>
vars   == <<app, req, origin, pc, proxied, body, answer, ws>>

Forgotten == [method |-> "none", path |-> <<>>]
NoApp     == [table |-> <<>>, mounts |-> {}, files |-> {}, spa |-> FALSE, api |-> <<>>]
Forget    == app' = NoApp /\ req' = Forgotten

Init ==
    /\ app \in Apps
    /\ req \in [method : Methods, path : Paths] /\ origin = "none"
    /\ pc = IF req.method = "WEBSOCKET" THEN "ws" ELSE "http"
    /\ proxied = FALSE
    /\ arrived = 0 /\ read = 0 /\ gone = FALSE /\ seen = FALSE
    /\ is404 = FALSE /\ status = 0 /\ starts = <<>> /\ ended = FALSE
    /\ vite = <<>> /\ history = <<>>
    /\ ws = [accepted |-> FALSE, closes |-> <<>>, vite |-> "none",
             toVite |-> "none", toClient |-> "none", cancelled |-> FALSE]

-----------------------------------------------------------------------------
(* The way in.                                                             *)

\* A prefix that ends within a segment is left out.
IsApiRequest(path) == \E prefix \in Backend : Under(prefix, path)

\* A response of the middleware itself, sent as a whole.
Reply(by, code) ==
    /\ starts' = Append(starts, [by |-> by, status |-> code, cors |-> by = "cors"])
    /\ ended' = TRUE

CheckHost ==
    /\ pc = "http"
    /\ \/ pc' = "proxy" /\ UNCHANGED <<app, req, starts, ended>>
       \/ pc' = "over" /\ Reply("host", 400) /\ Forget
    /\ UNCHANGED <<origin, proxied, body, is404, status, vite, history, ws>>

EnterProxy ==
    /\ pc = "proxy"
    /\ proxied' = ~IsApiRequest(req.path)
    /\ origin' \in {"none", "allowed", "other"}
    /\ pc' = "cors"
    /\ UNCHANGED <<app, req, body, answer, ws>>

\* A preflight is an OPTIONS request with one more header, which it may lack.
Preflight ==
    /\ pc = "cors" /\ origin = "allowed" /\ req.method = "OPTIONS"
    /\ Reply("cors", 204) /\ Forget
    /\ pc' = "returned"
    /\ UNCHANGED <<origin, proxied, body, is404, status, vite, history, ws>>

\* The application ends: an entry of the history, also when it raises.
Record(how, code) == history' = Append(history, code)

\* What it starts goes through timing, request id and CORS to the proxy's
\* peek_send, which holds a 404 back.
Start(code) ==
    /\ status' = code
    /\ IF proxied /\ code = 404
       THEN is404' = TRUE /\ UNCHANGED starts
       ELSE /\ starts' = Append(starts, [by |-> "app", status |-> code,
                                         cors |-> origin = "allowed"])
            /\ UNCHANGED is404

\* Its last body message, which is discarded after a 404 that was held back.
Finish(held) == ended' = (ended \/ ~held)

Refuse(code) ==
    /\ Start(code) /\ Finish(proxied /\ code = 404) /\ Record("returned", code)
    /\ pc' = "returned"

EnterApp ==
    /\ pc = "cors"
    /\ Forget
    /\ LET to == Dispatch(app, req.method, req.path)
       IN  IF to \in {"404", "405"} THEN Refuse(IF to = "404" THEN 404 ELSE 405)
           ELSE pc' = "handler" /\ UNCHANGED <<is404, status, starts, ended, history>>
    /\ UNCHANGED <<origin, proxied, body, vite, ws>>

-----------------------------------------------------------------------------
(* The handler (or file, or mounted app) and its receive().                *)

Receive ==
    \/ /\ read < arrived
       /\ read' = read + 1 /\ UNCHANGED seen
    \/ /\ gone
       /\ seen' = TRUE /\ UNCHANGED read

HandlerReads ==
    /\ pc = "handler"
    /\ Receive
    /\ UNCHANGED <<app, req, origin, pc, proxied, arrived, gone, answer, ws>>

HandlerStarts ==
    /\ pc = "handler" /\ status = 0
    /\ \E code \in {200, 404} : Start(code)
    /\ UNCHANGED <<app, req, origin, pc, proxied, body, ended, vite, history, ws>>

\* The application answers unless its client has left.
HandlerReturns ==
    /\ pc = "handler" /\ (status # 0 \/ gone)
    /\ IF status # 0 THEN Finish(is404) ELSE UNCHANGED ended
    /\ Record("returned", status)
    /\ pc' = "returned"
    /\ UNCHANGED <<app, req, origin, proxied, body, is404, status, starts, vite, ws>>

\* An exception leaves the application and all the middleware.
HandlerRaises ==
    /\ pc = "handler"
    /\ Record("raised", status)
    /\ pc' = "raised"
    /\ UNCHANGED <<app, req, origin, proxied, body, is404, status, starts, ended, vite, ws>>

-----------------------------------------------------------------------------
(* The proxy again: drain what the backend left of the body, and replay.   *)

BodyComplete == read = Chunks \/ seen

\* Mutated form of Returned: the body is taken as the backend left it.
ReturnedUndrained ==
    /\ pc = "returned"
    /\ pc' = IF is404 /\ ~seen THEN "vite" ELSE "over"
    /\ UNCHANGED <<app, req, origin, proxied, body, answer, ws>>

Returned ==
    /\ pc = "returned"
    /\ pc' = IF is404 /\ ~seen THEN "drain" ELSE "over"
    /\ UNCHANGED <<app, req, origin, proxied, body, answer, ws>>

Drain ==
    /\ pc = "drain" /\ ~BodyComplete
    /\ Receive
    /\ UNCHANGED <<app, req, origin, pc, proxied, arrived, gone, answer, ws>>

Drained ==
    /\ pc = "drain" /\ BodyComplete
    /\ pc' = IF seen THEN "over" ELSE "vite"
    /\ UNCHANGED <<app, req, origin, proxied, body, answer, ws>>

ViteAnswers ==
    /\ pc = "vite"
    /\ vite' = Append(vite, read)
    /\ starts' = Append(starts, [by |-> "vite", status |-> 200, cors |-> FALSE])
    /\ ended' = TRUE /\ pc' = "over"
    /\ UNCHANGED <<app, req, origin, proxied, body, is404, status, history, ws>>

ViteUnreachable ==
    /\ pc = "vite"
    /\ starts' = Append(starts, [by |-> "proxy", status |-> 502, cors |-> FALSE])
    /\ ended' = TRUE /\ pc' = "over"
    /\ UNCHANGED <<app, req, origin, proxied, body, is404, status, vite, history, ws>>

\* Any other error of the HTTP client is not caught.
ViteFails ==
    /\ pc = "vite"
    /\ vite' = Append(vite, read)
    /\ pc' = "raised"
    /\ UNCHANGED <<app, req, origin, proxied, body, is404, status, starts, ended, history, ws>>

\* The server cancels the request task while the proxy awaits the client or Vite.
\* In the application that is for RequestLifecycle.
HttpCancelled ==
    /\ pc \in {"drain", "vite"}
    /\ \/ UNCHANGED vite
       \/ pc = "vite" /\ vite' = Append(vite, read)
    /\ pc' = "raised"
    /\ UNCHANGED <<app, req, origin, proxied, body, is404, status, starts, ended, history, ws>>

-----------------------------------------------------------------------------
(* WebSocket connections: host check, prefix rule, then the application or *)
(* the two tasks between the client and Vite.                              *)

Close(code) == ws' = [ws EXCEPT !.closes = Append(@, code)]

WsEnter ==
    /\ pc = "ws"
    /\ \/ /\ pc' = IF IsApiRequest(req.path) THEN "wsApp" ELSE "wsAccept"
          /\ proxied' = ~IsApiRequest(req.path) /\ UNCHANGED ws
       \/ pc' = "over" /\ Close(1008) /\ UNCHANGED proxied
    /\ Forget
    /\ UNCHANGED <<origin, body, answer>>

\* No route, or a dependency that rejects or fails.
WsReject ==
    /\ pc = "wsApp"
    /\ \E code \in {4004, 1008, 1011} : Close(code)
    /\ pc' = "over"
    /\ UNCHANGED <<app, req, origin, proxied, body, answer>>

\* WebSocket.accept: a disconnect in place of the connect message raises
\* WebSocketDisconnect, which ends the handler quietly.
WsHandlerAccepts ==
    /\ pc = "wsApp"
    /\ \/ ws' = [ws EXCEPT !.accepted = TRUE] /\ pc' = "wsHandler"
       \/ gone /\ pc' = "over" /\ UNCHANGED ws
    /\ UNCHANGED <<app, req, origin, proxied, body, answer>>

WsHandlerEnds ==
    /\ pc = "wsHandler"
    /\ \/ Close(1000)
       \/ gone /\ UNCHANGED ws
    /\ pc' = "over"
    /\ UNCHANGED <<app, req, origin, proxied, body, answer>>

WsAccept ==
    /\ pc = "wsAccept"
    /\ \/ ws' = [ws EXCEPT !.accepted = TRUE] /\ pc' = "wsConnect"
       \/ gone /\ pc' = "over" /\ UNCHANGED ws
    /\ UNCHANGED <<app, req, origin, proxied, body, answer>>

\* Mutated form of WsConnectFails: the error is not told.
WsConnectFailsCleanly ==
    /\ pc = "wsConnect"
    /\ Close(1000) /\ pc' = "over"
    /\ UNCHANGED <<app, req, origin, proxied, body, answer>>

WsConnectFails ==
    /\ pc = "wsConnect"
    /\ Close(1011) /\ pc' = "over"
    /\ UNCHANGED <<app, req, origin, proxied, body, answer>>

WsConnects ==
    /\ pc = "wsConnect"
    /\ ws' = [ws EXCEPT !.vite = "up", !.toVite = "runs", !.toClient = "runs"]
    /\ pc' = "pump"
    /\ UNCHANGED <<app, req, origin, proxied, body, answer>>

\* A task between the sides ends when the side it receives from has ended ...
PumpEnds ==
    /\ \/ /\ ws.toVite = "runs" /\ gone
          /\ ws' = [ws EXCEPT !.toVite = "done"]
       \/ /\ ws.toClient = "runs" /\ ws.vite # "up"
          /\ ws' = [ws EXCEPT !.toClient = IF ws.vite = "closed" THEN "done" ELSE "failed"]
    /\ UNCHANGED <<app, req, origin, pc, proxied, body, answer>>

\* ... or with something to send to a side that has ended ...
PumpSendFails ==
    /\ \/ /\ ws.toVite = "runs" /\ ws.vite # "up"
          /\ ws' = [ws EXCEPT !.toVite = "failed"]
       \/ /\ ws.toClient = "runs" /\ gone
          /\ ws' = [ws EXCEPT !.toClient = "failed"]
    /\ UNCHANGED <<app, req, origin, pc, proxied, body, answer>>

\* ... or in its next step after its cancellation was requested.
PumpCancelled ==
    /\ \/ /\ ws.toVite = "cancelling"
          /\ ws' = [ws EXCEPT !.toVite = "cancelled"]
       \/ /\ ws.toClient = "cancelling"
          /\ ws' = [ws EXCEPT !.toClient = "cancelled"]
    /\ UNCHANGED <<app, req, origin, pc, proxied, body, answer>>

\* Mutated form of FirstPumpEnded: wait for both tasks.
BothPumpsEnded ==
    /\ pc = "pump" /\ ws.toVite # "runs" /\ ws.toClient # "runs"
    /\ pc' = "closing"
    /\ UNCHANGED <<app, req, origin, proxied, body, answer, ws>>

\* FIRST_COMPLETED: the cancellation of the other task is requested and not waited
\* for, and what the first one raised is not looked at.
Requested(task) == IF task = "runs" THEN "cancelling" ELSE task

FirstPumpEnded ==
    /\ pc = "pump" /\ (ws.toVite # "runs" \/ ws.toClient # "runs")
    /\ ws' = [ws EXCEPT !.toVite = Requested(@), !.toClient = Requested(@)]
    /\ pc' = "closing"
    /\ UNCHANGED <<app, req, origin, proxied, body, answer>>

\* The end of the connection to Vite (async with), then of the client's (finally).
HungUp(side) == IF side = "up" THEN "closed" ELSE side

SessionCloses ==
    /\ pc = "closing"
    /\ ws' = [ws EXCEPT !.closes = Append(@, 1000), !.vite = HungUp(@)]
    /\ pc' = IF ws.cancelled THEN "raised" ELSE "over"
    /\ UNCHANGED <<app, req, origin, proxied, body, answer>>

\* The server cancels the request task, once at most.  Only the finally clause is
\* still run, unless that is what is cancelled; what was being sent may be out.
Cut(at, to) ==
    /\ pc = at /\ pc' = to /\ ~ws.cancelled
    /\ UNCHANGED <<app, req, origin, proxied, body, answer>>

AcceptCancelled ==
    /\ Cut("wsAccept", "raised")
    /\ \E sent \in BOOLEAN : ws' = [ws EXCEPT !.cancelled = TRUE, !.accepted = sent]

ConnectCancelled ==
    /\ Cut("wsConnect", "raised")
    /\ \E sent \in {<<>>, <<1000>>, <<1011>>} :
          ws' = [ws EXCEPT !.cancelled = TRUE, !.closes = sent]

\* In asyncio.wait(), which cancels neither of the two tasks.
WaitCancelled ==
    /\ Cut("pump", "closing")
    /\ ws' = [ws EXCEPT !.cancelled = TRUE]

CloseCancelled ==
    /\ Cut("closing", "raised")
    /\ \E sent \in {<<>>, <<1000>>} :
          ws' = [ws EXCEPT !.cancelled = TRUE, !.closes = sent, !.vite = HungUp(@)]

WsCancelled == AcceptCancelled \/ ConnectCancelled \/ WaitCancelled \/ CloseCancelled

-----------------------------------------------------------------------------
(* The client and Vite.                                                    *)

(* What they do before the request is dispatched makes no difference.      *)

ClientSends ==
    /\ pc \in {"handler", "returned", "drain"} /\ ~gone /\ arrived < Chunks
    /\ arrived' = arrived + 1
    /\ UNCHANGED <<app, req, origin, pc, proxied, read, gone, seen, answer, ws>>

ClientLeaves ==
    /\ pc \notin {"http", "proxy", "cors", "ws", "over", "raised"} \/ ws.toVite = "runs"
    /\ ~gone
    /\ gone' = TRUE
    /\ UNCHANGED <<app, req, origin, pc, proxied, arrived, read, seen, answer, ws>>

ViteHangsUp ==
    /\ pc = "pump" /\ ws.vite = "up"
    /\ \E how \in {"closed", "broken"} : ws' = [ws EXCEPT !.vite = how]
    /\ UNCHANGED <<app, req, origin, pc, proxied, body, answer>>

-----------------------------------------------------------------------------
Proxy ==
    \/ CheckHost \/ EnterProxy \/ Preflight \/ EnterApp
    \/ Returned \/ Drain \/ Drained \/ ViteAnswers \/ ViteUnreachable \/ ViteFails

Session ==
    \/ WsEnter \/ WsReject \/ WsHandlerAccepts \/ WsHandlerEnds
    \/ WsAccept \/ WsConnectFails \/ WsConnects \/ PumpEnds \/ PumpCancelled
    \/ FirstPumpEnded \/ SessionCloses

Handler == HandlerReads \/ HandlerStarts \/ HandlerReturns \/ HandlerRaises

Next ==
    \/ Proxy \/ Session \/ Handler
    \/ PumpSendFails \/ ClientSends \/ ClientLeaves \/ ViteHangsUp
    \/ HttpCancelled \/ WsCancelled

\* The loop runs what can run, a send to Vite or to the client returns, and a client
\* sends its body or leaves.  Nothing is assumed of a handler, of what is sent through
\* a WebSocket, or of a cancellation.
Fairness == WF_vars(Proxy) /\ WF_vars(Session) /\ WF_vars(ClientSends)

Spec == Init /\ [][Next]_vars /\ Fairness

-----------------------------------------------------------------------------
(* Properties.                                                             *)

\* Routing: a route is found exactly for the methods that allowed_methods()
\* names, so 404, 405 and HEAD agree; a :path parameter stands for one or more
\* segments; and what a router finds it also finds when it is included behind
\* a prefix, except the root path, whose pattern no request path fits there.
RoutesAreFound ==
    pc = "cors" =>
        /\ MatchRoute(app.table, req.method, req.path) # 0
              <=> req.method \in AllowedMethods(app.table, req.path)
        /\ \A k \in DOMAIN app.table :
              Matches(app.table[k].pattern, req.path)
                <=> MatchesAsSpecified(app.table[k].pattern, req.path)
        /\ req.path # <<"">> =>
              \A prefix \in Backend :
                  IncludedIsReachable(app.table, prefix, req.method, req.path)

\* A request goes to Vite once at most, only after the backend's 404, with the
\* whole body of the client however much of it the backend had read, and not
\* when the client is known to be gone.
ReplayIsFaithful ==
    vite # <<>> => vite = <<Chunks>> /\ proxied /\ status = 404 /\ ~seen

\* A client hears one response: the backend's, with its CORS headers, or
\* Vite's in the place of a 404, never parts of both; and it hears it to the
\* end unless an exception took its place; and the history of requests has
\* what the backend answered, once.  A WebSocket that was accepted is
\* closed once, and a connection that Vite refused not with a clean 1000.
\* A cancelled request is closed as it can.
OneAnswer ==
    /\ Len(starts) <= 1 /\ (ended => starts # <<>>)
    /\ pc = "over" /\ ~gone /\ ws.closes = <<>> => ended
    /\ \A k \in DOMAIN starts :
          /\ starts[k].by = "app" =>
                starts[k].status = status /\ starts[k].cors = (origin = "allowed")
          /\ starts[k].by = "app" /\ status = 404 => ~proxied
    /\ pc \in {"over", "raised"} /\ status # 0 => history = <<status>>
    /\ Len(ws.closes) <= 1
    /\ ws.accepted /\ pc = "over" /\ ~gone => ws.closes # <<>>
    /\ proxied /\ ws.closes = <<1000>> => ws.vite # "none" \/ ws.cancelled

\* When either side of a proxied WebSocket ends, the session ends: the client is sent
\* a close and neither task goes on, though nobody waits for the one that is cancelled.
\* If the request task is cancelled in the meantime, no close may be sent, and the task
\* to Vite is left to itself for as long as the client stays.
Going == {"runs", "cancelling"}

SessionsEnd ==
    pc = "pump" /\ (gone \/ ws.vite # "up")
        ~> /\ ws.closes # <<>> \/ ws.cancelled
           /\ ws.toClient \notin Going
           /\ ws.toVite \in Going => ws.cancelled /\ ~gone
=============================================================================
