---------------------------- MODULE Broadcaster ----------------------------
(***************************************************************************)
(* fastware.sse.Broadcaster: broadcast() puts an event into the queue of   *)
(* every listed client, and each client's stream is an async generator     *)
(* that takes from its own queue.  All of it runs on one event loop: an    *)
(* action is what runs between two suspensions of a generator, and         *)
(* broadcast() is synchronous.                                             *)
(*                                                                         *)
(* An event is its position in the order of broadcast() calls; its type    *)
(* matters to strict mode only.  _clients is a list to which each generator*)
(* adds its own queue once, so a set of clients stands for it.             *)
(***************************************************************************)
EXTENDS Integers, Sequences

CONSTANTS
    Clients,            \* calls of stream(), each with its own queue
    Buffer,             \* buffer_size; asyncio.Queue takes 0 for "unbounded"
    EventTypes,         \* names passed to register_event() and broadcast()
    Strict,             \* strict
    HasHeartbeat,       \* heartbeat_interval is not None
    Initial,            \* number of initial events of a stream
    MaxEvents           \* bound: successful broadcast() calls

ASSUME BufferAssumption == Buffer \in Nat
ASSUME OptionsAssumption == Strict \in BOOLEAN /\ HasHeartbeat \in BOOLEAN
ASSUME InitialAssumption == Initial \in Nat
ASSUME MaxEventsAssumption == MaxEvents \in Nat

VARIABLES
    clients,            \* self._clients
    registered,         \* self._event_types
    sent,               \* events broadcast so far
    queue,              \* queue of each client
    gen,                \* where its generator is suspended
    left,               \* initial events it has still to yield
    last,               \* the last broadcast event it yielded (or that preceded it)
    prunedAt            \* sent when broadcast() pruned it

clientVars == <<queue, gen, left, last, prunedAt>>
vars == <<clients, registered, sent, clientVars>>

\* "none": no stream() yet; "fresh": created, not iterated; "yielded": in a
\* yield, while the response sends; "waiting": in queue.get(); "ended".
Active == {"yielded", "waiting"}

TypeOK ==
    /\ clients \subseteq Clients /\ registered \subseteq EventTypes
    /\ sent \in 0..MaxEvents
    /\ queue \in [Clients -> Seq(1..MaxEvents)]
    /\ \A c \in Clients : Buffer > 0 => Len(queue[c]) <= Buffer
    /\ gen \in [Clients -> {"none", "fresh", "ended"} \cup Active]
    /\ left \in [Clients -> 0..Initial]
    /\ last \in [Clients -> 0..MaxEvents]
    /\ prunedAt \in [Clients -> 0..MaxEvents]

Init ==
    /\ clients = {} /\ registered = {} /\ sent = 0
    /\ queue = [c \in Clients |-> <<>>]
    /\ gen   = [c \in Clients |-> "none"]
    /\ left  = [c \in Clients |-> 0]
    /\ last  = [c \in Clients |-> 0]
    /\ prunedAt = [c \in Clients |-> 0]

-----------------------------------------------------------------------------
RegisterEvent(e) ==
    /\ registered' = registered \cup {e}
    /\ UNCHANGED <<clients, sent, clientVars>>

Full(c) == Buffer > 0 /\ Len(queue[c]) >= Buffer

\* Mutated form of Broadcast: a full queue loses its oldest event instead.
BroadcastDropsOldest(e) ==
    /\ sent < MaxEvents /\ (Strict => e \in registered)
    /\ sent' = sent + 1
    /\ queue' = [c \in Clients |->
            IF c \notin clients THEN queue[c]
            ELSE Append(IF Full(c) THEN Tail(queue[c]) ELSE queue[c], sent + 1)]
    /\ UNCHANGED <<clients, registered, gen, left, last, prunedAt>>

\* put_nowait() for every client; the full ones are taken off the list and
\* get nothing, but their generators go on.
Broadcast(e) ==
    /\ sent < MaxEvents
    /\ Strict => e \in registered
    /\ sent' = sent + 1
    /\ queue' = [c \in Clients |-> IF c \in clients /\ ~Full(c)
                                   THEN Append(queue[c], sent + 1)
                                   ELSE queue[c]]
    /\ clients' = {c \in clients : ~Full(c)}
    /\ prunedAt' = [c \in Clients |-> IF c \in clients /\ Full(c)
                                      THEN sent ELSE prunedAt[c]]
    /\ UNCHANGED <<registered, gen, left, last>>

\* Mutated form of Stream: the queue is listed with the response, not with its
\* first iteration.
StreamListed(c) ==
    /\ gen[c] = "none"
    /\ gen' = [gen EXCEPT ![c] = "fresh"]
    /\ left' = [left EXCEPT ![c] = Initial]
    /\ clients' = clients \cup {c}
    /\ UNCHANGED <<registered, sent, queue, last, prunedAt>>

Stream(c) ==
    /\ gen[c] = "none"
    /\ gen' = [gen EXCEPT ![c] = "fresh"]
    /\ left' = [left EXCEPT ![c] = Initial]
    /\ UNCHANGED <<clients, registered, sent, queue, last, prunedAt>>

\* The first iteration lists the queue and goes to the first initial event or,
\* the queue being empty, to queue.get().
Join(c) ==
    /\ gen[c] = "fresh"
    /\ clients' = clients \cup {c}
    /\ last' = [last EXCEPT ![c] = sent]
    /\ \/ /\ left[c] > 0
          /\ left' = [left EXCEPT ![c] = left[c] - 1]
          /\ gen' = [gen EXCEPT ![c] = "yielded"]
       \/ /\ left[c] = 0
          /\ gen' = [gen EXCEPT ![c] = "waiting"]
          /\ UNCHANGED left
    /\ UNCHANGED <<registered, sent, queue, prunedAt>>

\* queue.get() returns the oldest event, and the generator yields it.
Take(c) ==
    /\ queue[c] # <<>>
    /\ queue' = [queue EXCEPT ![c] = Tail(queue[c])]
    /\ last' = [last EXCEPT ![c] = Head(queue[c])]
    /\ gen' = [gen EXCEPT ![c] = "yielded"]
    /\ UNCHANGED <<clients, registered, sent, left, prunedAt>>

\* The response asks for the next chunk: an initial event, a queued event
\* without suspension, or a wait.
Resume(c) ==
    /\ gen[c] = "yielded"
    /\ \/ /\ left[c] > 0
          /\ left' = [left EXCEPT ![c] = left[c] - 1]
          /\ UNCHANGED <<clients, registered, sent, queue, gen, last, prunedAt>>
       \/ left[c] = 0 /\ Take(c)
       \/ /\ left[c] = 0 /\ queue[c] = <<>>
          /\ gen' = [gen EXCEPT ![c] = "waiting"]
          /\ UNCHANGED <<clients, registered, sent, queue, left, last, prunedAt>>

\* Mutated form of Wake: only a client that is still listed is woken.
WakeListed(c) == gen[c] = "waiting" /\ c \in clients /\ Take(c)

Wake(c) == gen[c] = "waiting" /\ Take(c)

\* The timeout cancels queue.get(), also one that an event has just woken: the
\* event stays in the queue.
Heartbeat(c) ==
    /\ HasHeartbeat /\ gen[c] = "waiting"
    /\ gen' = [gen EXCEPT ![c] = "yielded"]
    /\ UNCHANGED <<clients, registered, sent, queue, left, last, prunedAt>>

\* The finally clause; a pruned client is no longer on the list.
Finish(c) ==
    /\ gen' = [gen EXCEPT ![c] = "ended"]
    /\ clients' = clients \ {c}
    /\ UNCHANGED <<registered, sent, queue, left, last, prunedAt>>

\* The stream task is cancelled in queue.get(): the generator returns.
CancelWait(c) == gen[c] = "waiting" /\ Finish(c)

\* aclose() in a yield (GeneratorExit), or formatting the next initial event
\* raises.
Close(c) == gen[c] = "yielded" /\ Finish(c)

\* A response that is never iterated: its generator's body does not run.
Discard(c) ==
    /\ gen[c] = "fresh"
    /\ gen' = [gen EXCEPT ![c] = "ended"]
    /\ UNCHANGED <<clients, registered, sent, queue, left, last, prunedAt>>

-----------------------------------------------------------------------------
ClientStep(c) ==
    \/ Stream(c) \/ Join(c) \/ Resume(c) \/ Wake(c) \/ Heartbeat(c)
    \/ CancelWait(c) \/ Close(c) \/ Discard(c)

Next ==
    \/ \E e \in EventTypes : RegisterEvent(e) \/ Broadcast(e)
    \/ \E c \in Clients : ClientStep(c)

\* The event loop runs a generator whose queue.get() can return.  How fast a
\* response sends is up to its client: Resume has no fairness.
Fairness == \A c \in Clients : WF_vars(Wake(c))

Spec == Init /\ [][Next]_vars /\ Fairness

-----------------------------------------------------------------------------
\* A listed queue belongs to a generator that is still running, so a response
\* that was never consumed, cancelled while waiting or closed while sending
\* leaves nothing behind for later broadcasts to fill.
ListedIsActive == \A c \in clients : gen[c] \in Active

\* The queues implement one log with a cursor per client: from its first
\* iteration to the moment it is pruned or closed, a client yields every event
\* that is broadcast, once and in order, whatever heartbeats and closes
\* interleave; a pruned client still yields what was queued before.
Member(c) ==
    IF c \in clients THEN "in"
    ELSE IF gen[c] \in Active THEN "dropped"
    ELSE IF gen[c] = "ended" THEN "gone" ELSE "out"

Log == INSTANCE BroadcastLog WITH
    Subscribers <- Clients,
    length      <- sent,
    member      <- [c \in Clients |-> Member(c)],
    cursor      <- last,
    limit       <- prunedAt

ImplementsLog == Log!Spec

\* A client whose response keeps asking for chunks gets everything in its queue,
\* listed or pruned, unless its stream ends.
QueuesDrain ==
    \A c \in Clients :
        []<>(gen[c] # "yielded")
            => (queue[c] # <<>> ~> queue[c] = <<>> \/ gen[c] = "ended")
=============================================================================
