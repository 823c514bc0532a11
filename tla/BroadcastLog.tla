---------------------------- MODULE BroadcastLog ----------------------------
(***************************************************************************)
(* What fastware.sse.Broadcaster promises, with no queues in it: one log   *)
(* of events and, for each subscriber, a cursor that moves through it one  *)
(* event at a time.  A subscriber that lags Buffer events behind when the  *)
(* next one is published is dropped: it may read up to its limit, the log  *)
(* as it was then.                                                         *)
(***************************************************************************)
EXTENDS Integers

CONSTANTS
    Subscribers,
    Buffer          \* the lag at which a subscriber is dropped; 0: never

VARIABLES
    length,         \* events published
    member,         \* "out", "in", "dropped" or "gone"
    cursor,         \* the last event read
    limit           \* of a dropped subscriber: the last event it may read

vars == <<length, member, cursor, limit>>

Init ==
    /\ length = 0
    /\ member = [s \in Subscribers |-> "out"]
    /\ cursor = [s \in Subscribers |-> 0]
    /\ limit  = [s \in Subscribers |-> 0]

Lagging ==
    {s \in Subscribers :
        member[s] = "in" /\ Buffer > 0 /\ length - cursor[s] >= Buffer}

Publish ==
    /\ length' = length + 1
    /\ member' = [s \in Subscribers |->
                    IF s \in Lagging THEN "dropped" ELSE member[s]]
    /\ limit'  = [s \in Subscribers |->
                    IF s \in Lagging THEN length ELSE limit[s]]
    /\ UNCHANGED cursor

Subscribe(s) ==
    /\ member[s] = "out"
    /\ member' = [member EXCEPT ![s] = "in"]
    /\ cursor' = [cursor EXCEPT ![s] = length]
    /\ UNCHANGED <<length, limit>>

Read(s) ==
    /\ \/ member[s] = "in" /\ cursor[s] < length
       \/ member[s] = "dropped" /\ cursor[s] < limit[s]
    /\ cursor' = [cursor EXCEPT ![s] = cursor[s] + 1]
    /\ UNCHANGED <<length, member, limit>>

Unsubscribe(s) ==
    /\ member[s] # "gone"
    /\ member' = [member EXCEPT ![s] = "gone"]
    /\ UNCHANGED <<length, cursor, limit>>

Next ==
    \/ Publish
    \/ \E s \in Subscribers : Subscribe(s) \/ Read(s) \/ Unsubscribe(s)

Spec == Init /\ [][Next]_vars
=============================================================================
