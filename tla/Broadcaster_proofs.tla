------------------------- MODULE Broadcaster_proofs -------------------------
(* Proofs about Broadcaster, for every set of clients, every buffer size and *)
(* every number of initial events.                                           *)
EXTENDS Broadcaster, TLAPS

\* A queue holds the events that follow the last one its generator yielded.
QueueInv ==
    \A c \in Clients : \A i \in 1..Len(queue[c]) : queue[c][i] = last[c] + i

\* ... up to the newest event or, for a pruned client, up to its pruning.
ReachInv ==
    \A c \in Clients :
        /\ c \in clients => last[c] + Len(queue[c]) = sent
        /\ gen[c] \in Active /\ c \notin clients
              => last[c] + Len(queue[c]) = prunedAt[c]

\* Before its first iteration a client is not listed and has an empty queue.
FreshInv ==
    \A c \in Clients : gen[c] \in {"none", "fresh"} => queue[c] = <<>>

IInv == TypeOK /\ ListedIsActive /\ QueueInv /\ ReachInv /\ FreshInv

-----------------------------------------------------------------------------
\* Taking the head of a queue of consecutive events leaves consecutive events.
LEMMA TailShift ==
    ASSUME NEW S, NEW q \in Seq(S), q # <<>>
    PROVE  /\ Head(q) = q[1] /\ Head(q) \in S /\ Tail(q) \in Seq(S)
           /\ Len(Tail(q)) = Len(q) - 1 /\ Len(q) >= 1
           /\ \A i \in 1..Len(Tail(q)) : Tail(q)[i] = q[i + 1]
  OBVIOUS

\* Putting an event behind a queue keeps what is there.
LEMMA AppendKeeps ==
    ASSUME NEW S, NEW q \in Seq(S), NEW e \in S
    PROVE  /\ Append(q, e) \in Seq(S) /\ Len(Append(q, e)) = Len(q) + 1
           /\ \A i \in 1..Len(q) : Append(q, e)[i] = q[i]
           /\ Append(q, e)[Len(q) + 1] = e
  OBVIOUS

THEOREM InitInv == Init => IInv
<1> USE BufferAssumption, InitialAssumption, MaxEventsAssumption
    DEF Init, Active
<1>1. SUFFICES ASSUME Init PROVE IInv
  OBVIOUS
<1>2. \A c \in Clients : queue[c] = <<>> /\ Len(queue[c]) = 0
  BY <1>1
<1>3. TypeOK
  BY <1>1, <1>2 DEF TypeOK
<1>4. ListedIsActive /\ QueueInv /\ ReachInv /\ FreshInv
  BY <1>1, <1>2 DEF ListedIsActive, QueueInv, ReachInv, FreshInv
<1> QED
  BY <1>3, <1>4 DEF IInv

\* One broadcast extends every listed queue that is not full and prunes the rest.
LEMMA BroadcastInv ==
    ASSUME IInv, NEW e \in EventTypes, Broadcast(e)
    PROVE  IInv'
<1> USE BufferAssumption, InitialAssumption, MaxEventsAssumption DEF Active
<1>1. TypeOK /\ sent + 1 \in 1..MaxEvents
  BY DEF IInv, TypeOK, Broadcast
<1>2. ASSUME NEW c \in Clients
      PROVE  /\ queue[c] \in Seq(1..MaxEvents)
             /\ Append(queue[c], sent + 1) \in Seq(1..MaxEvents)
             /\ Len(Append(queue[c], sent + 1)) = Len(queue[c]) + 1
             /\ \A i \in 1..Len(queue[c]) : Append(queue[c], sent + 1)[i] = queue[c][i]
             /\ Append(queue[c], sent + 1)[Len(queue[c]) + 1] = sent + 1
             /\ Len(queue[c]) \in Nat
  BY <1>1, AppendKeeps DEF TypeOK
<1>3. TypeOK'
  <2>1. queue' \in [Clients -> Seq(1..MaxEvents)]
    BY <1>2 DEF Broadcast
  <2>2. \A c \in Clients : Buffer > 0 => Len(queue'[c]) <= Buffer
    BY <1>1, <1>2 DEF Broadcast, TypeOK, Full
  <2>3. prunedAt' \in [Clients -> 0..MaxEvents]
    BY <1>1 DEF Broadcast, TypeOK
  <2> QED
    BY <1>1, <2>1, <2>2, <2>3 DEF Broadcast, TypeOK
<1>4. ListedIsActive'
  BY DEF IInv, ListedIsActive, Broadcast
<1>5. QueueInv'
  <2> SUFFICES ASSUME NEW c \in Clients, NEW i \in 1..Len(queue'[c])
               PROVE  queue'[c][i] = last[c] + i
    BY DEF QueueInv, Broadcast
  <2>1. CASE c \in clients /\ ~Full(c)
    <3>1. queue'[c] = Append(queue[c], sent + 1)
      BY <2>1 DEF Broadcast
    <3>2. last[c] + Len(queue[c]) = sent
      BY <2>1 DEF IInv, ReachInv
    <3>3. CASE i \in 1..Len(queue[c])
      BY <1>2, <3>1, <3>3 DEF IInv, QueueInv
    <3>4. CASE i = Len(queue[c]) + 1
      BY <1>1, <1>2, <3>1, <3>2, <3>4 DEF TypeOK
    <3> QED
      BY <1>2, <3>1, <3>3, <3>4
  <2>2. CASE ~(c \in clients /\ ~Full(c))
    BY <2>2 DEF Broadcast, IInv, QueueInv
  <2> QED
    BY <2>1, <2>2
<1>6. ReachInv'
  <2> SUFFICES ASSUME NEW c \in Clients
               PROVE  /\ c \in clients' => last[c] + Len(queue'[c]) = sent + 1
                      /\ gen[c] \in Active /\ c \notin clients'
                            => last[c] + Len(queue'[c]) = prunedAt'[c]
    BY DEF ReachInv, Broadcast
  <2>1. last[c] \in Nat /\ sent \in Nat
    BY <1>1 DEF TypeOK
  <2>2. CASE c \in clients /\ ~Full(c)
    <3>1. queue'[c] = Append(queue[c], sent + 1) /\ c \in clients'
      BY <2>2 DEF Broadcast
    <3>2. last[c] + Len(queue[c]) = sent
      BY <2>2 DEF IInv, ReachInv
    <3>3. Len(queue'[c]) = Len(queue[c]) + 1 /\ Len(queue[c]) \in Nat
      BY <1>2, <3>1
    <3> QED
      BY <2>1, <3>1, <3>2, <3>3
  <2>3. CASE c \in clients /\ Full(c)
    BY <2>3 DEF Broadcast, IInv, ReachInv
  <2>4. CASE c \notin clients
    BY <2>4 DEF Broadcast, IInv, ReachInv
  <2> QED
    BY <2>2, <2>3, <2>4
<1>7. FreshInv'
  BY DEF IInv, ListedIsActive, FreshInv, Broadcast
<1> QED
  BY <1>3, <1>4, <1>5, <1>6, <1>7 DEF IInv

\* Taking the head of a queue moves its generator one event on.
LEMMA TakeInv ==
    ASSUME IInv, NEW c \in Clients, gen[c] \in Active, Take(c)
    PROVE  IInv' /\ Head(queue[c]) = last[c] + 1
<1> USE DEF Active
<1>1. TypeOK /\ queue[c] \in Seq(1..MaxEvents) /\ queue[c] # <<>>
  BY DEF IInv, TypeOK, Take
<1>2. /\ Tail(queue[c]) \in Seq(1..MaxEvents)
      /\ Len(Tail(queue[c])) = Len(queue[c]) - 1 /\ Len(queue[c]) >= 1
      /\ Len(queue[c]) \in Nat /\ last[c] \in Nat
      /\ \A i \in 1..Len(Tail(queue[c])) : Tail(queue[c])[i] = queue[c][i + 1]
      /\ Head(queue[c]) = queue[c][1]
  BY <1>1, TailShift DEF TypeOK
<1>3. Head(queue[c]) = last[c] + 1
  BY <1>2 DEF IInv, QueueInv
<1>4. Head(queue[c]) \in 1..MaxEvents
  BY <1>1, TailShift
<1>5. /\ queue' = [queue EXCEPT ![c] = Tail(queue[c])]
      /\ last' = [last EXCEPT ![c] = last[c] + 1]
      /\ gen' = [gen EXCEPT ![c] = "yielded"]
      /\ UNCHANGED <<clients, registered, sent, left, prunedAt>>
  <2>1. last' = [last EXCEPT ![c] = Head(queue[c])]
    BY DEF Take
  <2>2. last' = [last EXCEPT ![c] = last[c] + 1]
    BY <1>3, <2>1, Zenon
  <2> QED
    BY <2>2, Zenon DEF Take
<1>6. TypeOK'
  <2>1. queue' \in [Clients -> Seq(1..MaxEvents)]
    BY <1>1, <1>2, <1>5 DEF TypeOK
  <2>2. \A d \in Clients : Buffer > 0 => Len(queue'[d]) <= Buffer
    BY <1>1, <1>2, <1>5, BufferAssumption DEF TypeOK
  <2>3. last' \in [Clients -> 0..MaxEvents]
    BY <1>1, <1>3, <1>4, <1>5, MaxEventsAssumption DEF TypeOK
  <2> QED
    BY <1>1, <1>5, <2>1, <2>2, <2>3 DEF TypeOK
<1>7. ListedIsActive' /\ FreshInv'
  BY <1>1, <1>5 DEF IInv, TypeOK, ListedIsActive, FreshInv
<1>8. QueueInv'
  <2> SUFFICES ASSUME NEW d \in Clients, NEW i \in 1..Len(queue'[d])
               PROVE  queue'[d][i] = last'[d] + i
    BY DEF QueueInv
  <2>1. CASE d = c
    <3>1. queue'[d] = Tail(queue[c]) /\ last'[d] = last[c] + 1
      BY <1>1, <1>5, <2>1 DEF TypeOK
    <3>2. i \in Nat /\ i + 1 \in 1..Len(queue[c])
      BY <1>2, <3>1
    <3>3. queue[c][i + 1] = last[c] + (i + 1)
      BY <3>2 DEF IInv, QueueInv
    <3>4. i \in 1..Len(Tail(queue[c])) /\ queue'[d][i] = queue[c][i + 1]
      BY <1>2, <3>1
    <3>5. last[c] \in Nat
      BY <1>2
    <3> QED
      BY <3>1, <3>2, <3>3, <3>4, <3>5
  <2>2. CASE d # c
    BY <1>1, <1>5, <2>2 DEF TypeOK, IInv, QueueInv
  <2> QED
    BY <2>1, <2>2
<1>9. ReachInv'
  <2> SUFFICES ASSUME NEW d \in Clients
               PROVE  /\ d \in clients => last'[d] + Len(queue'[d]) = sent
                      /\ gen'[d] \in Active /\ d \notin clients
                            => last'[d] + Len(queue'[d]) = prunedAt[d]
    BY <1>5 DEF ReachInv
  <2>1. CASE d = c
    <3>1. last'[d] + Len(queue'[d]) = last[c] + Len(queue[c])
      <4>1. last'[d] = last[c] + 1 /\ queue'[d] = Tail(queue[c])
        BY <1>1, <1>5, <2>1 DEF TypeOK
      <4> QED
        BY <1>2, <4>1
    <3> QED
      BY <1>1, <1>5, <2>1, <3>1 DEF TypeOK, IInv, ReachInv
  <2>2. CASE d # c
    BY <1>1, <1>5, <2>2 DEF TypeOK, IInv, ReachInv
  <2> QED
    BY <2>1, <2>2
<1> QED
  BY <1>3, <1>6, <1>7, <1>8, <1>9 DEF IInv

\* The other steps of a client leave the queues alone.
LEMMA ClientInv ==
    ASSUME IInv, NEW c \in Clients, ClientStep(c), UNCHANGED <<queue, sent, prunedAt>>
    PROVE  IInv'
<1> USE InitialAssumption DEF Active
<1>1. TypeOK
  BY DEF IInv
<1>2. ~Take(c)
  BY <1>1, TailShift DEF TypeOK, Take
<1>3. CASE Stream(c)
  <2>1. TypeOK'
    BY <1>1, <1>3 DEF Stream, TypeOK
  <2>2. ListedIsActive'
    BY <1>1, <1>3 DEF Stream, IInv, TypeOK, ListedIsActive, FreshInv
  <2>3. QueueInv'
    BY <1>1, <1>3 DEF Stream, IInv, QueueInv
  <2>4. ReachInv'
    BY <1>1, <1>3 DEF Stream, IInv, TypeOK, ReachInv, ListedIsActive
  <2>5. FreshInv'
    BY <1>1, <1>3 DEF Stream, IInv, TypeOK, FreshInv
  <2> QED
    BY <2>1, <2>2, <2>3, <2>4, <2>5 DEF IInv
<1>4. CASE Join(c)
  <2>1. c \notin clients /\ queue[c] = <<>> /\ Len(queue[c]) = 0
    BY <1>4 DEF Join, IInv, ListedIsActive, FreshInv
  <2>2. TypeOK'
    <3>1. left' \in [Clients -> 0..Initial]
      <4>1. left \in [Clients -> 0..Initial]
        BY <1>1 DEF TypeOK
      <4>2. left' \in {left, [left EXCEPT ![c] = left[c] - 1]}
        BY <1>4 DEF Join
      <4>3. left' # left => left[c] > 0
        BY <1>4 DEF Join
      <4> QED
        BY <4>1, <4>2, <4>3
    <3>2. gen' \in [Clients -> {"none", "fresh", "ended"} \cup Active]
      <4>1. gen \in [Clients -> {"none", "fresh", "ended"} \cup Active]
        BY <1>1 DEF TypeOK
      <4>2. gen' \in {gen, [gen EXCEPT ![c] = "yielded"], [gen EXCEPT ![c] = "waiting"]}
        BY <1>4 DEF Join
      <4> QED
        BY <4>1, <4>2
    <3>3. last' \in [Clients -> 0..MaxEvents]
      BY <1>1, <1>4 DEF Join, TypeOK
    <3> QED
      BY <1>1, <1>4, <3>1, <3>2, <3>3 DEF Join, TypeOK
  <2>3. ListedIsActive'
    BY <1>1, <1>4 DEF Join, IInv, TypeOK, ListedIsActive
  <2>4. FreshInv'
    BY <1>1, <1>4 DEF Join, IInv, TypeOK, FreshInv
  <2>5. QueueInv'
    BY <1>1, <1>4, <2>1 DEF Join, IInv, TypeOK, QueueInv
  <2>6. ReachInv'
    BY <1>1, <1>4, <2>1 DEF Join, IInv, TypeOK, ReachInv
  <2> QED
    BY <2>2, <2>3, <2>4, <2>5, <2>6 DEF IInv
<1>5. CASE Resume(c)
  <2>1. TypeOK'
    <3>1. left' \in [Clients -> 0..Initial]
      <4>1. left \in [Clients -> 0..Initial]
        BY <1>1 DEF TypeOK
      <4>2. left' \in {left, [left EXCEPT ![c] = left[c] - 1]}
        BY <1>2, <1>5 DEF Resume
      <4>3. left' # left => left[c] > 0
        BY <1>2, <1>5 DEF Resume
      <4> QED
        BY <4>1, <4>2, <4>3
    <3>2. gen' \in [Clients -> {"none", "fresh", "ended"} \cup Active]
      <4>1. gen \in [Clients -> {"none", "fresh", "ended"} \cup Active]
        BY <1>1 DEF TypeOK
      <4>2. gen' \in {gen, [gen EXCEPT ![c] = "yielded"], [gen EXCEPT ![c] = "waiting"]}
        BY <1>2, <1>5 DEF Resume
      <4> QED
        BY <4>1, <4>2
    <3>3. UNCHANGED <<clients, registered, sent, queue, last, prunedAt>>
      BY <1>2, <1>5 DEF Resume
    <3> QED
      BY <1>1, <3>1, <3>2, <3>3 DEF TypeOK
  <2>2. ListedIsActive'
    BY <1>1, <1>2, <1>5 DEF Resume, IInv, TypeOK, ListedIsActive, FreshInv
  <2>3. QueueInv'
    BY <1>1, <1>2, <1>5 DEF Resume, IInv, QueueInv
  <2>4. ReachInv'
    BY <1>1, <1>2, <1>5 DEF Resume, IInv, TypeOK, ReachInv, ListedIsActive
  <2>5. FreshInv'
    BY <1>1, <1>2, <1>5 DEF Resume, IInv, TypeOK, FreshInv
  <2> QED
    BY <2>1, <2>2, <2>3, <2>4, <2>5 DEF IInv
<1>6. CASE Heartbeat(c)
  <2>1. TypeOK'
    BY <1>1, <1>6 DEF Heartbeat, TypeOK
  <2>2. ListedIsActive'
    BY <1>1, <1>6 DEF Heartbeat, IInv, TypeOK, ListedIsActive, FreshInv
  <2>3. QueueInv'
    BY <1>1, <1>6 DEF Heartbeat, IInv, QueueInv
  <2>4. ReachInv'
    BY <1>1, <1>6 DEF Heartbeat, IInv, TypeOK, ReachInv, ListedIsActive
  <2>5. FreshInv'
    BY <1>1, <1>6 DEF Heartbeat, IInv, TypeOK, FreshInv
  <2> QED
    BY <2>1, <2>2, <2>3, <2>4, <2>5 DEF IInv
<1>7. CASE CancelWait(c) \/ Close(c)
  <2>1. TypeOK'
    BY <1>1, <1>7 DEF CancelWait, Close, Finish, TypeOK
  <2>2. ListedIsActive'
    BY <1>1, <1>7 DEF CancelWait, Close, Finish, IInv, TypeOK, ListedIsActive, FreshInv
  <2>3. QueueInv'
    BY <1>1, <1>7 DEF CancelWait, Close, Finish, IInv, QueueInv
  <2>4. ReachInv'
    BY <1>1, <1>7 DEF CancelWait, Close, Finish, IInv, TypeOK, ReachInv, ListedIsActive
  <2>5. FreshInv'
    BY <1>1, <1>7 DEF CancelWait, Close, Finish, IInv, TypeOK, FreshInv
  <2> QED
    BY <2>1, <2>2, <2>3, <2>4, <2>5 DEF IInv
<1>8. CASE Discard(c)
  <2>1. TypeOK'
    BY <1>1, <1>8 DEF Discard, TypeOK
  <2>2. ListedIsActive'
    BY <1>1, <1>8 DEF Discard, IInv, TypeOK, ListedIsActive, FreshInv
  <2>3. QueueInv'
    BY <1>1, <1>8 DEF Discard, IInv, QueueInv
  <2>4. ReachInv'
    BY <1>1, <1>8 DEF Discard, IInv, TypeOK, ReachInv, ListedIsActive
  <2>5. FreshInv'
    BY <1>1, <1>8 DEF Discard, IInv, TypeOK, FreshInv
  <2> QED
    BY <2>1, <2>2, <2>3, <2>4, <2>5 DEF IInv
<1> QED
  BY <1>2, <1>3, <1>4, <1>5, <1>6, <1>7, <1>8 DEF ClientStep, Wake

\* Every step preserves the inductive invariant.
THEOREM NextInv == IInv /\ [Next]_vars => IInv'
<1> SUFFICES ASSUME IInv, [Next]_vars PROVE IInv'
  OBVIOUS
<1>1. ASSUME NEW e \in EventTypes, RegisterEvent(e) PROVE IInv'
  BY <1>1 DEF RegisterEvent, clientVars, IInv, TypeOK, ListedIsActive, QueueInv,
     ReachInv, FreshInv
<1>2. ASSUME NEW e \in EventTypes, Broadcast(e) PROVE IInv'
  BY <1>2, BroadcastInv
<1>3. ASSUME NEW c \in Clients, ClientStep(c) PROVE IInv'
  <2>1. CASE Take(c) /\ gen[c] \in Active
    BY <2>1, TakeInv
  <2>2. CASE ~(Take(c) /\ gen[c] \in Active)
    <3>1. UNCHANGED <<queue, sent, prunedAt>>
      BY <1>3, <2>2 DEF ClientStep, Stream, Join, Resume, Wake, Heartbeat, CancelWait,
         Close, Finish, Discard, Active
    <3> QED
      BY <1>3, <3>1, ClientInv
  <2> QED
    BY <2>1, <2>2
<1>4. CASE UNCHANGED vars
  BY <1>4 DEF vars, clientVars, IInv, TypeOK, ListedIsActive, QueueInv, ReachInv, FreshInv
<1> QED
  BY <1>1, <1>2, <1>3, <1>4 DEF Next

\* The inductive invariant holds in every reachable state.
THEOREM Invariance == Spec => []IInv
BY InitInv, NextInv, PTL DEF Spec

\* Type correctness; no queue ever holds more than Buffer events.
THEOREM TypeCorrect == Spec => []TypeOK
<1>1. IInv => TypeOK
  BY DEF IInv
<1> QED
  BY <1>1, Invariance, PTL

\* No listed queue is left behind by a generator that is over or never ran.
THEOREM NoLeak == Spec => []ListedIsActive
<1>1. IInv => ListedIsActive
  BY DEF IInv
<1> QED
  BY <1>1, Invariance, PTL

-----------------------------------------------------------------------------
\* Publishing: the clients whose queues are full are those that lag Buffer
\* events behind.
LEMMA BroadcastPublishes ==
    ASSUME IInv, NEW e \in EventTypes, Broadcast(e)
    PROVE  Log!Publish
<1> DEFINE member == [c \in Clients |-> Member(c)]
           lag    == {c \in Clients : member[c] = "in" /\ Buffer > 0
                                      /\ sent - last[c] >= Buffer}
<1> USE BufferAssumption
<1>1. TypeOK
  BY DEF IInv
<1>2. ASSUME NEW c \in Clients
      PROVE  c \in lag <=> c \in clients /\ Full(c)
  <2>1. CASE c \in clients
    <3>1. gen[c] \in Active /\ member[c] = "in"
      BY <2>1 DEF IInv, ListedIsActive, Member, Active
    <3>2. last[c] + Len(queue[c]) = sent
      BY <2>1 DEF IInv, ReachInv
    <3>3. last[c] \in Nat /\ Len(queue[c]) \in Nat /\ sent \in Nat
      BY <1>1 DEF TypeOK
    <3>4. sent - last[c] = Len(queue[c])
      BY <3>2, <3>3
    <3> QED
      BY <2>1, <3>1, <3>4 DEF Full
  <2>2. CASE c \notin clients
    <3>1. member[c] # "in"
      BY <1>1, <2>2 DEF TypeOK, Member, Active
    <3> QED
      BY <2>2, <3>1
  <2> QED
    BY <2>1, <2>2
<1>3. member' = [c \in Clients |-> IF c \in lag THEN "dropped" ELSE member[c]]
  <2> SUFFICES ASSUME NEW c \in Clients
               PROVE  member'[c] = IF c \in lag THEN "dropped" ELSE member[c]
    OBVIOUS
  <2>1. gen' = gen /\ (c \in clients' <=> c \in clients /\ ~Full(c))
    BY DEF Broadcast
  <2>2. c \in clients => gen[c] \in Active
    BY DEF IInv, ListedIsActive
  <2> HIDE DEF lag
  <2> QED
    BY <1>2, <2>1, <2>2 DEF Member, Active
<1>4. prunedAt' = [c \in Clients |-> IF c \in lag THEN sent ELSE prunedAt[c]]
  <2> HIDE DEF lag
  <2> QED
    BY <1>2 DEF Broadcast
<1>5. sent' = sent + 1 /\ last' = last
  BY DEF Broadcast
<1> QED
  BY <1>3, <1>4, <1>5 DEF Log!Publish, Log!Lagging

\* Yielding a queued event moves the cursor by one, within its reach.
LEMMA TakeReads ==
    ASSUME IInv, NEW c \in Clients, gen[c] \in Active, Take(c)
    PROVE  Log!Read(c)
<1> DEFINE member == [d \in Clients |-> Member(d)]
<1>1. TypeOK /\ last[c] \in Nat /\ queue[c] \in Seq(1..MaxEvents)
  BY DEF IInv, TypeOK
<1>2. Len(queue[c]) >= 1 /\ Len(queue[c]) \in Nat
  BY <1>1, TailShift DEF Take
<1>3. last' = [last EXCEPT ![c] = last[c] + 1]
  <2>1. Head(queue[c]) = last[c] + 1
    BY TakeInv
  <2> QED
    BY <2>1, Zenon DEF Take
<1>4. member' = member
  <2> SUFFICES ASSUME NEW d \in Clients PROVE Member(d)' = Member(d)
    OBVIOUS
  <2>1. clients' = clients /\ gen' = [gen EXCEPT ![c] = "yielded"]
    BY DEF Take
  <2>2. gen'[d] = IF d = c THEN "yielded" ELSE gen[d]
    BY <1>1, <2>1 DEF TypeOK
  <2> QED
    BY <2>1, <2>2 DEF Member, Active
<1>5. CASE c \in clients
  <2>1. member[c] = "in" /\ last[c] < sent
    BY <1>1, <1>2, <1>5 DEF IInv, ReachInv, Member
  <2> QED
    BY <1>3, <1>4, <2>1 DEF Log!Read, Take
<1>6. CASE c \notin clients
  <2>1. member[c] = "dropped" /\ last[c] < prunedAt[c]
    BY <1>1, <1>2, <1>6 DEF IInv, ReachInv, Member
  <2> QED
    BY <1>3, <1>4, <2>1 DEF Log!Read, Take
<1> QED
  BY <1>5, <1>6

\* The end of a generator ends the subscription.
LEMMA EndUnsubscribes ==
    ASSUME IInv, NEW c \in Clients, CancelWait(c) \/ Close(c) \/ Discard(c)
    PROVE  Log!Unsubscribe(c)
<1> DEFINE member == [d \in Clients |-> Member(d)]
<1>1. /\ gen' = [gen EXCEPT ![c] = "ended"]
      /\ UNCHANGED <<sent, last, prunedAt>>
      /\ gen[c] # "ended"
  BY DEF CancelWait, Close, Finish, Discard, Active
<1>2. clients' = clients \ {c}
  BY DEF CancelWait, Close, Finish, Discard, IInv, ListedIsActive, Active
<1>3. member[c] # "gone"
  BY <1>1 DEF Member
<1>4. member' = [member EXCEPT ![c] = "gone"]
  <2> SUFFICES ASSUME NEW d \in Clients
               PROVE  Member(d)' = IF d = c THEN "gone" ELSE Member(d)
    OBVIOUS
  <2>1. gen'[d] = IF d = c THEN "ended" ELSE gen[d]
    BY <1>1 DEF IInv, TypeOK
  <2> QED
    BY <1>2, <2>1 DEF Member, Active
<1> QED
  BY <1>1, <1>3, <1>4 DEF Log!Unsubscribe

\* The first iteration begins the subscription.
LEMMA JoinSubscribes ==
    ASSUME IInv, NEW c \in Clients, Join(c)
    PROVE  Log!Subscribe(c)
<1> DEFINE member == [d \in Clients |-> Member(d)]
<1>1. gen[c] = "fresh" /\ c \notin clients
  BY DEF Join, IInv, ListedIsActive, Active
<1>2. member[c] = "out"
  BY <1>1 DEF Member, Active
<1>3. member' = [member EXCEPT ![c] = "in"]
  <2> SUFFICES ASSUME NEW d \in Clients
               PROVE  Member(d)' = IF d = c THEN "in" ELSE Member(d)
    OBVIOUS
  <2>1. d # c => gen'[d] = gen[d]
    BY DEF Join, IInv, TypeOK
  <2>2. clients' = clients \cup {c}
    BY DEF Join
  <2> QED
    BY <2>1, <2>2 DEF Member
<1> QED
  BY <1>2, <1>3 DEF Log!Subscribe, Join

\* The steps in between do not show.
LEMMA SilentStep ==
    ASSUME IInv, NEW c \in Clients,
           Stream(c) \/ (Resume(c) /\ ~Take(c)) \/ Heartbeat(c)
    PROVE  UNCHANGED Log!vars
<1>1. UNCHANGED <<clients, sent, last, prunedAt>>
  BY DEF Stream, Resume, Heartbeat
<1>2. \A d \in Clients : gen'[d] # gen[d] =>
         \/ gen[d] = "none" /\ gen'[d] = "fresh"
         \/ gen[d] \in Active /\ gen'[d] \in Active
  BY DEF Stream, Resume, Heartbeat, Active, IInv, TypeOK
<1>3. \A d \in Clients : Member(d)' = Member(d)
  BY <1>1, <1>2 DEF Member, Active
<1>4. [d \in Clients |-> Member(d)]' = [d \in Clients |-> Member(d)]
  BY <1>3
<1> QED
  BY <1>1, <1>4 DEF Log!vars

\* Broadcaster's queues implement one log with a cursor for each client.
THEOREM Refines == Spec => ImplementsLog
<1>1. Init => Log!Init
  BY DEF Init, Log!Init, Member, Active
<1>2. IInv /\ [Next]_vars => [Log!Next]_(Log!vars)
  <2> SUFFICES ASSUME IInv, [Next]_vars
               PROVE  Log!Next \/ UNCHANGED Log!vars
    OBVIOUS
  <2>1. ASSUME NEW e \in EventTypes, RegisterEvent(e)
        PROVE  UNCHANGED Log!vars
    BY <2>1 DEF RegisterEvent, clientVars, Log!vars, Member
  <2>2. ASSUME NEW e \in EventTypes, Broadcast(e) PROVE Log!Next
    BY <2>2, BroadcastPublishes DEF Log!Next
  <2>3. ASSUME NEW c \in Clients, ClientStep(c)
        PROVE  Log!Next \/ UNCHANGED Log!vars
    <3>1. CASE Take(c) /\ gen[c] \in Active
      BY <3>1, TakeReads DEF Log!Next
    <3>2. CASE Join(c)
      BY <3>2, JoinSubscribes DEF Log!Next
    <3>3. CASE CancelWait(c) \/ Close(c) \/ Discard(c)
      BY <3>3, EndUnsubscribes DEF Log!Next
    <3>4. CASE Stream(c) \/ (Resume(c) /\ ~Take(c)) \/ Heartbeat(c)
      BY <3>4, SilentStep
    <3> QED
      BY <2>3, <3>1, <3>2, <3>3, <3>4 DEF ClientStep, Wake, Resume, Active
  <2>4. CASE UNCHANGED vars
    BY <2>4 DEF vars, clientVars, Log!vars, Member
  <2> QED
    BY <2>1, <2>2, <2>3, <2>4 DEF Next
<1> QED
  BY <1>1, <1>2, Invariance, PTL DEF Spec, ImplementsLog, Log!Spec
=============================================================================
