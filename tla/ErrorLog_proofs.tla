--------------------------- MODULE ErrorLog_proofs ---------------------------
(***************************************************************************)
(* The safety of ErrorLog for any number of threads, entries, workers,     *)
(* closes and failures.                                                    *)
(***************************************************************************)
EXTENDS ErrorLog, FiniteSetTheorems, TLAPS

-----------------------------------------------------------------------------
(* The inductive invariant.                                                *)

Closing(t) == pc[t] \in {"closePut", "closeJoin"}
Pending    == {t \in Threads : pc[t] = "put"}

\* No sentinel is waiting or in a worker's hands.
NoSentinel ==
    /\ \A i \in 1..Len(queue) : queue[i] # SHUTDOWN
    /\ \A w \in Holders : item[w] # SHUTDOWN

BoundInv == puts + Cardinality(Pending) <= MaxEntries

\* The queue is a queue: what waits in it is younger than what was taken out of it,
\* and nothing is taken twice.
QueueOrder == \A i, j \in 1..Len(queue) :
    i < j /\ queue[i] # SHUTDOWN /\ queue[j] # SHUTDOWN => queue[i] < queue[j]

QueueYoung == \A i \in 1..Len(queue) : queue[i] # SHUTDOWN =>
    /\ queue[i] <= puts
    /\ \A w \in Holders : item[w] < queue[i]
    /\ \A k \in 1..Len(db) : db[k] < queue[i]

HeldOnce == \A w \in Holders : item[w] # SHUTDOWN =>
    /\ item[w] <= puts
    /\ \A v \in Holders : item[v] = item[w] => v = w
    /\ \A k \in 1..Len(db) : db[k] # item[w]

RowsOnce ==
    /\ \A k \in 1..Len(db) : db[k] <= puts
    /\ \A k, l \in 1..Len(db) : db[k] = db[l] => k = l

OrderInv == QueueOrder /\ QueueYoung /\ HeldOnce /\ RowsOnce

\* Without a failure every worker that takes an entry writes it.
FaultInv ==
    faults = 0 =>
        /\ ~workerError
        /\ \A w \in Workers : wpc[w] \in {"getting", "holding"} => conn[w]
        /\ \A e \in 1..puts : \/ \E i \in 1..Len(queue) : queue[i] = e
                              \/ \E w \in Holders : item[w] = e
                              \/ \E k \in 1..Len(db) : db[k] = e

\* As long as close() overlaps nothing there is one worker.
SoleInv ==
    ~overlap =>
        /\ \A v, w \in Workers : Alive(v) /\ Alive(w) => v = w
        /\ \A w \in Holders : item[w] # SHUTDOWN => \A k \in 1..Len(db) : db[k] < item[w]
        /\ \A k, l \in 1..Len(db) : k < l => db[k] < db[l]

\* As long as close() overlaps nothing the sentinel is the last item that the worker
\* which close() has taken will see, and without a worker nothing waits.
CloseInv ==
    ~overlap =>
        /\ worker # NoWorker =>
              Alive(worker) /\ NoSentinel /\ \A t \in Threads : ~Closing(t)
        /\ \A t, u \in Threads : Closing(t) /\ Closing(u) => t = u
        /\ worker = NoWorker =>
              /\ \A t \in Threads : pc[t] \notin {"put", "join"}
              /\ \A t \in Threads : pc[t] = "closePut" =>
                    NoSentinel /\ \E w \in Workers : Alive(w)
              /\ (\A w \in Workers : ~Alive(w)) => Len(queue) = 0
              /\ \A i \in 1..Len(queue) : queue[i] = SHUTDOWN => i = Len(queue)
              /\ \A w \in Holders : item[w] = SHUTDOWN => Len(queue) = 0

\* A log that was never closed has at most one worker, which never ends, and keeps
\* the error of a failed write.
OpenInv ==
    closes = 0 =>
        /\ NoSentinel
        /\ \A t \in Threads : ~Closing(t)
        /\ worker # NoWorker => Alive(worker)
        /\ worker = NoWorker =>
              /\ puts = 0 /\ faults = 0 /\ Pending = {}
              /\ \A w \in Workers : ~Alive(w)
        /\ faults = 0 \/ workerError

\* Where join() has returned, what had been put is in the table, or the error will
\* be raised.
InTable(n) == \A e \in 1..n : \E k \in 1..Len(db) : db[k] = e

Knows(t) == pc[t] \in {"check", "select"} =>
    InTable(due[t]) \/ (pc[t] = "check" /\ workerError /\ closes = 0)

Unmixed == closes = 0 \/ (~overlap /\ faults = 0)

ReadInv ==
    /\ \A t \in Threads : due[t] <= puts
    /\ Unmixed => \A t \in Threads : Knows(t)

IInv ==
    /\ TypeOK /\ BoundInv /\ UnfinishedIsExact /\ OrderInv /\ FaultInv
    /\ SoleInv /\ CloseInv /\ OpenInv /\ ReadInv

-----------------------------------------------------------------------------
(* What the steps do to the queue, the workers' hands and the table.       *)

LEMMA AppendFacts ==
    ASSUME NEW S, NEW q \in Seq(S), NEW x \in S
    PROVE  /\ Append(q, x) \in Seq(S) /\ Len(Append(q, x)) = Len(q) + 1 /\ Len(q) \in Nat
           /\ \A i \in 1..Len(q) : Append(q, x)[i] = q[i] /\ q[i] \in S
           /\ Append(q, x)[Len(q) + 1] = x
OBVIOUS

LEMMA TailFacts ==
    ASSUME NEW S, NEW q \in Seq(S), q # <<>>
    PROVE  /\ Tail(q) \in Seq(S) /\ Len(Tail(q)) = Len(q) - 1 /\ Len(q) \in Nat \ {0}
           /\ \A i \in 1..(Len(q) - 1) : Tail(q)[i] = q[i + 1]
           /\ \A i \in 1..Len(q) : q[i] \in S
           /\ Head(q) = q[1] /\ Head(q) \in S
OBVIOUS

Items == Entries \cup {SHUTDOWN}

LEMMA SeqFacts ==
    ASSUME TypeOK
    PROVE  /\ Len(queue) \in Nat /\ \A i \in 1..Len(queue) : queue[i] \in Items
           /\ Len(db) \in Nat /\ \A k \in 1..Len(db) : db[k] \in Entries
           /\ \A w \in Workers : item[w] \in Items
           /\ Items \subseteq Nat /\ Entries \subseteq Nat \ {0}
BY BoundsAssumption DEF TypeOK, Items, Entries, SHUTDOWN

LEMMA PutEffect ==
    ASSUME TypeOK, NEW x \in Items, Put(x)
    PROVE  /\ queue' \in Seq(Items) /\ Len(queue') = Len(queue) + 1 /\ Len(queue) \in Nat
           /\ \A i \in 1..Len(queue) : queue'[i] = queue[i]
           /\ queue'[Len(queue) + 1] = x
           /\ unfinished' = unfinished + 1
<1>1. queue \in Seq(Items) /\ queue' = Append(queue, x) /\ unfinished' = unfinished + 1
    BY DEF TypeOK, Put, Items
<1>2. QED BY <1>1, AppendFacts

LEMMA GetEffect ==
    ASSUME TypeOK, NEW w \in Workers, Get(w)
    PROVE  /\ queue' \in Seq(Items) /\ Len(queue') = Len(queue) - 1 /\ Len(queue) \in Nat \ {0}
           /\ \A i \in 1..Len(queue') : queue'[i] = queue[i + 1]
           /\ item' \in [Workers -> Items] /\ item'[w] = queue[1]
           /\ \A v \in Workers : v # w => item'[v] = item[v] /\ wpc'[v] = wpc[v]
           /\ wpc[w] = "getting" /\ wpc'[w] = "holding"
           /\ w \notin Holders /\ Holders' = Holders \cup {w}
<1>1. queue \in Seq(Items) /\ queue # <<>> /\ queue' = Tail(queue)
    BY DEF TypeOK, Get, Items
<1>2. item' = [item EXCEPT ![w] = Head(queue)]
    BY DEF Get
<1>3. /\ queue' \in Seq(Items) /\ Len(queue') = Len(queue) - 1 /\ Len(queue) \in Nat \ {0}
      /\ \A i \in 1..Len(queue') : queue'[i] = queue[i + 1]
      /\ Head(queue) = queue[1] /\ Head(queue) \in Items
    BY <1>1, TailFacts
<1>4. /\ item' \in [Workers -> Items] /\ item'[w] = queue[1]
      /\ \A v \in Workers : v # w => item'[v] = item[v]
    BY <1>2, <1>3 DEF TypeOK, Items
<1>5. /\ wpc[w] = "getting" /\ wpc'[w] = "holding"
      /\ \A v \in Workers : v # w => wpc'[v] = wpc[v]
    BY DEF TypeOK, Get
<1>6. QED BY <1>3, <1>4, <1>5 DEF Holders

LEMMA HandleEffect ==
    ASSUME TypeOK, NEW w \in Workers, Handle(w)
    PROVE  /\ item' \in [Workers -> Items]
           /\ \A v \in Workers : v # w => item'[v] = item[v] /\ wpc'[v] = wpc[v]
           /\ wpc[w] = "holding"
           /\ wpc'[w] = IF item[w] = SHUTDOWN THEN "exited" ELSE "getting"
           /\ w \in Holders /\ Holders' = Holders \ {w}
           /\ unfinished' = unfinished - 1
<1>1. item' = [item EXCEPT ![w] = SHUTDOWN] /\ unfinished' = unfinished - 1
    BY DEF Handle, TaskDone
<1>2. /\ item' \in [Workers -> Items]
      /\ \A v \in Workers : v # w => item'[v] = item[v]
    BY <1>1 DEF TypeOK, Items
<1>3. /\ wpc[w] = "holding"
      /\ wpc'[w] = IF item[w] = SHUTDOWN THEN "exited" ELSE "getting"
      /\ \A v \in Workers : v # w => wpc'[v] = wpc[v]
    BY DEF TypeOK, Handle
<1>4. QED BY <1>1, <1>2, <1>3 DEF Holders

\* A round inserts the entry or leaves the table alone.
LEMMA RowEffect ==
    ASSUME TypeOK, NEW w \in Workers, Handle(w)
    PROVE  \/ /\ item[w] # SHUTDOWN /\ item[w] \in Entries
              /\ db' \in Seq(Entries) /\ Len(db') = Len(db) + 1 /\ Len(db) \in Nat
              /\ \A k \in 1..Len(db) : db'[k] = db[k]
              /\ db'[Len(db) + 1] = item[w]
              /\ workerError' = workerError /\ faults' = faults
           \/ /\ item[w] # SHUTDOWN /\ workerError' = TRUE /\ faults' = faults + 1 /\ db' = db
              /\ faults < MaxFaults
           \/ /\ item[w] = SHUTDOWN \/ ~conn[w] \/ workerError
              /\ db' = db /\ workerError' = workerError /\ faults' = faults
<1>1. CASE item[w] # SHUTDOWN /\ db' = Append(db, item[w]) /\ UNCHANGED <<workerError, faults>>
    <2>1. item[w] \in Entries /\ db \in Seq(Entries)
        BY <1>1 DEF TypeOK
    <2>2. /\ Append(db, item[w]) \in Seq(Entries)
          /\ Len(Append(db, item[w])) = Len(db) + 1 /\ Len(db) \in Nat
          /\ \A k \in 1..Len(db) : Append(db, item[w])[k] = db[k]
          /\ Append(db, item[w])[Len(db) + 1] = item[w]
        BY <2>1, AppendFacts
    <2>3. QED BY <1>1, <2>1, <2>2
<1>2. CASE item[w] # SHUTDOWN /\ Fault /\ db' = db
    BY <1>2 DEF Fault
<1>3. CASE (item[w] = SHUTDOWN \/ ~conn[w] \/ workerError) /\ UNCHANGED <<db, workerError, faults>>
    BY <1>3
<1>4. QED BY <1>1, <1>2, <1>3 DEF Handle

\* The steps that move no item.
Quiet ==
    \/ \E t \in Threads :
          \/ AppendBegin(t) \/ FlushBegin(t) \/ FlushJoin(t) \/ FlushCheck(t)
          \/ Select(t) \/ CloseBegin(t) \/ CloseJoin(t)
    \/ \E w \in Workers : Connect(w)
    \/ UNCHANGED vars

LEMMA QuietEffect ==
    ASSUME TypeOK, Quiet
    PROVE  UNCHANGED <<queue, unfinished, puts, db, item>> /\ Holders' = Holders
<1>1. UNCHANGED <<queue, unfinished, puts, db, item>>
    BY DEF Quiet, AppendBegin, FlushBegin, FlushJoin, FlushCheck, Select, CloseBegin,
           CloseJoin, Connect, queueVars, workerVars, vars
<1>2. \A w \in Workers : (wpc'[w] = "holding") = (wpc[w] = "holding")
    <2>1. ASSUME NEW t \in Threads, AppendBegin(t)
          PROVE  \A w \in Workers : (wpc'[w] = "holding") = (wpc[w] = "holding")
        BY <2>1 DEF AppendBegin, EnsureWorker, TypeOK
    <2>2. ASSUME NEW v \in Workers, Connect(v)
          PROVE  \A w \in Workers : (wpc'[w] = "holding") = (wpc[w] = "holding")
        BY <2>2 DEF Connect, TypeOK
    <2>3. QED BY <2>1, <2>2 DEF Quiet, FlushBegin, FlushJoin, FlushCheck, Select, CloseBegin,
           CloseJoin, workerVars, vars
<1>3. QED BY <1>1, <1>2 DEF Holders

LEMMA StepCases ==
    ASSUME [Next]_vars
    PROVE  \/ \E t \in Threads : AppendPut(t) \/ ClosePut(t)
           \/ \E w \in Workers : Get(w) \/ Handle(w)
           \/ Quiet
BY DEF Next, Caller, Worker, Quiet

-----------------------------------------------------------------------------
(* The steps preserve the invariant.                                       *)

LEMMA PendingFacts ==
    ASSUME TypeOK
    PROVE  IsFiniteSet(Pending) /\ Cardinality(Pending) \in Nat
BY ThreadsAssumption, FS_Subset, FS_CardinalityType DEF Pending

\* What was begun can be put.
LEMMA PutFits ==
    ASSUME TypeOK, BoundInv, NEW t \in Threads, pc[t] = "put"
    PROVE  puts + 1 \in Entries /\ puts + 1 \in Items
<1>1. t \in Pending
    BY DEF Pending
<1>2. Cardinality(Pending) \in Nat /\ Cardinality(Pending) # 0
    BY <1>1, PendingFacts, FS_EmptySet
<1>3. QED BY <1>2, BoundsAssumption DEF BoundInv, TypeOK, Entries, Items

LEMMA HoldersFacts == IsFiniteSet(Holders) /\ Cardinality(Holders) \in Nat
<1>1. IsFiniteSet(Workers)
    BY FS_Interval, BoundsAssumption DEF Workers
<1>2. Holders \subseteq Workers
    BY DEF Holders
<1>3. QED BY <1>1, <1>2, FS_Subset, FS_CardinalityType

LEMMA BoundKeep ==
    ASSUME TypeOK, BoundInv, [Next]_vars
    PROVE  BoundInv'
<1>0. IsFiniteSet(Pending) /\ Cardinality(Pending) \in Nat /\ puts \in Nat
    BY PendingFacts DEF TypeOK
<1>1. ASSUME NEW t \in Threads, AppendBegin(t) PROVE BoundInv'
    <2>1. Pending' = Pending \cup {t} /\ puts' = puts
        BY <1>1 DEF AppendBegin, Goto, Pending, TypeOK, queueVars
    <2>2. Cardinality(Pending') <= Cardinality(Pending) + 1
        BY <1>0, <2>1, FS_AddElement
    <2>3. puts + Cardinality(Pending) < MaxEntries
        BY <1>1 DEF AppendBegin, Pending
    <2>4. Cardinality(Pending') \in Nat
        BY <1>0, <2>1, FS_AddElement, FS_CardinalityType
    <2>5. QED BY <1>0, <2>1, <2>2, <2>3, <2>4, BoundsAssumption DEF BoundInv
<1>2. ASSUME NEW t \in Threads, AppendPut(t) PROVE BoundInv'
    <2>1. Pending' = Pending \ {t} /\ t \in Pending /\ puts' = puts + 1
        BY <1>2 DEF AppendPut, Goto, Pending, TypeOK
    <2>2. Cardinality(Pending') = Cardinality(Pending) - 1
        BY <1>0, <2>1, FS_RemoveElement
    <2>3. QED BY <1>0, <2>1, <2>2 DEF BoundInv
<1>3. ASSUME Pending' = Pending, puts' = puts PROVE BoundInv'
    BY <1>3 DEF BoundInv
<1>4. ASSUME NEW t \in Threads,
             FlushBegin(t) \/ FlushJoin(t) \/ FlushCheck(t) \/ Select(t) \/ CloseBegin(t)
             \/ ClosePut(t) \/ CloseJoin(t)
      PROVE  BoundInv'
    BY <1>3, <1>4 DEF FlushBegin, FlushJoin, FlushCheck, Select, CloseBegin, ClosePut, CloseJoin,
        Goto, Pending, TypeOK, queueVars
<1>5. ASSUME NEW w \in Workers, Worker(w) PROVE BoundInv'
    BY <1>3, <1>5 DEF Worker, Connect, Get, Handle, Pending, queueVars, callVars
<1>6. CASE UNCHANGED vars
    BY <1>3, <1>6 DEF vars, queueVars, callVars, Pending
<1>7. QED BY <1>1, <1>2, <1>4, <1>5, <1>6 DEF Next, Caller

LEMMA TypeKeep ==
    ASSUME TypeOK, BoundInv, UnfinishedIsExact, [Next]_vars
    PROVE  TypeOK'
<1> USE DEF Goto
<1>1. ASSUME NEW t \in Threads, AppendBegin(t) PROVE TypeOK'
    <2>1. /\ worker' \in Workers \cup {NoWorker} /\ workerError' \in BOOLEAN
          /\ wpc' \in [Workers -> {"unborn", "connecting", "getting", "holding", "exited"}]
        BY <1>1 DEF AppendBegin, EnsureWorker, TypeOK
    <2>2. overlap' \in BOOLEAN
        BY <1>1 DEF AppendBegin, NoteOverlap, TypeOK, Stray, Alive
    <2>3. QED BY <1>1, <2>1, <2>2 DEF AppendBegin, TypeOK, queueVars
<1>2. ASSUME NEW t \in Threads, AppendPut(t) PROVE TypeOK'
    <2>1. puts + 1 \in Entries /\ puts + 1 \in Items
        BY <1>2, PutFits DEF AppendPut
    <2>2. queue' \in Seq(Items) /\ unfinished' = unfinished + 1
        BY <1>2, <2>1, PutEffect DEF AppendPut
    <2>3. QED BY <1>2, <2>1, <2>2 DEF AppendPut, TypeOK, Items, Entries, workerVars
<1>3. ASSUME NEW t \in Threads, FlushBegin(t) PROVE TypeOK'
    <2>1. overlap' \in BOOLEAN
        BY <1>3 DEF FlushBegin, NoteOverlap, TypeOK, Stray, Alive
    <2>2. QED BY <1>3, <2>1 DEF FlushBegin, TypeOK, queueVars, workerVars
<1>4. ASSUME NEW t \in Threads, FlushJoin(t) \/ FlushCheck(t) \/ Select(t) \/ CloseJoin(t)
      PROVE  TypeOK'
    <2>1. due' \in [Threads -> 0..MaxEntries]
        BY <1>4, BoundsAssumption DEF FlushJoin, FlushCheck, Select, CloseJoin, TypeOK
    <2>2. pc' \in [Threads -> {"idle", "put", "join", "check", "select", "closePut", "closeJoin"}]
        BY <1>4 DEF FlushJoin, FlushCheck, Select, CloseJoin, TypeOK
    <2>3. UNCHANGED <<queueVars, worker, workerError, workerVars, closes, overlap>>
        BY <1>4 DEF FlushJoin, FlushCheck, Select, CloseJoin
    <2>4. QED BY <2>1, <2>2, <2>3 DEF TypeOK, queueVars, workerVars
<1>5. ASSUME NEW t \in Threads, CloseBegin(t) PROVE TypeOK'
    <2>1. overlap' \in BOOLEAN
        BY <1>5 DEF CloseBegin, TypeOK, Stray, Alive
    <2>2. QED BY <1>5, <2>1, BoundsAssumption DEF CloseBegin, TypeOK, queueVars, workerVars
<1>6. ASSUME NEW t \in Threads, ClosePut(t) PROVE TypeOK'
    <2>1. queue' \in Seq(Items) /\ unfinished' = unfinished + 1
        BY <1>6, PutEffect DEF ClosePut, Items
    <2>2. QED BY <1>6, <2>1 DEF ClosePut, TypeOK, Items, workerVars
<1>7. ASSUME NEW w \in Workers, Connect(w) PROVE TypeOK'
    <2>1. /\ wpc' \in [Workers -> {"unborn", "connecting", "getting", "holding", "exited"}]
          /\ conn' \in [Workers -> BOOLEAN]
        BY <1>7 DEF Connect, TypeOK
    <2>2. faults' \in 0..MaxFaults
        BY <1>7, BoundsAssumption DEF Connect, Fault, TypeOK
    <2>3. workerError' \in BOOLEAN
        BY <1>7, Zenon DEF Connect, Fault, TypeOK
    <2>4. QED BY <1>7, <2>1, <2>2, <2>3 DEF Connect, TypeOK, queueVars, callVars
<1>8. ASSUME NEW w \in Workers, Get(w) PROVE TypeOK'
    <2>1. queue' \in Seq(Items) /\ item' \in [Workers -> Items]
        BY <1>8, GetEffect
    <2>2. QED BY <1>8, <2>1 DEF Get, TypeOK, Items, callVars
<1>9. ASSUME NEW w \in Workers, Handle(w) PROVE TypeOK'
    <2>1. unfinished' \in Nat
        <3>1. w \in Holders /\ unfinished' = unfinished - 1
            BY <1>9, HandleEffect
        <3>2. Cardinality(Holders) \in Nat \ {0}
            BY <3>1, HoldersFacts, FS_EmptySet
        <3>3. QED BY <3>1, <3>2, SeqFacts DEF UnfinishedIsExact
    <2>2. /\ db' = db \/ db' \in Seq(Entries)
          /\ faults' = faults \/ (faults' = faults + 1 /\ faults < MaxFaults)
        BY <1>9, RowEffect
    <2>3. item' \in [Workers -> Items]
        BY <1>9, HandleEffect
    <2>4. db' \in Seq(Entries) /\ faults' \in 0..MaxFaults
        BY <2>2, BoundsAssumption DEF TypeOK
    <2>5. workerError' \in BOOLEAN
        BY <1>9, RowEffect, Zenon DEF TypeOK
    <2>6. QED BY <1>9, <2>1, <2>3, <2>4, <2>5 DEF Handle, TypeOK, Items, callVars
<1>10. CASE UNCHANGED vars
    BY <1>10 DEF vars, queueVars, workerVars, callVars, TypeOK
<1>11. QED BY <1>1, <1>2, <1>3, <1>4, <1>5, <1>6, <1>7, <1>8, <1>9, <1>10 DEF Next, Caller, Worker

LEMMA CountKeep ==
    ASSUME TypeOK, BoundInv, UnfinishedIsExact, [Next]_vars
    PROVE  UnfinishedIsExact'
<1>0. IsFiniteSet(Holders) /\ Cardinality(Holders) \in Nat /\ Len(queue) \in Nat
    BY HoldersFacts, SeqFacts
<1>1. ASSUME NEW x \in Items, Put(x), UNCHANGED wpc PROVE UnfinishedIsExact'
    BY <1>0, <1>1, PutEffect DEF UnfinishedIsExact, Holders
<1>2. ASSUME NEW t \in Threads, AppendPut(t) PROVE UnfinishedIsExact'
    BY <1>1, <1>2, PutFits DEF AppendPut, workerVars
<1>3. ASSUME NEW t \in Threads, ClosePut(t) PROVE UnfinishedIsExact'
    BY <1>1, <1>3 DEF ClosePut, workerVars, Items
<1>4. ASSUME NEW w \in Workers, Get(w) PROVE UnfinishedIsExact'
    <2>1. Cardinality(Holders') = Cardinality(Holders) + 1
        BY <1>0, <1>4, GetEffect, FS_AddElement
    <2>2. unfinished' = unfinished
        BY <1>4 DEF Get
    <2>3. Len(queue') = Len(queue) - 1
        BY <1>4, GetEffect
    <2>4. QED BY <1>0, <2>1, <2>2, <2>3 DEF UnfinishedIsExact
<1>5. ASSUME NEW w \in Workers, Handle(w) PROVE UnfinishedIsExact'
    <2>1. Cardinality(Holders') = Cardinality(Holders) - 1
        BY <1>0, <1>5, HandleEffect, FS_RemoveElement
    <2>2. queue' = queue
        BY <1>5 DEF Handle
    <2>3. QED BY <1>0, <1>5, <2>1, <2>2, HandleEffect DEF UnfinishedIsExact
<1>6. CASE Quiet
    BY <1>6, QuietEffect DEF UnfinishedIsExact
<1>7. QED BY <1>2, <1>3, <1>4, <1>5, <1>6, StepCases

LEMMA OrderKeep ==
    ASSUME TypeOK, BoundInv, OrderInv, [Next]_vars
    PROVE  OrderInv'
<1>0. /\ puts \in Nat /\ Len(queue) \in Nat /\ Len(db) \in Nat
      /\ \A i \in 1..Len(queue) : queue[i] \in Nat
      /\ \A k \in 1..Len(db) : db[k] \in Nat \ {0}
      /\ \A w \in Workers : item[w] \in Nat
      /\ Holders \subseteq Workers
    BY SeqFacts DEF TypeOK, Holders
<1>1. ASSUME NEW t \in Threads, AppendPut(t) PROVE OrderInv'
    <2>1. /\ puts' = puts + 1 /\ db' = db /\ item' = item /\ Holders' = Holders
          /\ Len(queue') = Len(queue) + 1
          /\ \A i \in 1..Len(queue) : queue'[i] = queue[i]
          /\ queue'[Len(queue) + 1] = puts + 1
        BY <1>1, PutFits, PutEffect DEF AppendPut, workerVars, Holders
    <2>2. QueueOrder'
        <3> SUFFICES ASSUME NEW i \in 1..Len(queue'), NEW j \in 1..Len(queue'), i < j,
                            queue'[i] # SHUTDOWN, queue'[j] # SHUTDOWN
                     PROVE  queue'[i] < queue'[j]
            BY DEF QueueOrder
        <3>1. i \in 1..Len(queue) /\ queue'[i] = queue[i] /\ queue'[i] <= puts
            BY <1>0, <2>1 DEF OrderInv, QueueYoung
        <3>2. CASE j \in 1..Len(queue)
            BY <2>1, <3>1, <3>2 DEF OrderInv, QueueOrder
        <3>3. CASE j = Len(queue) + 1
            BY <1>0, <2>1, <3>1, <3>3
        <3>4. QED BY <1>0, <2>1, <3>2, <3>3
    <2>3. QueueYoung'
        <3> SUFFICES ASSUME NEW i \in 1..Len(queue'), queue'[i] # SHUTDOWN
                     PROVE  /\ queue'[i] <= puts'
                            /\ \A w \in Holders' : item'[w] < queue'[i]
                            /\ \A k \in 1..Len(db') : db'[k] < queue'[i]
            BY DEF QueueYoung
        <3>1. \/ i \in 1..Len(queue) /\ queue'[i] = queue[i]
              \/ queue'[i] = puts + 1
            BY <1>0, <2>1
        <3>2. \A w \in Holders : item[w] <= puts
            BY <1>0 DEF OrderInv, HeldOnce, SHUTDOWN
        <3>3. CASE i \in 1..Len(queue) /\ queue'[i] = queue[i]
            BY <1>0, <2>1, <3>3 DEF OrderInv, QueueYoung
        <3>4. CASE queue'[i] = puts + 1
            BY <1>0, <2>1, <3>2, <3>4 DEF OrderInv, RowsOnce
        <3>5. QED BY <3>1, <3>3, <3>4
    <2>4. HeldOnce'
        BY <1>0, <2>1 DEF OrderInv, QueueOrder, QueueYoung, HeldOnce, RowsOnce
    <2>5. RowsOnce'
        BY <1>0, <2>1 DEF OrderInv, QueueOrder, QueueYoung, HeldOnce, RowsOnce
    <2>6. QED BY <2>2, <2>3, <2>4, <2>5 DEF OrderInv
<1>2. ASSUME NEW t \in Threads, ClosePut(t) PROVE OrderInv'
    <2>1. /\ puts' = puts /\ db' = db /\ item' = item /\ Holders' = Holders
          /\ Len(queue') = Len(queue) + 1
          /\ \A i \in 1..Len(queue) : queue'[i] = queue[i]
          /\ queue'[Len(queue) + 1] = SHUTDOWN
        BY <1>2, PutEffect DEF ClosePut, workerVars, Holders, Items
    <2>2. QueueOrder'
        <3> SUFFICES ASSUME NEW i \in 1..Len(queue'), NEW j \in 1..Len(queue'), i < j,
                            queue'[i] # SHUTDOWN, queue'[j] # SHUTDOWN
                     PROVE  queue'[i] < queue'[j]
            BY DEF QueueOrder
        <3>1. i \in 1..Len(queue) /\ queue'[i] = queue[i] /\ queue'[i] <= puts
            BY <1>0, <2>1 DEF OrderInv, QueueYoung
        <3>2. \/ j \in 1..Len(queue) /\ queue'[j] = queue[j]
              \/ queue'[j] = SHUTDOWN
            BY <1>0, <2>1
        <3>3. QED BY <1>0, <3>1, <3>2 DEF OrderInv, QueueOrder
    <2>3. QueueYoung'
        <3> SUFFICES ASSUME NEW i \in 1..Len(queue'), queue'[i] # SHUTDOWN
                     PROVE  /\ queue'[i] <= puts'
                            /\ \A w \in Holders' : item'[w] < queue'[i]
                            /\ \A k \in 1..Len(db') : db'[k] < queue'[i]
            BY DEF QueueYoung
        <3>1. \/ i \in 1..Len(queue) /\ queue'[i] = queue[i]
              \/ queue'[i] = SHUTDOWN
            BY <1>0, <2>1
        <3>2. \A w \in Holders : item[w] <= puts
            BY <1>0 DEF OrderInv, HeldOnce, SHUTDOWN
        <3>3. CASE i \in 1..Len(queue) /\ queue'[i] = queue[i]
            BY <1>0, <2>1, <3>3 DEF OrderInv, QueueYoung
        <3>4. CASE queue'[i] = SHUTDOWN
            BY <1>0, <2>1, <3>2, <3>4 DEF OrderInv, RowsOnce
        <3>5. QED BY <3>1, <3>3, <3>4
    <2>4. HeldOnce'
        BY <1>0, <2>1 DEF OrderInv, QueueOrder, QueueYoung, HeldOnce, RowsOnce
    <2>5. RowsOnce'
        BY <1>0, <2>1 DEF OrderInv, QueueOrder, QueueYoung, HeldOnce, RowsOnce
    <2>6. QED BY <2>2, <2>3, <2>4, <2>5 DEF OrderInv
<1>3. ASSUME NEW w \in Workers, Get(w) PROVE OrderInv'
    <2>1. /\ puts' = puts /\ db' = db
          /\ Len(queue') = Len(queue) - 1 /\ Len(queue) # 0
          /\ \A i \in 1..Len(queue') : queue'[i] = queue[i + 1]
          /\ item'[w] = queue[1] /\ \A v \in Holders : v # w /\ item'[v] = item[v]
          /\ Holders' = Holders \cup {w}
        BY <1>3, GetEffect DEF Get, Holders
    <2>2. QueueOrder'
        <3> SUFFICES ASSUME NEW i \in 1..Len(queue'), NEW j \in 1..Len(queue'), i < j,
                            queue'[i] # SHUTDOWN, queue'[j] # SHUTDOWN
                     PROVE  queue'[i] < queue'[j]
            BY DEF QueueOrder
        <3>1. /\ i + 1 \in 1..Len(queue) /\ queue'[i] = queue[i + 1]
              /\ j + 1 \in 1..Len(queue) /\ queue'[j] = queue[j + 1] /\ i + 1 < j + 1
            BY <1>0, <2>1
        <3>2. QED BY <3>1 DEF OrderInv, QueueOrder
    <2>3. QueueYoung'
        <3> SUFFICES ASSUME NEW i \in 1..Len(queue'), queue'[i] # SHUTDOWN
                     PROVE  /\ queue'[i] <= puts'
                            /\ \A v \in Holders' : item'[v] < queue'[i]
                            /\ \A k \in 1..Len(db') : db'[k] < queue'[i]
            BY DEF QueueYoung
        <3>1. i + 1 \in 1..Len(queue) /\ queue'[i] = queue[i + 1] /\ 1 < i + 1 /\ queue'[i] \in Nat
            BY <1>0, <2>1
        <3>2. item'[w] < queue'[i]
            <4>1. CASE queue[1] = SHUTDOWN
                BY <2>1, <3>1, <4>1 DEF SHUTDOWN
            <4>2. CASE queue[1] # SHUTDOWN
                BY <1>0, <2>1, <3>1, <4>2 DEF OrderInv, QueueOrder
            <4>3. QED BY <4>1, <4>2
        <3>3. QED BY <2>1, <3>1, <3>2 DEF OrderInv, QueueYoung
    <2>4. HeldOnce'
        BY <1>0, <2>1 DEF OrderInv, QueueOrder, QueueYoung, HeldOnce, RowsOnce
    <2>5. RowsOnce'
        BY <1>0, <2>1 DEF OrderInv, QueueOrder, QueueYoung, HeldOnce, RowsOnce
    <2>6. QED BY <2>2, <2>3, <2>4, <2>5 DEF OrderInv
<1>4. ASSUME NEW w \in Workers, Handle(w) PROVE OrderInv'
    <2>1. /\ puts' = puts /\ queue' = queue /\ w \in Holders /\ Holders' = Holders \ {w}
          /\ \A v \in Holders' : item'[v] = item[v]
        BY <1>4, HandleEffect DEF Handle, Holders
    <2>2. \/ db' = db
          \/ /\ item[w] # SHUTDOWN /\ Len(db') = Len(db) + 1
             /\ \A k \in 1..Len(db) : db'[k] = db[k]
             /\ db'[Len(db) + 1] = item[w]
        BY <1>4, RowEffect
    <2>3. QueueOrder'
        BY <1>0, <2>1, <2>2 DEF OrderInv, QueueOrder, QueueYoung, HeldOnce, RowsOnce
    <2>4. QueueYoung'
        BY <1>0, <2>1, <2>2 DEF OrderInv, QueueOrder, QueueYoung, HeldOnce, RowsOnce
    <2>5. HeldOnce'
        BY <1>0, <2>1, <2>2 DEF OrderInv, QueueOrder, QueueYoung, HeldOnce, RowsOnce
    <2>6. RowsOnce'
        <3>1. CASE db' = db
            BY <2>1, <3>1 DEF OrderInv, RowsOnce
        <3>2. CASE db' # db
            <4>1. \A k \in 1..Len(db') :
                     \/ k \in 1..Len(db) /\ db'[k] = db[k]
                     \/ k = Len(db) + 1 /\ db'[k] = item[w]
                BY <1>0, <2>2, <3>2
            <4>2. item[w] <= puts /\ \A k \in 1..Len(db) : db[k] # item[w]
                BY <2>1, <2>2, <3>2 DEF OrderInv, HeldOnce
            <4>3. QED BY <1>0, <2>1, <4>1, <4>2 DEF OrderInv, RowsOnce
        <3>3. QED BY <3>1, <3>2
    <2>7. QED BY <2>3, <2>4, <2>5, <2>6 DEF OrderInv
<1>5. CASE Quiet
    BY <1>5, QuietEffect DEF OrderInv, QueueOrder, QueueYoung, HeldOnce, RowsOnce
<1>6. QED BY <1>1, <1>2, <1>3, <1>4, <1>5, StepCases

LEMMA FaultKeep ==
    ASSUME TypeOK, BoundInv, FaultInv, [Next]_vars
    PROVE  FaultInv'
<1>0. faults \in Nat /\ puts \in Nat /\ Len(queue) \in Nat /\ Len(db) \in Nat
    BY SeqFacts DEF TypeOK
<1> DEFINE Placed(e) == \/ \E i \in 1..Len(queue) : queue[i] = e
                        \/ \E w \in Holders : item[w] = e
                        \/ \E k \in 1..Len(db) : db[k] = e
<1>1. ASSUME NEW t \in Threads, AppendPut(t) PROVE FaultInv'
    <2>1. /\ puts' = puts + 1 /\ UNCHANGED <<db, item, conn, wpc, faults, workerError>>
          /\ Holders' = Holders /\ Len(queue') = Len(queue) + 1
          /\ \A i \in 1..Len(queue) : queue'[i] = queue[i]
          /\ queue'[Len(queue) + 1] = puts + 1
        BY <1>1, PutFits, PutEffect DEF AppendPut, workerVars, Holders
    <2>2. ASSUME NEW e \in 1..puts', \A d \in 1..puts : Placed(d) PROVE Placed(e)'
        <3>1. CASE e \in 1..puts
            BY <1>0, <2>1, <2>2, <3>1
        <3>2. CASE e = puts + 1
            BY <1>0, <2>1, <3>2
        <3>3. QED BY <1>0, <2>1, <3>1, <3>2
    <2>3. QED BY <2>1, <2>2 DEF FaultInv
<1>2. ASSUME NEW t \in Threads, ClosePut(t) PROVE FaultInv'
    <2>1. /\ UNCHANGED <<puts, db, item, conn, wpc, faults, workerError>>
          /\ Holders' = Holders /\ Len(queue') = Len(queue) + 1
          /\ \A i \in 1..Len(queue) : queue'[i] = queue[i]
        BY <1>2, PutEffect DEF ClosePut, workerVars, Holders, Items
    <2>2. ASSUME NEW e \in 1..puts', \A d \in 1..puts : Placed(d) PROVE Placed(e)'
        BY <1>0, <2>1, <2>2
    <2>3. QED BY <2>1, <2>2 DEF FaultInv
<1>3. ASSUME NEW w \in Workers, Get(w) PROVE FaultInv'
    <2>1. /\ UNCHANGED <<puts, db, conn, faults, workerError>>
          /\ Len(queue') = Len(queue) - 1 /\ Len(queue) # 0
          /\ \A i \in 1..Len(queue') : queue'[i] = queue[i + 1]
          /\ item'[w] = queue[1] /\ \A v \in Holders : v # w /\ item'[v] = item[v]
          /\ Holders' = Holders \cup {w}
          /\ wpc[w] = "getting" /\ \A v \in Workers : v # w => wpc'[v] = wpc[v]
        BY <1>3, GetEffect DEF Get, Holders
    <2>2. ASSUME NEW e \in 1..puts', \A d \in 1..puts : Placed(d) PROVE Placed(e)'
        <3>1. Placed(e)
            BY <2>1, <2>2
        <3>2. ASSUME NEW i \in 1..Len(queue), queue[i] = e PROVE Placed(e)'
            <4>1. CASE i = 1
                BY <2>1, <3>2, <4>1
            <4>2. CASE i # 1
                <5>1. i - 1 \in 1..Len(queue') /\ (i - 1) + 1 = i
                    BY <1>0, <2>1, <4>2
                <5>2. QED BY <2>1, <3>2, <5>1
            <4>3. QED BY <4>1, <4>2
        <3>3. QED BY <2>1, <3>1, <3>2
    <2>3. QED BY <2>1, <2>2 DEF FaultInv
<1>4. ASSUME NEW w \in Workers, Handle(w), faults' = 0 PROVE FaultInv'
    <2>1. /\ UNCHANGED <<puts, queue, conn>>
          /\ w \in Holders /\ Holders' = Holders \ {w}
          /\ wpc[w] = "holding" /\ \A v \in Workers : v # w => wpc'[v] = wpc[v]
          /\ \A v \in Holders' : item'[v] = item[v]
        BY <1>4, HandleEffect DEF Handle, Holders
    <2>2. /\ faults = 0
          /\ \/ /\ Len(db') = Len(db) + 1 /\ \A k \in 1..Len(db) : db'[k] = db[k]
                /\ db'[Len(db) + 1] = item[w]
             \/ db' = db /\ item[w] = SHUTDOWN
        <3>1. faults' # faults + 1
            BY <1>0, <1>4
        <3>2. faults' = faults
            BY <1>4, <3>1, RowEffect, Zenon
        <3>3. conn[w] /\ ~workerError
            BY <1>4, <2>1, <3>2 DEF FaultInv
        <3>4. QED BY <1>4, <3>1, <3>2, <3>3, RowEffect, Zenon
    <2>3. ~workerError'
        <3>1. faults' # faults + 1
            BY <1>0, <1>4
        <3>2. workerError' = workerError
            BY <1>4, <3>1, RowEffect, Zenon
        <3>3. QED BY <2>2, <3>2 DEF FaultInv
    <2>4. ASSUME NEW e \in 1..puts', \A d \in 1..puts : Placed(d) PROVE Placed(e)'
        <3>1. Placed(e)
            BY <2>1, <2>4
        <3>2. e # SHUTDOWN
            BY DEF SHUTDOWN
        <3>3. ASSUME NEW k \in 1..Len(db), db[k] = e PROVE Placed(e)'
            BY <1>0, <2>2, <3>3
        <3>4. ASSUME NEW v \in Holders, item[v] = e PROVE Placed(e)'
            BY <1>0, <2>1, <2>2, <3>2, <3>4
        <3>5. QED BY <2>1, <3>1, <3>3, <3>4
    <2>5. QED BY <2>1, <2>2, <2>3, <2>4 DEF FaultInv
<1>5. ASSUME Quiet, faults' = 0 PROVE FaultInv'
    <2>1. UNCHANGED <<queue, puts, db, item>> /\ Holders' = Holders
        BY <1>5, QuietEffect
    <2>2. ASSUME NEW t \in Threads, AppendBegin(t) PROVE FaultInv'
        BY <2>1, <2>2 DEF AppendBegin, EnsureWorker, TypeOK, FaultInv
    <2>3. ASSUME NEW w \in Workers, Connect(w) PROVE FaultInv'
        <3>1. /\ faults' = faults /\ workerError' = workerError
              /\ conn' = [conn EXCEPT ![w] = TRUE] /\ wpc' = [wpc EXCEPT ![w] = "getting"]
            BY <1>0, <1>5, <2>3 DEF Connect, Fault
        <3>2. QED BY <2>1, <3>1 DEF TypeOK, FaultInv
    <2>4. ASSUME UNCHANGED <<wpc, conn, faults, workerError>> PROVE FaultInv'
        BY <2>1, <2>4 DEF FaultInv
    <2>5. QED BY <1>5, <2>2, <2>3, <2>4 DEF Quiet, FlushBegin, FlushJoin, FlushCheck, Select,
                  CloseBegin, CloseJoin, workerVars, vars
<1>6. CASE faults' # 0
    BY <1>6 DEF FaultInv
<1>7. QED BY <1>1, <1>2, <1>3, <1>4, <1>5, <1>6, StepCases

\* What has overlapped stays so.
LEMMA OverlapStays ==
    ASSUME TypeOK, [Next]_vars, ~overlap'
    PROVE  ~overlap
<1>1. ASSUME NEW t \in Threads,
             AppendBegin(t) \/ FlushBegin(t) \/ CloseBegin(t) PROVE ~overlap
    BY <1>1 DEF AppendBegin, FlushBegin, CloseBegin, NoteOverlap
<1>2. ASSUME overlap' = overlap PROVE ~overlap
    BY <1>2
<1>3. QED BY <1>1, <1>2 DEF Next, Caller, Worker, AppendPut, FlushJoin, FlushCheck, Select,
              ClosePut, CloseJoin, Connect, Get, Handle, vars

LEMMA SoleKeep ==
    ASSUME TypeOK, BoundInv, OrderInv, SoleInv, [Next]_vars
    PROVE  SoleInv'
<1> SUFFICES ASSUME ~overlap' PROVE SoleInv'
    BY DEF SoleInv
<1>0. /\ ~overlap /\ Len(queue) \in Nat /\ Len(db) \in Nat
      /\ \A k \in 1..Len(db) : db[k] \in Nat
      /\ \A w \in Workers : item[w] \in Nat
    BY OverlapStays, SeqFacts
<1>1. ASSUME NEW t \in Threads, AppendPut(t) \/ ClosePut(t) PROVE SoleInv'
    <2>1. UNCHANGED <<wpc, item, db>>
        BY <1>1 DEF AppendPut, ClosePut, workerVars
    <2>2. QED BY <1>0, <2>1 DEF SoleInv, Alive, Holders
<1>2. ASSUME NEW w \in Workers, Get(w) PROVE SoleInv'
    <2>1. /\ db' = db /\ Len(queue) # 0
          /\ item'[w] = queue[1] /\ \A v \in Holders : v # w /\ item'[v] = item[v]
          /\ Holders' = Holders \cup {w}
          /\ wpc[w] = "getting" /\ wpc'[w] = "holding"
          /\ \A v \in Workers : v # w => wpc'[v] = wpc[v]
        BY <1>2, GetEffect DEF Get, Holders
    <2>2. \A v \in Workers : Alive(v)' = Alive(v)
        BY <2>1 DEF Alive
    <2>3. item'[w] # SHUTDOWN => \A k \in 1..Len(db) : db[k] < item'[w]
        BY <1>0, <2>1 DEF OrderInv, QueueYoung
    <2>4. QED BY <1>0, <2>1, <2>2, <2>3 DEF SoleInv
<1>3. ASSUME NEW w \in Workers, Handle(w) PROVE SoleInv'
    <2>1. /\ w \in Holders /\ Holders' = Holders \ {w}
          /\ wpc[w] = "holding" /\ \A v \in Workers : v # w => wpc'[v] = wpc[v]
        BY <1>3, HandleEffect
    <2>2. \A v \in Workers : Alive(v)' => Alive(v)
        BY <2>1 DEF Alive
    <2>3. Holders' = {}
        BY <1>0, <2>1 DEF SoleInv, Holders, Alive
    <2>4. \/ db' = db
          \/ /\ item[w] # SHUTDOWN /\ Len(db') = Len(db) + 1
             /\ \A k \in 1..Len(db) : db'[k] = db[k]
             /\ db'[Len(db) + 1] = item[w]
        BY <1>3, RowEffect
    <2>5. ASSUME NEW k \in 1..Len(db'), NEW l \in 1..Len(db'), k < l PROVE db'[k] < db'[l]
        <3>1. CASE db' = db
            BY <1>0, <2>5, <3>1 DEF SoleInv
        <3>2. CASE db' # db /\ l \in 1..Len(db)
            BY <1>0, <2>4, <2>5, <3>2 DEF SoleInv
        <3>3. CASE db' # db /\ l = Len(db) + 1
            BY <1>0, <2>1, <2>4, <2>5, <3>3 DEF SoleInv
        <3>4. QED BY <1>0, <2>4, <3>1, <3>2, <3>3
    <2>6. QED BY <1>0, <2>2, <2>3, <2>5 DEF SoleInv
<1>4. ASSUME Quiet PROVE SoleInv'
    <2>1. UNCHANGED <<db, item>> /\ Holders' = Holders
        BY <1>4, QuietEffect
    <2>2. ASSUME \A v, w \in Workers : Alive(v)' /\ Alive(w)' => v = w PROVE SoleInv'
        BY <1>0, <2>1, <2>2 DEF SoleInv
    <2>3. ASSUME NEW t \in Threads, AppendBegin(t) PROVE SoleInv'
        <3>1. CASE HasLiveWorker
            BY <1>0, <2>2, <2>3, <3>1 DEF AppendBegin, EnsureWorker, SoleInv, Alive
        <3>2. CASE ~HasLiveWorker
            <4>1. \A w \in Workers : ~Alive(w)
                BY <2>3, <3>2 DEF AppendBegin, NoteOverlap, HasLiveWorker, Stray
            <4>2. PICK w \in Workers : wpc' = [wpc EXCEPT ![w] = "connecting"]
                BY <2>3, <3>2 DEF AppendBegin, EnsureWorker
            <4>3. \A v \in Workers : Alive(v)' => v = w
                BY <4>1, <4>2 DEF Alive, TypeOK
            <4>4. QED BY <2>2, <4>3
        <3>3. QED BY <3>1, <3>2
    <2>4. ASSUME NEW w \in Workers, Connect(w) PROVE SoleInv'
        <3>1. \A v \in Workers : Alive(v)' = Alive(v)
            BY <2>4 DEF Connect, Alive, TypeOK
        <3>2. QED BY <1>0, <2>2, <3>1 DEF SoleInv
    <2>5. ASSUME UNCHANGED wpc PROVE SoleInv'
        BY <1>0, <2>2, <2>5 DEF SoleInv, Alive
    <2>6. QED BY <1>4, <2>3, <2>4, <2>5 DEF Quiet, FlushBegin, FlushJoin, FlushCheck, Select,
                  CloseBegin, CloseJoin, workerVars, vars
<1>5. QED BY <1>1, <1>2, <1>3, <1>4, StepCases

\* _ensure_worker keeps a worker that lives, and otherwise starts one.
LEMMA EnsureEffect ==
    ASSUME TypeOK, EnsureWorker
    PROVE  /\ worker' \in Workers /\ Alive(worker)' /\ worker' # NoWorker
           /\ \A w \in Workers : Alive(w)' => Alive(w) \/ w = worker'
           /\ worker' # worker => workerError' = FALSE
           /\ worker # NoWorker /\ Alive(worker) => worker' = worker /\ workerError' = workerError
<1>1. CASE HasLiveWorker
    <2>1. UNCHANGED <<worker, workerError, wpc>>
        BY <1>1 DEF EnsureWorker
    <2>2. QED BY <1>1, <2>1 DEF HasLiveWorker, Alive, Workers, NoWorker
<1>2. CASE ~HasLiveWorker
    <2>1. PICK w \in Workers : worker' = w /\ workerError' = FALSE
                               /\ wpc' = [wpc EXCEPT ![w] = "connecting"]
        BY <1>2 DEF EnsureWorker
    <2>2. wpc'[w] = "connecting" /\ \A v \in Workers : v # w => wpc'[v] = wpc[v]
        BY <2>1 DEF TypeOK
    <2>3. worker = NoWorker \/ ~Alive(worker)
        BY <1>2 DEF HasLiveWorker, TypeOK
    <2>4. QED BY <2>1, <2>2, <2>3 DEF Alive, Workers, NoWorker
<1>3. QED BY <1>1, <1>2

LEMMA CloseKeep ==
    ASSUME TypeOK, BoundInv, SoleInv, CloseInv, [Next]_vars
    PROVE  CloseInv'
<1> SUFFICES ASSUME ~overlap' PROVE CloseInv'
    BY DEF CloseInv
<1>0. /\ ~overlap /\ Len(queue) \in Nat
      /\ worker # NoWorker => worker \in Workers
    BY OverlapStays, SeqFacts DEF TypeOK
<1>1. ASSUME NEW t \in Threads, AppendBegin(t) PROVE CloseInv'
    <2>1. UNCHANGED <<queue, item>> /\ Holders' = Holders
        BY <1>1, QuietEffect DEF Quiet
    <2>2. worker' # NoWorker /\ Alive(worker)'
        BY <1>1, EnsureEffect DEF AppendBegin
    <2>3. \A u \in Threads : ~Closing(u) /\ ~Closing(u)'
        BY <1>1 DEF AppendBegin, NoteOverlap, Goto, Closing, TypeOK
    <2>4. NoSentinel
        <3>1. CASE worker # NoWorker
            BY <1>0, <3>1 DEF CloseInv
        <3>2. CASE worker = NoWorker
            <4>1. \A w \in Workers : ~Alive(w)
                <5>1. ~Stray
                    BY <1>1 DEF AppendBegin, NoteOverlap
                <5>2. QED BY <3>2, <5>1 DEF Stray, Workers, NoWorker
            <4>2. Len(queue) = 0 /\ Holders = {}
                BY <1>0, <3>2, <4>1 DEF CloseInv, Holders, Alive
            <4>3. QED BY <4>2 DEF NoSentinel
        <3>3. QED BY <3>1, <3>2
    <2>5. NoSentinel'
        BY <2>1, <2>4 DEF NoSentinel
    <2>6. QED BY <2>2, <2>3, <2>5 DEF CloseInv
<1>2. ASSUME NEW t \in Threads, AppendPut(t) PROVE CloseInv'
    <2>1. /\ UNCHANGED <<item, wpc, worker>> /\ Holders' = Holders
          /\ Len(queue') = Len(queue) + 1
          /\ \A i \in 1..Len(queue) : queue'[i] = queue[i]
          /\ queue'[Len(queue) + 1] # SHUTDOWN
        BY <1>2, PutFits, PutEffect, SeqFacts DEF AppendPut, workerVars, Holders, SHUTDOWN
    <2>2. worker # NoWorker
        BY <1>0, <1>2 DEF AppendPut, CloseInv
    <2>3. \A u \in Threads : Closing(u)' => Closing(u)
        BY <1>2 DEF AppendPut, Goto, Closing, TypeOK
    <2>4. NoSentinel'
        BY <1>0, <2>1, <2>2 DEF CloseInv, NoSentinel
    <2>5. QED BY <1>0, <2>1, <2>2, <2>3, <2>4 DEF CloseInv, Alive
<1>3. ASSUME NEW t \in Threads, ClosePut(t) PROVE CloseInv'
    <2>1. /\ UNCHANGED <<item, wpc, worker>> /\ Holders' = Holders
          /\ Len(queue') = Len(queue) + 1
          /\ \A i \in 1..Len(queue) : queue'[i] = queue[i]
        BY <1>3, PutEffect DEF ClosePut, workerVars, Holders, Items
    <2>2. Closing(t) /\ pc[t] = "closePut"
        BY <1>3 DEF ClosePut, Closing
    <2>3. worker = NoWorker /\ NoSentinel /\ \E w \in Workers : Alive(w)
        BY <1>0, <2>2 DEF CloseInv
    <2>4. /\ \A u \in Threads : u # t => pc'[u] = pc[u] /\ ~Closing(u)
          /\ pc'[t] = "closeJoin"
        BY <1>0, <1>3, <2>2 DEF ClosePut, Goto, TypeOK, CloseInv
    <2>5. \A u, v \in Threads : Closing(u)' /\ Closing(v)' => u = v
        BY <2>4 DEF Closing
    <2>6. \A u \in Threads : pc'[u] \notin {"put", "join", "closePut"}
        BY <1>0, <2>3, <2>4 DEF CloseInv, Closing
    <2>7. /\ \E w \in Workers : Alive(w)'
          /\ \A i \in 1..Len(queue') : queue'[i] = SHUTDOWN => i = Len(queue')
          /\ \A w \in Holders' : item'[w] # SHUTDOWN
        BY <1>0, <2>1, <2>3 DEF NoSentinel, Alive
    <2>8. QED BY <2>1, <2>3, <2>5, <2>6, <2>7 DEF CloseInv
<1>4. ASSUME NEW w \in Workers, Get(w) PROVE CloseInv'
    <2>1. /\ UNCHANGED <<pc, worker>>
          /\ Len(queue') = Len(queue) - 1 /\ Len(queue) # 0
          /\ \A i \in 1..Len(queue') : queue'[i] = queue[i + 1]
          /\ item'[w] = queue[1] /\ \A v \in Holders : v # w /\ item'[v] = item[v]
          /\ Holders' = Holders \cup {w}
          /\ wpc[w] = "getting" /\ wpc'[w] = "holding"
          /\ \A v \in Workers : v # w => wpc'[v] = wpc[v]
        BY <1>4, GetEffect DEF Get, Holders, callVars
    <2>2. \A v \in Workers : Alive(v)' = Alive(v)
        BY <2>1 DEF Alive
    <2>3. NoSentinel => NoSentinel'
        <3>1. ASSUME NoSentinel PROVE NoSentinel'
            BY <1>0, <2>1, <3>1 DEF NoSentinel
        <3>2. QED BY <3>1
    <2>4. CASE worker # NoWorker
        BY <1>0, <2>1, <2>2, <2>3, <2>4 DEF CloseInv, Closing
    <2>5. CASE worker = NoWorker
        <3>1. Holders = {}
            BY <1>0, <2>1 DEF SoleInv, Alive, Holders
        <3>2. \A i \in 1..Len(queue') : queue'[i] = SHUTDOWN => i = Len(queue')
            BY <1>0, <2>1, <2>5 DEF CloseInv
        <3>3. \A v \in Holders' : item'[v] = SHUTDOWN => Len(queue') = 0
            BY <1>0, <2>1, <2>5, <3>1 DEF CloseInv
        <3>4. \E v \in Workers : Alive(v)'
            BY <2>1 DEF Alive
        <3>5. QED BY <1>0, <2>1, <2>2, <2>3, <2>5, <3>2, <3>3, <3>4 DEF CloseInv, Closing
    <2>6. QED BY <2>4, <2>5
<1>5. ASSUME NEW w \in Workers, Handle(w) PROVE CloseInv'
    <2>1. /\ UNCHANGED <<queue, worker, pc>>
          /\ w \in Holders /\ Holders' = Holders \ {w}
          /\ wpc[w] = "holding" /\ wpc'[w] = IF item[w] = SHUTDOWN THEN "exited" ELSE "getting"
          /\ \A v \in Workers : v # w => wpc'[v] = wpc[v]
          /\ \A v \in Holders' : item'[v] = item[v]
        BY <1>5, HandleEffect DEF Handle, Holders, callVars
    <2>2. /\ item[w] # SHUTDOWN => \A v \in Workers : Alive(v)' = Alive(v)
          /\ \A v \in Workers : Alive(v)' => Alive(v)
        BY <2>1 DEF Alive
    <2>3. NoSentinel => NoSentinel'
        BY <2>1 DEF NoSentinel
    <2>4. NoSentinel => item[w] # SHUTDOWN
        BY <2>1 DEF NoSentinel
    <2>5. CASE worker # NoWorker
        BY <1>0, <2>1, <2>2, <2>3, <2>4, <2>5 DEF CloseInv, Closing
    <2>6. CASE worker = NoWorker
        <3>1. \A t \in Threads : pc'[t] = "closePut" =>
                 NoSentinel' /\ \E v \in Workers : Alive(v)'
            BY <1>0, <2>1, <2>2, <2>3, <2>4, <2>6 DEF CloseInv
        <3>2. (\A v \in Workers : ~Alive(v)') => Len(queue') = 0
            <4>1. CASE item[w] = SHUTDOWN
                BY <1>0, <2>1, <2>6, <4>1 DEF CloseInv
            <4>2. CASE item[w] # SHUTDOWN
                BY <2>1, <2>2, <4>2 DEF Alive
            <4>3. QED BY <4>1, <4>2
        <3>3. QED BY <1>0, <2>1, <2>6, <3>1, <3>2 DEF CloseInv, Closing
    <2>7. QED BY <2>5, <2>6
<1>6. ASSUME NEW t \in Threads, CloseBegin(t) PROVE CloseInv'
    <2>1. UNCHANGED <<queue, item, wpc>> /\ Holders' = Holders /\ worker' = NoWorker
        BY <1>6, QuietEffect DEF Quiet, CloseBegin, workerVars
    <2>2. \A u \in Threads : pc[u] = "idle"
        BY <1>6 DEF CloseBegin
    <2>3. \A u \in Threads : u # t => pc'[u] = "idle"
        BY <1>6, <2>2 DEF CloseBegin, Goto, TypeOK
    <2>4. NoSentinel' = NoSentinel
        BY <2>1 DEF NoSentinel
    <2>5. CASE worker # NoWorker
        <3>1. pc'[t] = "closePut"
            BY <1>6, <2>5 DEF CloseBegin, Goto, TypeOK
        <3>2. NoSentinel /\ Alive(worker)
            BY <1>0, <2>5 DEF CloseInv
        <3>3. \E w \in Workers : Alive(w)'
            BY <1>0, <2>1, <2>5, <3>2 DEF Alive
        <3>4. QED BY <2>1, <2>3, <2>4, <3>1, <3>2, <3>3 DEF CloseInv, NoSentinel, Closing
    <2>6. CASE worker = NoWorker
        <3>1. pc' = pc
            BY <1>6, <2>6 DEF CloseBegin
        <3>2. QED BY <1>0, <2>1, <2>2, <2>6, <3>1 DEF CloseInv, Closing, Alive
    <2>7. QED BY <2>5, <2>6
<1>7. ASSUME UNCHANGED <<queue, item, worker>>, Holders' = Holders,
             \A w \in Workers : Alive(w)' = Alive(w),
             \A u \in Threads : \/ pc'[u] = pc[u]
                                \/ pc'[u] \in {"idle", "check", "select"}
                                \/ pc'[u] = "join" /\ worker # NoWorker
      PROVE  CloseInv'
    <2>1. NoSentinel' = NoSentinel
        BY <1>7 DEF NoSentinel
    <2>2. \A u \in Threads : Closing(u)' => Closing(u)
        BY <1>7 DEF Closing
    <2>3. QED BY <1>0, <1>7, <2>1, <2>2 DEF CloseInv
<1>8. ASSUME NEW t \in Threads,
             FlushBegin(t) \/ FlushJoin(t) \/ FlushCheck(t) \/ Select(t) \/ CloseJoin(t)
      PROVE  CloseInv'
    <2>1. UNCHANGED <<queue, item, worker, wpc>> /\ Holders' = Holders
        BY <1>8, QuietEffect DEF Quiet, FlushBegin, FlushJoin, FlushCheck, Select, CloseJoin,
            workerVars
    <2>2. \A u \in Threads : \/ pc'[u] = pc[u]
                             \/ pc'[u] \in {"idle", "check", "select"}
                             \/ pc'[u] = "join" /\ worker # NoWorker
        BY <1>8 DEF FlushBegin, FlushJoin, FlushCheck, Select, CloseJoin, Goto, TypeOK
    <2>3. QED BY <1>7, <2>1, <2>2 DEF Alive
<1>9. ASSUME NEW w \in Workers, Connect(w) PROVE CloseInv'
    <2>1. UNCHANGED <<queue, item, worker, pc>> /\ Holders' = Holders
        BY <1>9, QuietEffect DEF Quiet, Connect, callVars
    <2>2. \A v \in Workers : Alive(v)' = Alive(v)
        BY <1>9 DEF Connect, Alive, TypeOK
    <2>3. QED BY <1>7, <2>1, <2>2
<1>10. CASE UNCHANGED vars
    BY <1>7, <1>10, QuietEffect DEF Quiet, vars, queueVars, workerVars, callVars, Alive
<1>11. QED BY <1>1, <1>2, <1>3, <1>4, <1>5, <1>6, <1>8, <1>9, <1>10 DEF Next, Caller, Worker

LEMMA OpenKeep ==
    ASSUME TypeOK, BoundInv, OpenInv, [Next]_vars
    PROVE  OpenInv'
<1> SUFFICES ASSUME closes' = 0 PROVE OpenInv'
    BY DEF OpenInv
<1>0. /\ closes = 0 /\ Len(queue) \in Nat /\ puts \in Nat /\ faults \in Nat
      /\ worker # NoWorker => worker \in Workers
    <2>1. \A t \in Threads : ~CloseBegin(t)
        BY DEF CloseBegin, TypeOK
    <2>2. closes = 0
        BY <2>1 DEF Next, Caller, Worker, AppendBegin, AppendPut, FlushBegin, FlushJoin,
            FlushCheck, Select, ClosePut, CloseJoin, Connect, Get, Handle, vars
    <2>3. QED BY <2>2, SeqFacts DEF TypeOK
<1>1. ASSUME NEW t \in Threads, AppendBegin(t) PROVE OpenInv'
    <2>1. UNCHANGED <<queue, item, faults>> /\ Holders' = Holders
        BY <1>1, QuietEffect DEF Quiet, AppendBegin
    <2>2. worker' # NoWorker /\ Alive(worker)'
        BY <1>1, EnsureEffect DEF AppendBegin
    <2>3. \A u \in Threads : Closing(u)' => Closing(u)
        BY <1>1 DEF AppendBegin, Goto, Closing, TypeOK
    <2>4. faults = 0 \/ workerError'
        <3>1. CASE worker = NoWorker
            BY <1>0, <3>1 DEF OpenInv
        <3>2. CASE worker # NoWorker
            <4>1. Alive(worker)
                BY <1>0, <3>2 DEF OpenInv
            <4>2. workerError' = workerError
                BY <1>1, <3>2, <4>1, EnsureEffect DEF AppendBegin
            <4>3. QED BY <1>0, <4>2 DEF OpenInv
        <3>3. QED BY <3>1, <3>2
    <2>5. NoSentinel'
        BY <1>0, <2>1 DEF OpenInv, NoSentinel
    <2>6. QED BY <1>0, <2>1, <2>2, <2>3, <2>4, <2>5 DEF OpenInv
<1>2. ASSUME NEW t \in Threads, AppendPut(t) PROVE OpenInv'
    <2>1. /\ UNCHANGED <<item, wpc, worker, workerError, faults>> /\ Holders' = Holders
          /\ Len(queue') = Len(queue) + 1
          /\ \A i \in 1..Len(queue) : queue'[i] = queue[i]
          /\ queue'[Len(queue) + 1] # SHUTDOWN
        BY <1>2, PutFits, PutEffect, SeqFacts DEF AppendPut, workerVars, Holders, SHUTDOWN
    <2>2. worker # NoWorker
        BY <1>0, <1>2 DEF AppendPut, OpenInv, Pending
    <2>3. \A u \in Threads : Closing(u)' => Closing(u)
        BY <1>2 DEF AppendPut, Goto, Closing, TypeOK
    <2>4. NoSentinel'
        BY <1>0, <2>1 DEF OpenInv, NoSentinel
    <2>5. QED BY <1>0, <2>1, <2>2, <2>3, <2>4 DEF OpenInv, Alive
<1>3. ASSUME NEW t \in Threads, ClosePut(t) PROVE OpenInv'
    BY <1>0, <1>3 DEF ClosePut, OpenInv, Closing
<1>4. ASSUME NEW w \in Workers, Get(w) PROVE OpenInv'
    <2>1. /\ UNCHANGED <<pc, worker, workerError, faults, puts>>
          /\ Len(queue') = Len(queue) - 1 /\ Len(queue) # 0
          /\ \A i \in 1..Len(queue') : queue'[i] = queue[i + 1]
          /\ item'[w] = queue[1] /\ \A v \in Holders : v # w /\ item'[v] = item[v]
          /\ Holders' = Holders \cup {w}
          /\ wpc[w] = "getting" /\ wpc'[w] = "holding"
          /\ \A v \in Workers : v # w => wpc'[v] = wpc[v]
        BY <1>4, GetEffect DEF Get, Holders, callVars
    <2>2. \A v \in Workers : Alive(v)' = Alive(v)
        BY <2>1 DEF Alive
    <2>3. NoSentinel'
        BY <1>0, <2>1 DEF OpenInv, NoSentinel
    <2>4. QED BY <1>0, <2>1, <2>2, <2>3 DEF OpenInv, Closing, Pending
<1>5. ASSUME NEW w \in Workers, Handle(w) PROVE OpenInv'
    <2>1. /\ UNCHANGED <<queue, worker, pc, puts>>
          /\ w \in Holders /\ Holders' = Holders \ {w}
          /\ wpc[w] = "holding" /\ wpc'[w] = IF item[w] = SHUTDOWN THEN "exited" ELSE "getting"
          /\ \A v \in Workers : v # w => wpc'[v] = wpc[v]
          /\ \A v \in Holders' : item'[v] = item[v]
        BY <1>5, HandleEffect DEF Handle, Holders, callVars
    <2>2. item[w] # SHUTDOWN
        BY <1>0, <2>1 DEF OpenInv, NoSentinel
    <2>3. \A v \in Workers : Alive(v)' = Alive(v)
        BY <2>1, <2>2 DEF Alive
    <2>4. worker # NoWorker
        BY <1>0, <2>1 DEF OpenInv, Alive
    <2>5. faults' = 0 \/ workerError'
        BY <1>0, <1>5, RowEffect, Zenon DEF OpenInv
    <2>6. NoSentinel'
        BY <1>0, <2>1 DEF OpenInv, NoSentinel
    <2>7. QED BY <1>0, <2>1, <2>3, <2>4, <2>5, <2>6 DEF OpenInv, Closing
<1>6. ASSUME NEW w \in Workers, Connect(w) PROVE OpenInv'
    <2>1. UNCHANGED <<queue, item, worker, pc, puts>> /\ Holders' = Holders
        BY <1>6, QuietEffect DEF Quiet, Connect, callVars
    <2>2. \A v \in Workers : Alive(v)' = Alive(v)
        BY <1>6 DEF Connect, Alive, TypeOK
    <2>3. worker # NoWorker
        BY <1>0, <1>6 DEF Connect, OpenInv, Alive
    <2>4. faults' = 0 \/ workerError'
        BY <1>0, <1>6 DEF Connect, Fault, OpenInv
    <2>5. NoSentinel'
        BY <1>0, <2>1 DEF OpenInv, NoSentinel
    <2>6. QED BY <1>0, <2>1, <2>2, <2>3, <2>4, <2>5 DEF OpenInv, Closing
<1>7. ASSUME UNCHANGED <<worker, workerError, wpc, faults>>, UNCHANGED <<queue, puts, item>>,
             \A u \in Threads : pc'[u] = pc[u] \/ pc'[u] \in {"idle", "join", "check", "select"}
      PROVE  OpenInv'
    <2>1. NoSentinel'
        BY <1>0, <1>7 DEF OpenInv, NoSentinel, Holders
    <2>2. /\ \A u \in Threads : ~Closing(u)'
          /\ Pending = {} => Pending' = {}
        BY <1>0, <1>7 DEF OpenInv, Closing, Pending
    <2>3. QED BY <1>0, <1>7, <2>1, <2>2 DEF OpenInv, Alive
<1>8. ASSUME NEW t \in Threads,
             FlushBegin(t) \/ FlushJoin(t) \/ FlushCheck(t) \/ Select(t) \/ CloseJoin(t)
      PROVE  OpenInv'
    <2>1. UNCHANGED <<queue, puts, item>>
        BY <1>8, QuietEffect DEF Quiet
    <2>2. UNCHANGED <<worker, workerError, wpc, faults>>
        BY <1>8 DEF FlushBegin, FlushJoin, FlushCheck, Select, CloseJoin, workerVars
    <2>3. \A u \in Threads : pc'[u] = pc[u] \/ pc'[u] \in {"idle", "join", "check", "select"}
        BY <1>8 DEF FlushBegin, FlushJoin, FlushCheck, Select, CloseJoin, Goto, TypeOK
    <2>4. QED BY <1>7, <2>1, <2>2, <2>3
<1>9. CASE UNCHANGED vars
    BY <1>7, <1>9 DEF vars, queueVars, workerVars, callVars
<1>10. ASSUME NEW t \in Threads, CloseBegin(t) PROVE FALSE
    BY <1>10 DEF CloseBegin, TypeOK
<1>11. QED BY <1>1, <1>2, <1>3, <1>4, <1>5, <1>6, <1>8, <1>9, <1>10 DEF Next, Caller, Worker

LEMMA ReadKeep ==
    ASSUME IInv, [Next]_vars
    PROVE  ReadInv'
<1>0. /\ Len(queue) \in Nat /\ Len(db) \in Nat /\ puts \in Nat /\ faults \in Nat /\ closes \in Nat
      /\ \A t \in Threads : due[t] \in Nat /\ due[t] <= puts
    BY SeqFacts DEF IInv, TypeOK, ReadInv
<1>1. closes' = 0 => closes = 0
    <2>1. closes' \in {closes, closes + 1}
        BY DEF Next, Caller, Worker, AppendBegin, AppendPut, FlushBegin, CloseBegin,
            FlushJoin, FlushCheck, Select, ClosePut, CloseJoin, Connect, Get, Handle, vars
    <2>2. QED BY <1>0, <2>1
<1>2. faults' = 0 => faults = 0
    <2>1. faults' \in {faults, faults + 1}
        BY DEF Next, Caller, Worker, AppendBegin, AppendPut, FlushBegin, CloseBegin, FlushJoin,
            FlushCheck, Select, ClosePut, CloseJoin, Connect, Get, Handle, Fault, vars, workerVars
    <2>2. QED BY <1>0, <2>1
<1>3. Unmixed' => Unmixed
    BY <1>1, <1>2, OverlapStays DEF IInv, Unmixed
<1>4. \A n \in Nat : InTable(n) => InTable(n)'
    <2>1. ASSUME NEW w \in Workers, Handle(w) PROVE \A n \in Nat : InTable(n) => InTable(n)'
        <3>1. \/ db' = db
              \/ Len(db') = Len(db) + 1 /\ \A k \in 1..Len(db) : db'[k] = db[k]
            BY <2>1, RowEffect DEF IInv
        <3>2. QED BY <1>0, <3>1 DEF InTable
    <2>2. ASSUME db' = db PROVE \A n \in Nat : InTable(n) => InTable(n)'
        BY <2>2 DEF InTable
    <2>3. QED BY <2>1, <2>2 DEF Next, Caller, Worker, AppendBegin, AppendPut, FlushBegin,
        CloseBegin, FlushJoin, FlushCheck, Select, ClosePut, CloseJoin, Connect, Get, vars,
        workerVars
\* In a log that was never closed an error stays, once there is a worker.
<1>5. closes' = 0 /\ workerError => workerError' \/ worker = NoWorker
    <2> SUFFICES ASSUME closes' = 0, workerError, worker # NoWorker PROVE workerError'
        OBVIOUS
    <2>1. ASSUME NEW t \in Threads, AppendBegin(t) PROVE workerError'
        <3>1. Alive(worker)
            BY <1>1 DEF IInv, OpenInv
        <3>2. workerError' = workerError
            BY <2>1, <3>1, EnsureEffect DEF IInv, AppendBegin
        <3>3. QED BY <3>2
    <2>2. ASSUME NEW w \in Workers, Worker(w) PROVE workerError'
        BY <2>2 DEF Worker, Connect, Get, Handle, Fault
    <2>3. QED BY <2>1, <2>2 DEF Next, Caller, AppendPut, FlushBegin, CloseBegin, FlushJoin,
        FlushCheck, Select, ClosePut, CloseJoin, vars
\* What a thread knows it goes on knowing.
<1>6. ASSUME NEW t \in Threads, Unmixed', due'[t] = due[t], pc'[t] = pc[t]
      PROVE  Knows(t)'
    <2>1. Knows(t)
        BY <1>3, <1>6 DEF IInv, ReadInv
    <2>2. CASE InTable(due[t])
        <3>1. InTable(due[t])'
            BY <1>0, <1>4, <1>6, <2>2 DEF InTable
        <3>2. QED BY <3>1 DEF Knows
    <2>3. CASE pc[t] = "check" /\ workerError /\ closes = 0
        <3>1. faults # 0
            BY <2>3 DEF IInv, FaultInv
        <3>2. closes' = 0
            BY <1>2, <1>6, <3>1 DEF Unmixed
        <3>3. worker # NoWorker
            BY <2>3, <3>1 DEF IInv, OpenInv
        <3>4. workerError'
            BY <1>5, <2>3, <3>2, <3>3
        <3>5. QED BY <1>6, <2>3, <3>2, <3>4 DEF Knows
    <2>4. CASE pc[t] \notin {"check", "select"}
        BY <1>6, <2>4 DEF Knows
    <2>5. QED BY <2>1, <2>2, <2>3, <2>4 DEF Knows
\* Where nothing waits and nothing is held, everything is in the table, unless a
\* write has failed.
<1>7. ASSUME Len(queue) = 0, Holders = {}, Unmixed
      PROVE  InTable(puts) \/ (workerError /\ closes = 0)
    <2>1. CASE faults = 0
        BY <1>0, <1>7, <2>1 DEF IInv, FaultInv, InTable
    <2>2. CASE faults # 0
        BY <1>7, <2>2 DEF IInv, Unmixed, OpenInv
    <2>3. QED BY <2>1, <2>2
<1>8. ASSUME UNCHANGED <<due, puts>>,
             \A u \in Threads : pc'[u] = pc[u] \/ pc'[u] \notin {"check", "select"}
      PROVE  ReadInv'
    <2>1. ASSUME Unmixed', NEW u \in Threads PROVE Knows(u)'
        BY <1>6, <1>8, <2>1 DEF Knows
    <2>2. QED BY <1>0, <1>8, <2>1 DEF ReadInv
<1>9. ASSUME NEW t \in Threads, FlushBegin(t) PROVE ReadInv'
    <2>1. /\ due'[t] = puts /\ puts' = puts /\ db' = db
          /\ \A u \in Threads : u # t => due'[u] = due[u] /\ pc'[u] = pc[u]
          /\ pc'[t] = IF worker # NoWorker THEN "join" ELSE "check"
          /\ UNCHANGED <<worker, workerError, closes, faults, wpc>>
        BY <1>9 DEF FlushBegin, Goto, IInv, TypeOK, queueVars, workerVars
    <2>2. ASSUME Unmixed', worker = NoWorker PROVE InTable(puts)
        <3>1. CASE closes = 0
            BY <1>0, <2>2, <3>1 DEF IInv, OpenInv, InTable
        <3>2. CASE closes # 0
            <4>1. ~overlap' /\ faults = 0 /\ Unmixed
                BY <1>3, <2>1, <2>2, <3>2 DEF Unmixed
            <4>2. ~Stray
                BY <1>9, <4>1 DEF FlushBegin, NoteOverlap
            <4>3. \A w \in Workers : ~Alive(w)
                BY <2>2, <4>2 DEF Stray, Workers, NoWorker
            <4>4. ~overlap
                BY <4>1, OverlapStays DEF IInv
            <4>5. Len(queue) = 0 /\ Holders = {}
                BY <2>2, <4>3, <4>4 DEF IInv, CloseInv, Holders, Alive
            <4>6. QED BY <1>7, <3>2, <4>1, <4>5
        <3>3. QED BY <3>1, <3>2
    <2>3. ASSUME Unmixed' PROVE Knows(t)'
        <3>1. CASE worker = NoWorker
            <4>1. InTable(puts)
                BY <2>2, <2>3, <3>1
            <4>2. InTable(due[t])'
                BY <2>1, <4>1 DEF InTable
            <4>3. QED BY <4>2 DEF Knows
        <3>2. CASE worker # NoWorker
            BY <2>1, <3>2 DEF Knows
        <3>3. QED BY <3>1, <3>2
    <2>4. ASSUME Unmixed', NEW u \in Threads PROVE Knows(u)'
        BY <1>6, <2>1, <2>3, <2>4
    <2>5. QED BY <1>0, <2>1, <2>4 DEF ReadInv
<1>10. ASSUME NEW t \in Threads, FlushJoin(t) PROVE ReadInv'
    <2>1. /\ UNCHANGED <<due, puts, db, workerError, closes>>
          /\ \A u \in Threads : u # t => pc'[u] = pc[u]
          /\ pc'[t] = "check" /\ unfinished = 0
        BY <1>10 DEF FlushJoin, Goto, IInv, TypeOK, queueVars, workerVars
    <2>2. Len(queue) = 0 /\ Holders = {}
        <3>1. Len(queue) = 0 /\ Cardinality(Holders) = 0
            BY <1>0, <2>1, HoldersFacts DEF IInv, UnfinishedIsExact
        <3>2. QED BY <3>1, HoldersFacts, FS_EmptySet
    <2>3. ASSUME Unmixed' PROVE Knows(t)'
        <3>1. InTable(puts) \/ (workerError /\ closes = 0)
            BY <1>3, <1>7, <2>2, <2>3
        <3>2. InTable(due[t]) \/ (workerError /\ closes = 0)
            BY <1>0, <3>1 DEF InTable
        <3>3. QED BY <2>1, <3>2 DEF Knows, InTable
    <2>4. ASSUME Unmixed', NEW u \in Threads PROVE Knows(u)'
        BY <1>6, <2>1, <2>3, <2>4
    <2>5. QED BY <1>0, <2>1, <2>4 DEF ReadInv
<1>11. ASSUME NEW t \in Threads, FlushCheck(t) PROVE ReadInv'
    <2>1. /\ puts' = puts /\ db' = db /\ pc[t] = "check"
          /\ due' = [due EXCEPT ![t] = IF workerError THEN 0 ELSE @]
          /\ \A u \in Threads : u # t => due'[u] = due[u] /\ pc'[u] = pc[u]
          /\ pc'[t] = IF workerError THEN "idle" ELSE "select"
        BY <1>11 DEF FlushCheck, Goto, IInv, TypeOK, queueVars, workerVars
    <2>2. due'[t] = IF workerError THEN 0 ELSE due[t]
        BY <2>1 DEF IInv, TypeOK
    <2>3. ASSUME Unmixed' PROVE Knows(t)'
        <3>1. CASE workerError
            BY <2>1, <3>1 DEF Knows
        <3>2. CASE ~workerError
            <4>1. InTable(due[t])
                BY <1>3, <2>1, <2>3, <3>2 DEF IInv, ReadInv, Knows
            <4>2. InTable(due[t])'
                BY <2>1, <2>2, <3>2, <4>1 DEF InTable
            <4>3. QED BY <4>2 DEF Knows
        <3>3. QED BY <3>1, <3>2
    <2>4. ASSUME Unmixed', NEW u \in Threads PROVE Knows(u)'
        BY <1>6, <2>1, <2>3, <2>4
    <2>5. \A u \in Threads : due'[u] <= puts'
        BY <1>0, <2>1, <2>2
    <2>6. QED BY <2>4, <2>5 DEF ReadInv
<1>12. ASSUME NEW t \in Threads, Select(t) PROVE ReadInv'
    <2>1. /\ puts' = puts /\ due'[t] = 0 /\ pc'[t] = "idle"
          /\ \A u \in Threads : u # t => due'[u] = due[u] /\ pc'[u] = pc[u]
        BY <1>12, <1>0 DEF Select, Goto, IInv, TypeOK, queueVars
    <2>2. ASSUME Unmixed', NEW u \in Threads PROVE Knows(u)'
        BY <1>6, <2>1, <2>2 DEF Knows
    <2>3. QED BY <1>0, <2>1, <2>2 DEF ReadInv
<1>13. ASSUME NEW t \in Threads, AppendPut(t) PROVE ReadInv'
    <2>1. /\ puts' = puts + 1 /\ due' = due
          /\ \A u \in Threads : pc'[u] = pc[u] \/ pc'[u] = "idle"
        BY <1>13 DEF AppendPut, Goto, IInv, TypeOK
    <2>2. ASSUME Unmixed', NEW u \in Threads PROVE Knows(u)'
        BY <1>6, <2>1, <2>2 DEF Knows
    <2>3. QED BY <1>0, <2>1, <2>2 DEF ReadInv
<1>14. ASSUME NEW t \in Threads, AppendBegin(t) \/ CloseBegin(t) \/ ClosePut(t) \/ CloseJoin(t)
       PROVE  ReadInv'
    <2>1. UNCHANGED <<due, puts>>
        BY <1>14 DEF AppendBegin, CloseBegin, ClosePut, CloseJoin, queueVars
    <2>2. \A u \in Threads : pc'[u] = pc[u] \/ pc'[u] \notin {"check", "select"}
        BY <1>14 DEF AppendBegin, CloseBegin, ClosePut, CloseJoin, Goto, IInv, TypeOK
    <2>3. QED BY <1>8, <2>1, <2>2
<1>15. ASSUME UNCHANGED <<due, puts, pc>> PROVE ReadInv'
    <2>1. ASSUME Unmixed', NEW u \in Threads PROVE Knows(u)'
        BY <1>6, <1>15, <2>1
    <2>2. QED BY <1>0, <1>15, <2>1 DEF ReadInv
<1>16. QED BY <1>9, <1>10, <1>11, <1>12, <1>13, <1>14, <1>15
        DEF Next, Caller, Worker, Connect, Get, Handle, vars, queueVars, callVars

-----------------------------------------------------------------------------
(* The theorems.                                                           *)

LEMMA Initially == Init => IInv
<1> SUFFICES ASSUME Init PROVE IInv
    OBVIOUS
<1>1. TypeOK
    <2>1. /\ wpc \in [Workers -> {"unborn", "connecting", "getting", "holding", "exited"}]
          /\ conn \in [Workers -> BOOLEAN] /\ item \in [Workers -> Entries \cup {SHUTDOWN}]
        BY DEF Init
    <2>2. /\ pc \in [Threads -> {"idle", "put", "join", "check", "select",
                                 "closePut", "closeJoin"}]
          /\ due \in [Threads -> 0..MaxEntries]
        BY BoundsAssumption DEF Init
    <2>3. queue \in Seq(Entries \cup {SHUTDOWN}) /\ db \in Seq(Entries)
        BY DEF Init
    <2>4. /\ unfinished \in Nat /\ puts \in 0..MaxEntries /\ closes \in 0..MaxCloses
          /\ faults \in 0..MaxFaults
        BY BoundsAssumption DEF Init
    <2>5. worker \in Workers \cup {NoWorker} /\ workerError \in BOOLEAN /\ overlap \in BOOLEAN
        BY Zenon DEF Init
    <2>6. QED BY <2>1, <2>2, <2>3, <2>4, <2>5 DEF TypeOK
<1>2. Len(queue) = 0 /\ Len(db) = 0 /\ Holders = {} /\ Pending = {}
    BY DEF Init, Holders, Pending
<1>3. BoundInv /\ UnfinishedIsExact
    BY <1>2, FS_EmptySet, BoundsAssumption DEF Init, BoundInv, UnfinishedIsExact
<1>4. OrderInv
    BY <1>2 DEF OrderInv, QueueOrder, QueueYoung, HeldOnce, RowsOnce
<1>5. FaultInv /\ SoleInv /\ CloseInv /\ OpenInv /\ ReadInv
    BY <1>2 DEF Init, FaultInv, SoleInv, CloseInv, OpenInv, ReadInv, Unmixed, Knows, Alive,
        NoSentinel, Closing
<1>6. QED BY <1>1, <1>3, <1>4, <1>5 DEF IInv

\* The inductive invariant of ErrorLog.
THEOREM Invariance == Spec => []IInv
<1>1. IInv /\ [Next]_vars => IInv'
    <2> SUFFICES ASSUME IInv, [Next]_vars PROVE IInv'
        OBVIOUS
    <2>1. ReadInv'
        BY ReadKeep
    <2>2. QED BY <2>1, TypeKeep, BoundKeep, CountKeep, OrderKeep, FaultKeep, SoleKeep, CloseKeep,
        OpenKeep DEF IInv
<1>2. QED BY Initially, <1>1, PTL DEF Spec

\* Every variable of the log keeps its type.
THEOREM TypeCorrect == Spec => []TypeOK
<1>1. IInv => TypeOK
    BY DEF IInv
<1>2. QED BY <1>1, Invariance, PTL

\* unfinished_tasks of the queue: join() waits for what is queued or in a worker's
\* hands, and for nothing else.
THEOREM QueueIsCounted == Spec => []UnfinishedIsExact
<1>1. IInv => UnfinishedIsExact
    BY DEF IInv
<1>2. QED BY <1>1, Invariance, PTL

\* _worker_loop and close(): an entry is in one place, and lost only by a failed write.
THEOREM NothingIsLost == Spec => []EntriesAreAccountedFor
<1>1. IInv => EntriesAreAccountedFor
    <2> SUFFICES ASSUME IInv PROVE EntriesAreAccountedFor
        OBVIOUS
    <2>0. /\ Len(queue) \in Nat /\ Len(db) \in Nat /\ puts \in Nat
          /\ DOMAIN queue = 1..Len(queue) /\ DOMAIN db = 1..Len(db)
          /\ \A i \in 1..Len(queue) : queue[i] \in Nat
          /\ \A k \in 1..Len(db) : db[k] \in Nat \ {0}
          /\ \A w \in Holders : item[w] \in Nat
        BY SeqFacts DEF IInv, TypeOK, Holders
    <2>1. faults = 0 => 1..puts = Queued \cup Held \cup Rows
        <3> SUFFICES ASSUME faults = 0 PROVE 1..puts = Queued \cup Held \cup Rows
            OBVIOUS
        <3>1. ASSUME NEW e \in 1..puts PROVE e \in Queued \cup Held \cup Rows
            <4>1. \/ \E i \in 1..Len(queue) : queue[i] = e
                  \/ \E w \in Holders : item[w] = e
                  \/ \E k \in 1..Len(db) : db[k] = e
                BY DEF IInv, FaultInv
            <4>2. e # SHUTDOWN
                BY DEF SHUTDOWN
            <4>3. QED BY <2>0, <4>1, <4>2 DEF Queued, Held, Rows
        <3>2. Queued \subseteq 1..puts
            BY <2>0 DEF IInv, OrderInv, QueueYoung, Queued, SHUTDOWN
        <3>3. Held \subseteq 1..puts
            BY <2>0 DEF IInv, OrderInv, HeldOnce, Held, SHUTDOWN
        <3>4. Rows \subseteq 1..puts
            BY <2>0 DEF IInv, OrderInv, RowsOnce, Rows
        <3>5. QED BY <3>1, <3>2, <3>3, <3>4
    <2>2. Cardinality(Rows) = Len(db)
        <3> DEFINE f == [k \in 1..Len(db) |-> db[k]]
        <3>1. f \in Bijection(1..Len(db), Rows)
            BY <2>0 DEF Bijection, Injection, Surjection, IsInjective, IInv, OrderInv, RowsOnce,
                Rows
        <3>2. ExistsBijection(1..Len(db), Rows)
            BY <3>1 DEF ExistsBijection
        <3>3. QED BY <2>0, <3>2, FS_CountingElements
    <2>3. Queued \cap Rows = {} /\ Queued \cap Held = {}
        BY <2>0 DEF IInv, OrderInv, QueueYoung, Queued, Rows, Held
    <2>4. Held \cap Rows = {}
        BY <2>0 DEF IInv, OrderInv, HeldOnce, Rows, Held
    <2>5. QED BY <2>1, <2>2, <2>3, <2>4 DEF EntriesAreAccountedFor
<1>2. QED BY <1>1, Invariance, PTL

\* _worker_loop across restarts: the table is in the order of the append() calls unless
\* close() overlaps another call.
THEOREM RowsInOrder == Spec => []InsertionOrder
<1>1. IInv => InsertionOrder
    <2>1. TypeOK => DOMAIN db = 1..Len(db)
        BY DEF TypeOK
    <2>2. QED BY <2>1 DEF IInv, SoleInv, InsertionOrder
<1>2. QED BY <1>1, Invariance, PTL

\* recent(): a read observes every append() before it, while nobody closes the log or
\* close() overlaps nothing and no write fails.
THEOREM ReadsObserve == Spec => []ReadsObserveUnlessClosed
<1>1. IInv => ReadsObserveUnlessClosed
    <2> SUFFICES ASSUME IInv, Unmixed, NEW t \in Threads, pc[t] = "select"
                 PROVE  1..due[t] \subseteq Rows
        BY DEF ReadsObserveUnlessClosed, ReadsObserveAppends, Unmixed
    <2>1. InTable(due[t])
        BY DEF IInv, ReadInv, Knows
    <2>2. DOMAIN db = 1..Len(db)
        BY DEF IInv, TypeOK
    <2>3. QED BY <2>1, <2>2 DEF InTable, Rows
<1>2. QED BY <1>1, Invariance, PTL

\* flush(): as long as close() overlaps nothing, a caller that waits for the queue is
\* served: a worker lives that has something to do and will not end before (the
\* sentinel is neither in its hands nor queued).  What is left to TLC is that it runs.
WaitsAreServed ==
    \A t \in Threads : pc[t] = "join" /\ ~overlap /\ unfinished # 0 =>
        \E w \in Workers :
            /\ wpc[w] \in {"connecting", "holding"} \/ (wpc[w] = "getting" /\ queue # <<>>)
            /\ wpc[w] = "holding" => item[w] # SHUTDOWN
            /\ \A i \in 1..Len(queue) : queue[i] # SHUTDOWN

THEOREM Served == Spec => []WaitsAreServed
<1>1. IInv => WaitsAreServed
    <2> SUFFICES ASSUME IInv, NEW t \in Threads, pc[t] = "join", ~overlap, unfinished # 0
                 PROVE  \E w \in Workers :
                           /\ \/ wpc[w] \in {"connecting", "holding"}
                              \/ (wpc[w] = "getting" /\ queue # <<>>)
                           /\ wpc[w] = "holding" => item[w] # SHUTDOWN
                           /\ \A i \in 1..Len(queue) : queue[i] # SHUTDOWN
        BY DEF WaitsAreServed
    <2>1. worker \in Workers /\ Alive(worker) /\ NoSentinel
        BY DEF IInv, TypeOK, CloseInv, NoWorker
    <2>2. CASE wpc[worker] \in {"connecting", "holding"}
        BY <2>1, <2>2 DEF NoSentinel, Holders
    <2>3. CASE wpc[worker] = "getting"
        <3>1. Holders = {}
            BY <2>1, <2>3 DEF IInv, SoleInv, Holders, Alive
        <3>2. Cardinality(Holders) = 0
            BY <3>1, FS_EmptySet
        <3>3. Len(queue) # 0 /\ Len(queue) \in Nat
            BY <3>2 DEF IInv, UnfinishedIsExact, TypeOK
        <3>4. queue # <<>>
            BY <3>3
        <3>5. QED BY <2>1, <2>3, <3>4 DEF NoSentinel
    <2>4. QED BY <2>1, <2>2, <2>3 DEF Alive
<1>2. QED BY <1>1, Invariance, PTL
=============================================================================
