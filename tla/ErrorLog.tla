------------------------------ MODULE ErrorLog ------------------------------
(***************************************************************************)
(* fastware.error_log.ErrorLog: callers append() entries to one queue, a   *)
(* background worker thread inserts them into SQLite, flush()/recent()     *)
(* wait for the queue to drain, close() stops the worker with a sentinel.  *)
(*                                                                         *)
(* Threads interleave at every lock, queue and database operation.  An     *)
(* entry is the position of its put() in the put order, so the table db is *)
(* in insertion order exactly when it is increasing.  recent() is flush()  *)
(* followed by the SELECT, which sees whatever is committed by then.       *)
(***************************************************************************)
EXTENDS Integers, Sequences, FiniteSets

CONSTANTS
    Threads,        \* caller threads (request handlers, dashboards, shutdown)
    MaxEntries,     \* bound: append() calls begun
    MaxWorkers,     \* bound: worker threads ever started
    MaxCloses,      \* bound: close() calls begun
    MaxFaults       \* bound: connect, INSERT or commit failures

ASSUME ThreadsAssumption == IsFiniteSet(Threads) /\ Threads # {}
ASSUME BoundsAssumption ==
    /\ MaxEntries \in Nat /\ MaxWorkers \in Nat
    /\ MaxCloses \in Nat /\ MaxFaults \in Nat

SHUTDOWN == 0               \* the _SHUTDOWN sentinel in the queue
NoWorker == 0               \* self._worker is None
Entries  == 1..MaxEntries
Workers  == 1..MaxWorkers

VARIABLES
    queue,          \* self._queue
    unfinished,     \* its unfinished_tasks
    worker,         \* self._worker
    workerError,    \* self._worker_error is not None
    db,             \* rows committed to the errors table, by id
    wpc,            \* control of each worker thread
    conn,           \* that worker has a connection
    item,           \* the queue item it holds
    pc,             \* control of each caller thread
    due,            \* entries put before the flush() or recent() in progress began
    puts,           \* entries put so far
    closes, faults, \* bounded counters
    overlap         \* close() has run concurrently with another call

queueVars  == <<queue, unfinished, puts>>
workerVars == <<db, wpc, conn, item, faults>>
callVars   == <<pc, due>>
vars == <<queueVars, worker, workerError, workerVars, callVars, closes, overlap>>

TypeOK ==
    /\ queue \in Seq(Entries \cup {SHUTDOWN}) /\ unfinished \in Nat
    /\ worker \in Workers \cup {NoWorker} /\ workerError \in BOOLEAN
    /\ db \in Seq(Entries)
    /\ wpc \in [Workers -> {"unborn", "connecting", "getting", "holding", "exited"}]
    /\ conn \in [Workers -> BOOLEAN]
    /\ item \in [Workers -> Entries \cup {SHUTDOWN}]
    /\ pc \in [Threads -> {"idle", "put", "join", "check", "select",
                           "closePut", "closeJoin"}]
    /\ due \in [Threads -> 0..MaxEntries]
    /\ puts \in 0..MaxEntries
    /\ closes \in 0..MaxCloses /\ faults \in 0..MaxFaults
    /\ overlap \in BOOLEAN

Init ==
    /\ queue = <<>> /\ unfinished = 0 /\ puts = 0
    /\ worker = NoWorker /\ workerError = FALSE /\ db = <<>>
    /\ wpc = [w \in Workers |-> "unborn"]
    /\ conn = [w \in Workers |-> FALSE]
    /\ item = [w \in Workers |-> SHUTDOWN]
    /\ pc = [t \in Threads |-> "idle"]
    /\ due = [t \in Threads |-> 0]
    /\ closes = 0 /\ faults = 0 /\ overlap = FALSE

-----------------------------------------------------------------------------
Alive(w)     == wpc[w] \in {"connecting", "getting", "holding"}
Goto(t, l)   == pc' = [pc EXCEPT ![t] = l]
Put(x)       == queue' = Append(queue, x) /\ unfinished' = unfinished + 1

HasLiveWorker == worker \in {w \in Workers : Alive(w)}

\* A worker that self._worker no longer names is still running.
Stray == \E w \in Workers : w # worker /\ Alive(w)

\* The history variable: a call begins while a close() is in progress.
NoteOverlap ==
    overlap' = (overlap \/ Stray
                \/ \E u \in Threads : pc[u] \in {"closePut", "closeJoin"})

\* Mutated form of EnsureWorker: no lock and no liveness test, every append
\* starts a worker of its own.
EnsureWorkerAlways ==
    \E w \in Workers :
        /\ wpc[w] = "unborn" /\ \A v \in 1..(w - 1) : wpc[v] # "unborn"
        /\ workerError' = FALSE /\ worker' = w
        /\ wpc' = [wpc EXCEPT ![w] = "connecting"]

\* _ensure_worker, under the lock: keep a live worker, or clear the error and
\* start a new one.
EnsureWorker ==
    \/ /\ HasLiveWorker
       /\ UNCHANGED <<worker, workerError, wpc>>
    \/ /\ ~HasLiveWorker
       /\ \E w \in Workers :
            /\ wpc[w] = "unborn" /\ \A v \in 1..(w - 1) : wpc[v] # "unborn"
            /\ workerError' = FALSE /\ worker' = w
            /\ wpc' = [wpc EXCEPT ![w] = "connecting"]

-----------------------------------------------------------------------------
(* The callers.                                                            *)

\* append(): first _ensure_worker, then, with the lock released, put().
AppendBegin(t) ==
    /\ pc[t] = "idle"
    /\ puts + Cardinality({u \in Threads : pc[u] = "put"}) < MaxEntries
    /\ EnsureWorker
    /\ Goto(t, "put")
    /\ NoteOverlap
    /\ UNCHANGED <<queueVars, db, conn, item, faults, due, closes>>

AppendPut(t) ==
    /\ pc[t] = "put"
    /\ puts' = puts + 1
    /\ Put(puts + 1)
    /\ Goto(t, "idle")
    /\ UNCHANGED <<worker, workerError, workerVars, due, closes, overlap>>

\* flush(): self._worker is read without the lock; with no worker the join is
\* skipped.
FlushBegin(t) ==
    /\ pc[t] = "idle"
    /\ due' = [due EXCEPT ![t] = puts]
    /\ Goto(t, IF worker # NoWorker THEN "join" ELSE "check")
    /\ NoteOverlap
    /\ UNCHANGED <<queueVars, worker, workerError, workerVars, closes>>

\* Mutated form of FlushJoin: wait for an empty queue instead of join().
FlushJoinEmpty(t) ==
    /\ pc[t] = "join" /\ queue = <<>>
    /\ Goto(t, "check")
    /\ UNCHANGED <<queueVars, worker, workerError, workerVars, due>>
    /\ UNCHANGED <<closes, overlap>>

\* queue.join() returns once every item put so far is task_done().
FlushJoin(t) ==
    /\ pc[t] = "join" /\ unfinished = 0
    /\ Goto(t, "check")
    /\ UNCHANGED <<queueVars, worker, workerError, workerVars, due>>
    /\ UNCHANGED <<closes, overlap>>

\* The writer's error is raised to the caller, or the read may proceed.
FlushCheck(t) ==
    /\ pc[t] = "check"
    /\ Goto(t, IF workerError THEN "idle" ELSE "select")
    /\ due' = [due EXCEPT ![t] = IF workerError THEN 0 ELSE @]
    /\ UNCHANGED <<queueVars, worker, workerError, workerVars>>
    /\ UNCHANGED <<closes, overlap>>

\* The SELECT of recent(), or the return of flush().
Select(t) ==
    /\ pc[t] = "select"
    /\ Goto(t, "idle")
    /\ due' = [due EXCEPT ![t] = 0]
    /\ UNCHANGED <<queueVars, worker, workerError, workerVars>>
    /\ UNCHANGED <<closes, overlap>>

\* close(): take the worker under the lock; a second close() finds none.
CloseBegin(t) ==
    /\ pc[t] = "idle" /\ closes < MaxCloses
    /\ closes' = closes + 1
    /\ worker' = NoWorker
    /\ IF worker = NoWorker THEN UNCHANGED pc ELSE Goto(t, "closePut")
    /\ overlap' = (overlap \/ Stray \/ \E u \in Threads \ {t} : pc[u] # "idle")
    /\ UNCHANGED <<queueVars, workerError, workerVars, due>>

ClosePut(t) ==
    /\ pc[t] = "closePut"
    /\ Put(SHUTDOWN)
    /\ Goto(t, "closeJoin")
    /\ UNCHANGED <<puts, worker, workerError, workerVars, due>>
    /\ UNCHANGED <<closes, overlap>>

\* worker.join(timeout=5) returns when the worker has ended or the time is up.
CloseJoin(t) ==
    /\ pc[t] = "closeJoin"
    /\ Goto(t, "idle")
    /\ UNCHANGED <<queueVars, worker, workerError, workerVars, due>>
    /\ UNCHANGED <<closes, overlap>>

-----------------------------------------------------------------------------
(* The workers.                                                            *)

Fault == faults < MaxFaults /\ faults' = faults + 1 /\ workerError' = TRUE

\* connect and CREATE TABLE; a failure is remembered and the loop still runs.
Connect(w) ==
    /\ wpc[w] = "connecting"
    /\ wpc' = [wpc EXCEPT ![w] = "getting"]
    /\ \/ conn' = [conn EXCEPT ![w] = TRUE] /\ UNCHANGED <<workerError, faults>>
       \/ Fault /\ UNCHANGED conn
    /\ UNCHANGED <<queueVars, worker, db, item, callVars, closes, overlap>>

Get(w) ==
    /\ wpc[w] = "getting" /\ queue # <<>>
    /\ item' = [item EXCEPT ![w] = Head(queue)]
    /\ queue' = Tail(queue)
    /\ wpc' = [wpc EXCEPT ![w] = "holding"]
    /\ UNCHANGED <<unfinished, puts, worker, workerError, db, conn, faults>>
    /\ UNCHANGED <<callVars, closes, overlap>>

\* The finally of the loop body: task_done(), and the item is let go.
TaskDone(w) ==
    /\ unfinished' = unfinished - 1
    /\ item' = [item EXCEPT ![w] = SHUTDOWN]

\* Mutated form of Handle: task_done() is not in a finally, a failing INSERT
\* skips it.
HandleNoFinally(w) ==
    /\ wpc[w] = "holding"
    /\ wpc' = [wpc EXCEPT ![w] = IF item[w] = SHUTDOWN THEN "exited" ELSE "getting"]
    /\ \/ /\ item[w] # SHUTDOWN /\ conn[w] /\ ~workerError /\ Fault
          /\ UNCHANGED <<unfinished, item, db>>
       \/ /\ item[w] # SHUTDOWN /\ conn[w] /\ ~workerError
          /\ db' = Append(db, item[w]) /\ TaskDone(w)
          /\ UNCHANGED <<workerError, faults>>
       \/ /\ item[w] = SHUTDOWN \/ ~conn[w] \/ workerError
          /\ TaskDone(w) /\ UNCHANGED <<db, workerError, faults>>
    /\ UNCHANGED <<queue, puts, worker, conn, callVars, closes, overlap>>

\* Mutated form of Handle: entries still queued when close() has taken the
\* worker are dropped.
HandleDropsAtShutdown(w) ==
    /\ wpc[w] = "holding"
    /\ wpc' = [wpc EXCEPT ![w] = IF item[w] = SHUTDOWN THEN "exited" ELSE "getting"]
    /\ TaskDone(w)
    /\ db' = IF item[w] # SHUTDOWN /\ conn[w] /\ ~workerError /\ worker # NoWorker
             THEN Append(db, item[w]) ELSE db
    /\ UNCHANGED <<queue, puts, worker, workerError, faults, conn>>
    /\ UNCHANGED <<callVars, closes, overlap>>

\* One round of the loop after get(): the sentinel ends the thread; an entry is
\* inserted unless an error is remembered; task_done() comes in any case.
Handle(w) ==
    /\ wpc[w] = "holding"
    /\ wpc' = [wpc EXCEPT ![w] = IF item[w] = SHUTDOWN THEN "exited" ELSE "getting"]
    /\ TaskDone(w)
    /\ \/ /\ item[w] # SHUTDOWN /\ conn[w] /\ ~workerError
          /\ \/ db' = Append(db, item[w]) /\ UNCHANGED <<workerError, faults>>
             \/ Fault /\ UNCHANGED db
       \/ /\ item[w] = SHUTDOWN \/ ~conn[w] \/ workerError
          /\ UNCHANGED <<db, workerError, faults>>
    /\ UNCHANGED <<queue, puts, worker, conn, callVars, closes, overlap>>

-----------------------------------------------------------------------------
Caller(t) ==
    \/ AppendPut(t) \/ FlushJoin(t) \/ FlushCheck(t) \/ Select(t)
    \/ ClosePut(t) \/ CloseJoin(t)

Worker(w) == Connect(w) \/ Get(w) \/ Handle(w)

Next ==
    \/ \E t \in Threads :
          Caller(t) \/ AppendBegin(t) \/ FlushBegin(t) \/ CloseBegin(t)
    \/ \E w \in Workers : Worker(w)

\* Runnable threads are scheduled; nobody has to make a call.
Fairness ==
    /\ \A t \in Threads : WF_vars(Caller(t))
    /\ \A w \in Workers : WF_vars(Worker(w))

Spec == Init /\ [][Next]_vars /\ Fairness

-----------------------------------------------------------------------------
(* Properties.                                                             *)

Rows       == {db[i] : i \in DOMAIN db}
Queued     == {queue[i] : i \in DOMAIN queue} \ {SHUTDOWN}
Holders    == {w \in Workers : wpc[w] = "holding"}
Held       == {item[w] : w \in Holders} \ {SHUTDOWN}

\* unfinished_tasks counts exactly the items queued or in a worker's hands, so
\* join() waits for all of them and for nothing else ("Always mark done").
UnfinishedIsExact ==
    unfinished = Len(queue) + Cardinality(Holders)

\* An entry that was put is in exactly one place: waiting, in a worker's hands
\* or in the table; it can only vanish after a write has failed.  A restart or
\* a close() at any moment neither drops nor duplicates a row.
EntriesAreAccountedFor ==
    /\ faults = 0 => 1..puts = Queued \cup Held \cup Rows
    /\ Cardinality(Rows) = Len(db)
    /\ Queued \cap Rows = {} /\ Held \cap Rows = {} /\ Queued \cap Held = {}

\* As long as close() never overlaps another call, rows are in insertion order,
\* even across a close and a restart.
InsertionOrder ==
    ~overlap => \A i, j \in DOMAIN db : i < j => db[i] < db[j]

\* The class docstring: "reads always observe every preceding append()".
ReadsObserveAppends ==
    \A t \in Threads : pc[t] = "select" => 1..due[t] \subseteq Rows

\* The same for a log that is never closed (a failed write is then raised, not
\* read over), and for one whose close() overlaps no call and no write fails.
ReadsObserveUnlessClosed ==
    closes = 0 \/ (~overlap /\ faults = 0) => ReadsObserveAppends

\* "Always mark done so flush()'s join() can never hang", when close() does not
\* overlap other calls.
FlushEnds ==
    \A t \in Threads : pc[t] = "join" ~> (pc[t] # "join" \/ overlap)
=============================================================================
