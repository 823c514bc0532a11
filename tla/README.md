# Formal verification of fastware

fastware is an ASGI framework with a server manager and a development
supervisor. These modules model its concurrent core in TLA+, TLC checks them on
small instances, and TLAPS proves theorems about them for every value of their
constants. All sources are under `src/fastware` of the repository; `PROJECT.json`
maps each definition to the lines it stands for.

## The system

| Part | State | Operations and peers | What is hard |
| --- | --- | --- | --- |
| Request lifecycle (`app.py`, `request.py`, `di.py`) | per request: response_started, the cleanups, the disconnect flag, a watcher task, a stream task | body loop, resolve, handler, send, cleanup, error handlers; talks to the ASGI server by receive/send | three tasks and a cancelling server interleave at every await; teardown order; one response only |
| Error log (`error_log.py`) | queue, worker thread, remembered error, SQLite table | append, flush, recent, close, worker loop; called by request handlers and dashboards | calls that overlap close(), failing writes, restarts |
| Server instances (`server.py`) | PID file, port file, registry of descriptors, markers; processes | serve, serve_background, stop, list_instances, status | unlocked files between processes that crash anywhere |
| Dispatch and lifespan (`app.py`) | lifespan state, mounted apps' handles | startup, rollback, shutdown of mounted apps | a failing mount, an app that exits or never answers |
| Broadcaster (`sse.py`) | list of client queues | broadcast, the client's generator | join, overflow, prune and close in any order |
| Supervisor (`supervise.py`, `dev.py`) | started children, stop flag, signal handlers, registry entry; the shell that runs Vite beside dev() | ordered start, supervise, teardown, daemon, dev() | signals in every window, first death, timeouts, children that ignore SIGTERM |
| Middleware (`middleware.py`) | captured body, is_404, CORS and timing wrappers, WebSocket tasks | backend first, replay on 404, WebSocket pump | body read by two consumers, disconnects, two directions that end each other |
| Presence markers (`server.py`) | a file per window of a process | write, remove, list with or without pruning | readers that prune what others are writing |
| Rate limit, user store (`auth.py`) | buckets; users and a lock | token bucket with eviction; read-modify-write | eviction and the boundary of refill; several processes |
| Feature flags, audit log (`features.py`, `audit.py`, `_fswrite.py`) | overrides, file | set_override, reload, overwrite, append_line | readers and crashes in the middle of a write |
| Background tasks (`tasks.py`) | registered, running | start_all, stop_all | failing tasks |
| Routing (`routing.py`, dispatch in `app.py`) | route tables, mounts, files | match, allowed_methods, include_router | precedence; answers that must agree |
| Test clients (`testing.py`) | lifespan events, loop thread | peer of the lifespan protocol | app that ends early |
| The rest: configuration, command line, responses, scopes, logging, MCP, browser assets | none that changes concurrently | formatting, parsing, registration | - |

What makes each part correct: the request answers exactly once and leaves
nothing running; the log neither loses nor reorders and its readers wait for
what was written; one server runs per PID file and can be found; the lifespan
stops what it started, in reverse; a broadcast reaches every live client in
order; the supervisor leaves no child behind and reports only what is so; a
proxied request is answered once, by the backend or in its place by Vite, with
the client's whole body; a bucket that is forgotten makes no difference; what a
store has acknowledged stays.

## Modules

### RequestLifecycle

One matched HTTP request. The actors are the request task (`pc`), the disconnect
watcher (`watcher`), the child task that drives a streamed body (`child`), the
client and the server that may cancel the request task. asyncio switches tasks
only at awaits, so an action is what a task does from one await to the next;
the operators `Leave` and `Dispatch` are the code that runs synchronously after
a send and after the inner `try`. `exc` is the exception in flight, `reply`
names the place that started the response, `held` the length of the `cleanups`
list that the running frame holds. A cancellation is first requested
(`mustCancel`, `childCancel`) and delivered at the task's await (`Cancelled`,
`GenInterrupted`, `ChildSendInterrupted`); a request task that awaits the child
passes its cancellation on, as asyncio does.

User code may do what Python code can: return a buffered result or a stream,
raise HTTPError or another exception, yield twice, catch a cancellation and
return. A generator that goes on yielding after a cancellation is left out, and
so are bodies' contents and plain-value dependencies.

Lines worth knowing: a disconnect message during the body ends the body loop
like a last chunk (`BodyRead`); `await watcher` swallows any cancellation
(`WatcherJoined`); `resolve()` and `cleanup()` catch `Exception` only, so a
cancellation drops the rest of their list (`CancelledInResolve`,
`CancelledInCleanup`).

### ErrorLog

Caller threads (`pc`) and worker threads (`wpc`) interleave at each lock, queue
and database operation. An entry is the position of its `put()`, so the table is
in insertion order exactly when `db` increases. `unfinished` is the queue's count
of unfinished tasks. `due` remembers what had been put when a read began,
`overlap` whether a close() ran concurrently with another call or a worker
outlived its close(). `recent()` is flush() followed by the SELECT.

### ServerInstances

Server processes, the callers of serve_background(), one process in stop() and
one in list_instances(), over the PID file, the port file and the descriptors.
Each file system call, kill() and bind is a step; reading the PID file and
matching it with the port's holder in `ensure_port_available` is one step. The
text of the PID file belongs to its inode (`fd`): what is written after an unlink
is lost. A process may die at any step without running its exit hooks (`Crash`).
A caller of serve_background() (`launching`) asks the port before the child, so
`LaunchAnswered` looks at the port alone.

What is left of a server is modelled too. A process that has ended is a zombie until
its parent waits for it (`Reaped`). A zombie answers `kill(pid, 0)`, except to its
parent, whose `_reap_if_dead_child` waits for it (`Answers`, `Waited`): `Parent` names
the parents that are servers themselves, a program that calls serve_background() and
later serve(). stop() may be called by the parent or by anybody else, so `StopGone` and
`StopFinds` both are possible over a zombie. A supervisor that is killed may leave
workers behind that hold its port (`Die`, `left`, `WorkersEnd`). The SIGKILL of stop()
is only queued (`killed`) and lands later (`KillLands`); `StopConfirm` returns when the
process is gone or when its two seconds are over, and the files are removed in either
case; where signals are not permitted they are removed over a live server
(`StopDenied`).

`contended` remembers that a start or stop began while another was in progress, that
a second server was started on purpose, or that stop() removed the files of a live
server which it was not allowed to signal. PIDs are not reused.

### Broadcaster and BroadcastLog

One broadcaster on one event loop. `broadcast()` is synchronous, so it is one
step; a client's generator moves from one suspension to the next: `gen` says
whether it was never iterated, is in a yield (the response sends), in
`queue.get()`, or over. An event is its position in the order of broadcasts.
`clients` is the list as a set, since each generator adds its own queue once.
`last` is the event a generator yielded last, `prunedAt` where the log stood when
the client was pruned. An exception while an initial event is formatted ends a
generator like a close. The two ways in which `asyncio.wait_for` can meet an
event and its timeout (it differs between Python 3.11 and 3.12) come to the same:
either the event is returned, or it stays in the queue.

`BroadcastLog` is the promise: a log, a cursor per subscriber, and a subscriber
that lags `Buffer` events behind is dropped with the log so far as its limit.

### Supervise and Dev

`Supervise` is one run of `_run_foreground` (`pc`, `at`), its children, signals
from outside, a `dev stop` process and the launcher of a daemon. A component is
its position in the start order and stands for the leader of its process group;
its kind decides how it becomes ready (`Answers`, `Settles`) and when the ports
are checked (`GoOn`). Spawning and listing a child are two steps, and so are the
look at the flag and the scan in `supervise_loop`: a signal may fall in between.
What a signal does depends on whether the handlers are installed (`Handling`):
before and during the teardown it ends the supervisor. There is no clock; a wait
ends by its condition or by its deadline.

`Dev` is dev() of `dev.py` with the one shell it spawns: it waits for Vite's port,
serves, and stops the shell in a finally clause. `Popen(shell=True)` gives it the PID
of a shell in its own process group, so poll(), terminate(), kill() and wait() are
about that process; Vite behind it is part of the environment, which opens the port
and keeps the shell's error output open (`StderrRead` has no deadline).

### Lifespan

The lifespan branch of app() (`pc`, `at`), each mounted app in its own task
behind two queues (`task`, `box`), and the test client's `_LifespanManager`
(`peer`). Mounted apps are any code: they send any protocol message in any order,
raise, return, or say nothing. `Took` and `Put` are the handle's queue; the end
of a task puts a sentinel there. A mount that fails is not on the list of started
mounts, so its task is left alone and the others are rolled back in reverse.

### Routing and DevProxy

`Routing` has patterns, tables, include_router, allowed_methods and the dispatch
order of app() as operators; a path is the sequence of its segments. `DevProxy`
sends one request or WebSocket through the middleware stack in the order
create_app() nests it, and uses `Dispatch` of `Routing` for what the backend is.
The handler is any code that reads some of the body, answers, raises or watches
for a disconnect. The proxy's bookkeeping (`arrived`, `read`, `seen`, `is404`)
decides whether Vite is asked and with which body (`vite`). `ws` is a proxied
WebSocket: the two pumps, the closes sent, Vite's side. When one pump has ended, the
cancellation of the other is requested (`FirstPumpEnded`) and nobody waits for it: the
pump ends in a later step (`PumpCancelled`), before or after the connections are closed
(`SessionCloses`). The server may cancel the request task while the proxy awaits
something: `HttpCancelled`, and for a WebSocket `AcceptCancelled`, `ConnectCancelled`,
`WaitCancelled`, after which both pumps still run and only the finally clause is left,
and `CloseCancelled`. A connection cancelled while it is being made is closed with a
clean 1000. Inside the application a cancellation is what RequestLifecycle is about.

### RateLimit and TokenBucket, Stores, Markers

`RateLimit` is the decorator of `auth.py`: buckets appear at the first admitted
request and are evicted by a sweep; a token is `Window` units so that a tick adds
`MaxTokens` of them and no fraction is lost. `TokenBucket` is the promise, one
level per client that is never forgotten. `Stores` has the two files that
processes share: the user list, loaded and saved under a lock that is a
`threading.Lock`, and the overrides, truncated and then written. The lock belongs to
the store object, so a "process" of `Stores` is one such object: two stores of one
process over the same file exclude each other no more than two processes do. `Markers` has the
presence markers with readers that enumerate, decode and prune file by file;
`due` remembers what a reader has to find. These and `Dev` share no state; the
run `Parts` takes one of them at the start (`MCParts`).

### MC and proof modules

`MC...` declare the model values and say why the instance is large enough.
`..._proofs` hold the theorems.

## Runs

| Run | Question | Bounds |
| --- | --- | --- |
| RequestLifecycle | everything below in any interleaving | 2 generator dependencies: partial resolution and a remainder of the cleanup exist; body cap 1: under, at and above the cap |
| RequestSecondStart | may a second response start? (yes) | no dependencies |
| RequestDisconnectLeak | does a recorded disconnect unwind the stream? (not always) | no dependencies |
| ErrorLog | loss, order, reads, hangs | 2 callers, 2 entries, 2 workers (one restart), 2 closes, 1 failing write |
| ErrorLogStaleRead | do reads observe every append? (not after a close) | 2 callers, 1 entry |
| ServerInstances | discovery, refusal, launching, the end of a stop | 2 processes, the first the parent of the second, started as single instance or in the background, on one port (a second port takes longer and adds only servers that do not meet; the theorems are about any ports); any crashes, zombies and workers left behind; 786,746 states |
| ServerSingleInstance | do single instances exclude each other? (no) | 2 processes, all three ways to start, 2 ports |
| Broadcaster | delivery, leaks, delivery of what is queued | 2 clients, 4 events, buffer 2, 1 initial event, heartbeats |
| Supervise | children, exit status, order, stopping, deadlines | 3 components in both topologies (an aux service before the pair), 2 outside signals and a `dev stop` |
| Lifespan | nesting, truth of the answers, hangs | 3 mounts with 2 messages each; 615,008 states |
| DevProxy | routing, replay, one answer, WebSocket sessions | every table of two routes over 7 patterns and 3 methods, requests on 10 paths, a body of 2 chunks; one cancellation at any await of the proxy; 94,405 states |
| Parts | rate limit, user store, flags, markers, dev() | 2 clients, 2 tokens, window 3; 3 threads in 2 processes, 2 names, 2 flags; 2 markers, 2 readers; 85,721 states |

The bounds suffice for each case that the code tells apart: a failure after none,
one or two predecessors needs three components or mounts; a lost update needs two
threads of one process and one of another; a stale or half-written file needs its
writer, and a reader between the two halves of the write; an eviction needs more
than one window. More of the same adds no new kind of step, and for most safety
properties the theorems below do without the bounds.

What the passing runs show:

- `NothingOutlivesRequest`, `ResourceOutlivesStream`, `LifoTeardown`,
  `DependenciesTornDown`: all paths through three nested try blocks, a child task
  and a cancellation at any await close what was opened, in reverse order and
  after the stream. A cancelled request is excepted in the last: see findings.
- `SecondStartOnlyAfterHandlerReply`, `RequestIsAnswered`: exactly one complete
  response reaches a connected client. The only second start is the fallback after
  an exception handler's own broken response.
- `CancellationIsGenuine`, `CancelledStreamUnwinds`: a disconnect is never taken
  for a cancellation, and a cancelled stream ends the whole request.
- `UnfinishedIsExact`, `EntriesAreAccountedFor`, `InsertionOrder`: the queue's
  count is exact, an entry is in one place and never vanishes without a failure,
  and rows keep the put order even across a restart unless close() overlaps.
- `ReadsObserveUnlessClosed`, `FlushEnds`: the documented guarantees, with the
  condition under which they hold.
- `RunningIsDiscoverable`: without overlapping calls a running server's PID and port
  files are its own, so at most one runs, whatever crashed before and at whichever
  step; its descriptor is in the registry unless a reader met it half written.
- `OnlyProcessesRefuse`: without overlapping calls the files that a crash leaves never
  refuse a start. Processes do: another server that lives, a zombie whose parent is
  not the one that starts, workers that hold the port.
- `LaunchedIsRunning`: a URL of serve_background() means that its own child or a worker
  of it serves, unless calls overlap or an older server is there.
- `StopKills`: a server that stop() waits for ends, also when SIGTERM is lost, although
  stop() itself may be over before. That it is dead before its files are removed is
  what the docstring suggests and not so (see findings).
- `ImplementsLog`: the queues refine `BroadcastLog`, so a client yields every
  event from its first iteration to its pruning or close, once and in order.
- `ListedIsActive`, `QueuesDrain`: no queue outlives its generator on the list, and
  a client that keeps reading gets what is queued for it, also after pruning.
- `NoChildLeft`, `StatusIsTrue`, `StopsInReverse`, `StopReachesAll`,
  `StartIsDecided`: through signals in every window, early deaths and deaf children
  the supervisor stops what it spawned, in reverse, and ends; the registry, the
  launcher and the exit status claim no more than there is.
- `Nested`, `AnswersAreTrue`, `NeverWaitsForTheDead`, `StopEnds`: whatever the
  mounted apps do, lifetimes nest, the answers to the peer are true and shutdown is
  carried through. The one exception is in `Nested`: the mount that failed to start.
- `RoutesAreFound`: match, allowed_methods, HEAD and included routers agree, and a
  `:path` parameter is what its reference definition says.
- `ReplayIsFaithful`, `OneAnswer`, `SessionsEnd`: Vite gets the whole body, once and
  only after a 404; the client hears one response; the end of one side of a
  WebSocket ends the other and both pumps, also the one that nobody waits for. After
  a cancellation the pump to Vite may go on until the client leaves.
- `ImplementsTokenBucket`, `BucketsAreRecent`: eviction cannot be observed, and happens.
- `UpdatesAreKept`, `OverridesSurvive`, `WindowsAreCounted`, `ShellIsStopped`: what the
  threads of a process save is kept, an acknowledged override is on disk, a window
  is counted, the shell that dev() started dies with it. Each states the exception that
  the code allows: another process that saved in between, a concurrent set_override, a
  reader that takes a marker away, a Ctrl-C outside of serve().

ErrorLog, RequestLifecycle and Broadcaster stop nowhere by accident: deadlock is
checked. In the other runs the processes, requests and supervisors all end, so
they run without that check.

Every property of a passing run has a mutated definition in its module ("Mutated
form of ...") that stands for a plausible bug and violates it. Type invariants
are not among the properties of the runs: they are proved.

### Findings

`PROJECT.json` quotes the documentation each contradicts. Four have a run: the
second response start, the disconnect that unwinds nothing because it came
before the stream task was registered, the read that misses entries after a
close(), and two single-instance servers that both win. The others were met
while modelling:

- request: cleanups are abandoned when resolve() is cancelled;
- error log: a flush() hangs when close() falls between the two halves of append()
  (three threads), a write error is forgotten by a restart, and the default timing
  middleware is never given the log;
- servers: a half-written descriptor is pruned for good, an older server's
  answer satisfies `serve_background`, and stop() removes the files of a process whose
  end it has not seen, or that it may not signal;
- dev(): only the shell is killed, and Vite may live on behind it;
- broadcaster: client_count leaves out a pruned client that is still connected;
- stores: set_override is not atomic although the guide says so, and the user
  store's lock does not reach other processes;
- routing: the root route of an included router cannot be reached;
- proxy: a WebSocket session that Vite breaks is closed with a clean 1000;
- supervisor: DevProcess.stop waits for the leader of the group alone.

## Fairness

RequestLifecycle: send() answers, runnable tasks run, receive() reports a client
that is gone (ASGI and the asyncio scheduler); nothing is assumed of handlers,
factories or a generator between yields. Cleanups and aclose() are assumed to
end: a dependency that never finishes its teardown hangs its request. ErrorLog:
a thread that can run does; nobody is obliged to call. ServerInstances: stop()
goes on once begun, and the kernel carries out a SIGKILL some time; nobody has to begin
a stop, to start, to serve or to wait for a zombie, and Granian is not obliged to react
to a signal. Broadcaster: the loop wakes a generator whose
queue is not empty; how fast a response sends is up to its client, so
`QueuesDrain` speaks of a client that keeps asking. Supervise: the supervisor's
own steps are not held up, because each of its waits has a deadline, and SIGKILL
takes effect in the end; no component has to answer, settle or die otherwise.
Lifespan: the loop runs the application and its peer, and an app that was asked
to end does end, in whatever way: an app that ignores lifespan.shutdown hangs its
parent, which has no deadline there. DevProxy: the loop runs what can run and the
client sends its body or leaves; a handler need not do anything. A send to Vite or to
the client is taken to return: a pump blocked in `vite_ws.send` by a Vite that does not
read, with a client that has left meanwhile, is not in the model. Parts has no
liveness.

## Proofs

`RequestLifecycle_proofs` proves for every number of dependencies and body cap:
type correctness, `NothingOutlivesRequest`, `DependenciesTornDown`,
`LifoTeardown`, `SecondStartOnlyAfterHandlerReply`, `CancellationIsGenuine`,
`RequestIsAnswered` and the action property `ResourceOutlivesStream`. The only assumptions are that the
constants are natural numbers.

None of these is inductive. The invariant `IInv` joins: `StreamInv` (where the
request task is determines which states the child and its generator may be in),
`WatcherInv` (when a watcher exists, and that it has ended once the request task
has joined it), `DepInv` (the open dependencies are exactly the first `held`
ones), `CancelInv` (a cancellation in flight has a cause: the server, or a
recorded disconnect), `StartInv` (how many starts each place of the code can have
made) and `EndInv` (what is true at the end). TLC checked `IInv` first. The proof that a step
preserves it has one step per action; the properties then follow from `IInv`
alone, and `ResourceOutlivesStream` from `ClosingStep`, a lemma on which actions
can close a dependency. `RequestIsAnswered` speaks of requests for which nothing
has gone wrong (`Fine`), and what has gone wrong stays wrong (`FineBefore`): so
`AnsweredInv`, how far the answer has come at each place of the code, need only
hold while all is fine, where nobody is cancelled and at most one response has
begun (`QuietInv`, from `IInv`). It rests on a disconnect being noticed only after
the client has left (`AnswerInv`).

`Broadcaster_proofs` proves for every set of clients, buffer size and number of
initial events: type correctness (no queue exceeds the buffer), `ListedIsActive`,
and `ImplementsLog`, that every step is a step of `BroadcastLog` or a stutter. Its
invariant says what a queue holds: the consecutive events after `last`
(`QueueInv`), up to the newest one for a listed client and up to `prunedAt` for a
pruned one (`ReachInv`), nothing before the first iteration (`FreshInv`). That is
what makes a full queue the same as a lag of `Buffer`, and the head of a queue
the same as the next event of the log.

`ErrorLog_proofs` proves for any number of threads, entries, workers, closes and
failing writes (the threads a finite set, the bounds natural numbers): type
correctness, `UnfinishedIsExact`, `EntriesAreAccountedFor`, `InsertionOrder`,
`ReadsObserveUnlessClosed`. The count is inductive together with the types
(`QueueIsCounted` needs the cardinality of the set of workers that hold an item).
That no entry is lost rests on `OrderInv`: what waits in the queue is younger than
all that was taken out of it, so nothing is written twice. The order of the rows
needs that there is one worker while close() overlaps nothing (`SoleInv`); a second
one could start only after the sentinel was put, and `CloseInv` says that the
sentinel is then the last thing that worker sees. Reads need `FaultInv` (without a
failure a taken entry is written) and `OpenInv` (a log never closed keeps its error
for the reader), joined in `ReadInv`.

`ServerInstances_proofs` proves for any number of processes, any modes and ports:
type correctness, `RunningIsDiscoverable`, `OnlyProcessesRefuse`, `LaunchedIsRunning`,
for whichever parents the processes have, assuming that no PID equals the value
None or the two texts that are no PID. While nothing is contended, one server
starts at a time (`OneInv`), the files are those of the server that serves or
exits (`MineInv`), a starter behind its check is alone (`AloneInv`) because the one
the check found is the only other one (`SeenInv`), it finds the PID file free
(`FreeInv`), its own text stays there (`HeldInv`), and stop() removes files only
when nobody is left who is not about to be killed (`StopInv`), so that a server that
lingers after stop() is not the one the files name (`DoomInv`). `FreshInv` and
`PlaceInv` hold with contention too: a PID is found only after it was written, a
descriptor is there from its write to its exit hook unless a reader met it half
written, and only what has died leaves workers.

`Supervise_proofs` proves for every set of configurations and any number of
signals: type correctness, `NoChildLeft`, `StatusIsTrue`, `StopsInReverse`. Its
invariant relates the place of the code to the list (`PlaceInv`), the list to what
was spawned (`SpawnInv`: the window between spawning and listing is the place
"append" and nothing else), and the teardown to what is behind it (`StopInv`).

`Lifespan_proofs` proves for any number of mounts and messages: `Nested`,
`NeverWaitsForTheDead` and `AnswersAreTrue`. The second rests on `BoxInv`: the
sentinel is the last item of the queue of an ended task, and it is there until the
application took it. The third needs what the application has learnt so far:
what waits in a queue has been said, and an app whose task is told to have returned
has not raised (`HeardInv`); every mount before the one in work has started
(`StartedInv`), every one behind it is shut down while no error is noted
(`EndedInv`), and the answers are those of the place of the code (`ReportInv`).

`DevProxy_proofs` proves, for every application, path and number of chunks,
`RoutesAreFound`, `ReplayIsFaithful` and `OneAnswer`. Assumed is that routes and
paths are sequences of strings and that the prefixes of the backend, which are
compared with paths, hold no `:path` parameter.

- Routing is proved as theorems about its operators. The first `:path`
  parameter of a pattern is a least element (`LeastIsFound`, `GreedyFirst`). The
  matching of the code and the promise, expansion of the parameter to any number of
  segments, are both shown to mean `Stretched`: before, within and after the
  parameter the segments fit (`MatchIsStretch`, `ExpansionIsStretch`); hence
  `PatternsMeanWhatTheySay`. `FoundIffAllowed` needs that the first match of a table
  exists if any does (`FirstOf`). For `IncludedIsFound` a prefix without a `:path`
  parameter shifts the first one of the pattern by its own length
  (`BehindPrefix`), which covers the root path too, although no request path fits
  its pattern there. `RoutesAreFound` applies the three
  to the request before the dispatch (`AskedInv`).
- The request: `HeardInv` lists the three things that the client can have heard
  (nothing, the application, or a whole answer in its place), `StatusInv` how far
  the application is and what was noted of it, `ReplayInv` that a 404 that is held
  back has sent nothing and reaches Vite only drained and unseen, `WsInv` that a
  session is closed by its last step and no other. None is inductive alone: one
  answer needs that the 404 was held back, that needs where the request is
  (`PlaceInv`), and a replay at most once needs that its step leaves "vite".

A segment in these theorems is a string or `StrParam`, which the provers do not know
to be a string.

`Parts_proofs` proves, for any threads, names, flags, markers and readers,
`UpdatesAreKept`, `OverridesSurvive`, `WindowsAreCounted` and `ShellIsStopped`, each
from a small invariant: one thread of a process works at a time on what the file
holds unless another process saved (`UsersInv`); what is written is what the
process has in memory (`FlagsInv`); a marker that a reader owes is found or still
to be read (`MarksInv`). Assumed is only that the marks for "no operation", "no
JSON" and "no marker" are not themselves data. For the rate limit it proves, for any
clients, any burst and any window of at least one tick, type correctness,
`ImplementsTokenBucket` (a sweep is unseen because a bucket idle for a window is
full, `SweepIsUnseen`; a tick is a refill; a request takes a token from the computed
level) and `BucketsAreRecent`, from `RecentInv`: no bucket is older than a window
and the time since the last sweep.

Every safety invariant and every action property that a passing run checks is
proved. Only model-checked are the liveness properties, because fairness and ENABLED
are out of the prover's reach: `CancelledStreamUnwinds`, `FlushEnds`, `StopKills`,
`QueuesDrain`, `StopReachesAll`, `StartIsDecided`, `StopEnds`, `SessionsEnd`. What
five of them rest on besides fairness is safety, and proved for every value of the
constants:

- a bound on the steps that are left, which every step of the actor lowers and which
  nobody else raises. `Bounded` of `Supervise_proofs`: 8N + 6 steps for N components,
  not counting the rounds of the loop while all are ready and nobody asks to stop
  (`StopReachesAll`, `StartIsDecided`). `Bounded` of `Lifespan_proofs`: 5N + 5 steps for
  N mounts (`StopEnds`). `Bounded` of `RequestLifecycle_proofs`: NDeps + 8 steps of the
  request and its child from the start of the response, not counting the rounds of a
  generator that nobody has cancelled (`CancelledStreamUnwinds`);
- the one that is waited for is not the wrong one. `JoinsWhatEnds`: the request joins
  a watcher that was cancelled or has ended. `Served`: while close() overlaps nothing,
  a caller of flush() has a worker with something to do that ends for no sentinel
  before (`FlushEnds`).

That the actor takes its next step, because it can and is scheduled, stays with TLC.

## Plan and limits

1. RequestLifecycle, ErrorLog, ServerInstances, Broadcaster with its log: done,
   with their proofs.
2. Supervise and Dev, Lifespan, Routing and DevProxy, RateLimit with its bucket,
   Stores, Markers: done, with proofs of what is safety.
3. Left: ErrorLog as an implementation of an abstract append-only log;
   ServerInstances with the embedded server.

### Not modelled

- The embedded server of serve(foreground = False), stop_background() and reload:
  a thread of the caller, and Granian's own supervision of its workers.
- status(), which changes nothing, and the pruning of dead development instances,
  which is list_instances() again.
- `tasks.py`: one caller starts and stops a list; no state that two callers share.
- What lives in a component's process group behind its leader: the code signals the
  group and waits for the leader alone (see findings). What lives behind the shell of
  dev(), Vite included: the code signals the shell alone (see findings).
- Configuration and command line, header and cookie formatting, JWT, password
  hashes, roles and the CSRF comparison, responses, logging, MCP registration,
  templates and browser code: functions of one input, or calls of libraries, with
  no state that actors share.
- Contents of messages, chunks and headers, and the clock where only the order of
  a deadline and an answer matters.
