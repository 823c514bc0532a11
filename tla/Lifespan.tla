------------------------------ MODULE Lifespan ------------------------------
(***************************************************************************)
(* The lifespan of an application with mounted sub-apps (fastware.app) and *)
(* its peer, the _LifespanManager of the test clients (fastware.testing),  *)
(* awaited by the async client, or for thirty seconds by the sync one.     *)
(*                                                                         *)
(* Each mounted app runs in a task of its own behind two private queues.   *)
(* It is any code: it may speak out of turn, raise, return early or never  *)
(* answer.  A mount is its position in router._mounts.                     *)
(***************************************************************************)
EXTENDS Naturals, Sequences

CONSTANTS
    NMounts,    \* how many sub-apps are mounted
    MaxSends    \* bound: the messages a sub-app sends

ASSUME ConstantsAssumption == NMounts \in Nat /\ MaxSends \in Nat

VARIABLES
    pc,         \* the lifespan branch of app()
    ctx,        \* the lifespan context manager: "none" when there is none
    at,         \* the mount that is being started or shut down
    starting,   \* the startup has not been answered yet
    errors,     \* shutdown_errors is not empty
    answers,    \* the messages the application has sent to its peer
    task,       \* each mount's task: "new", "running" or "over"
    asked,      \* the mounts that were sent lifespan.shutdown
    supports,   \* the handles with supports_lifespan
    sent,       \* each mounted app's own messages, in order
    box,        \* each handle's _from_app queue
    raised,     \* the mounted apps that ended by raising
    failed,     \* the mount whose startup failed, or 0
    peer        \* the test client's manager

mounts == <<task, asked, supports, sent, box, raised>>
parent == <<pc, ctx, at, starting, errors, answers, failed>>
vars   == <<parent, mounts, peer>>

Mounts   == 1 .. NMounts
Messages == {"startup.complete", "startup.failed",
             "shutdown.complete", "shutdown.failed"}
Signs    == {"unsupported", "error", "exited"}      \* the internal sentinels

TypeOK ==
    /\ pc \in {"begin", "mounts", "starting", "serving", "stopping", "asking",
               "joining", "answer", "over"}
    /\ ctx \in {"none", "new", "entered", "exited"}
    /\ at \in 0 .. NMounts
    /\ starting \in BOOLEAN /\ errors \in BOOLEAN
    /\ answers \in Seq(Messages)
    /\ task \in [Mounts -> {"new", "running", "over"}]
    /\ asked \subseteq Mounts /\ supports \subseteq Mounts /\ raised \subseteq Mounts
    /\ sent \in [Mounts -> Seq(Messages)]
    /\ box \in [Mounts -> Seq(Messages \cup Signs)]
    /\ failed \in 0 .. NMounts
    /\ peer \in {"starting", "entered", "closing", "closed", "raised"}

Init ==
    /\ pc = "begin" /\ ctx \in {"none", "new"}
    /\ at = 0 /\ starting = TRUE /\ errors = FALSE /\ answers = <<>>
    /\ task = [a \in Mounts |-> "new"]
    /\ asked = {} /\ supports = Mounts /\ raised = {}
    /\ sent = [a \in Mounts |-> <<>>] /\ box = [a \in Mounts |-> <<>>]
    /\ failed = 0 /\ peer = "starting"

-----------------------------------------------------------------------------
(* Startup.                                                                *)

Send(m) == answers' = Append(answers, m)

EnterContext ==
    /\ pc = "begin"
    /\ pc' = "mounts"
    /\ ctx' = IF ctx = "new" THEN "entered" ELSE ctx
    /\ UNCHANGED <<at, starting, errors, answers, failed, mounts, peer>>

ContextFails ==
    /\ pc = "begin" /\ ctx = "new"
    /\ pc' = "over" /\ Send("startup.failed")
    /\ UNCHANGED <<ctx, at, starting, errors, failed, mounts, peer>>

\* _MountLifespan.startup() of the next mount, up to its wait.
StartMount ==
    /\ pc = "mounts" /\ at < NMounts
    /\ pc' = "starting" /\ at' = at + 1
    /\ task' = [task EXCEPT ![at + 1] = "running"]
    /\ UNCHANGED <<ctx, starting, errors, answers, failed, asked, supports, sent,
                   box, raised, peer>>

Took(a) == box' = [box EXCEPT ![a] = Tail(@)]

MountStarted ==
    /\ pc = "starting" /\ box[at] # <<>>
    /\ Head(box[at]) \in {"startup.complete", "unsupported"}
    /\ Took(at)
    /\ supports' = IF Head(box[at]) = "unsupported" THEN supports \ {at} ELSE supports
    /\ pc' = "mounts"
    /\ UNCHANGED <<ctx, at, starting, errors, answers, failed, task, asked, sent,
                   raised, peer>>

\* The failing mount is not on started_mounts: its task is left as it is.
MountFails ==
    /\ pc = "starting" /\ box[at] # <<>>
    /\ Head(box[at]) \notin {"startup.complete", "unsupported"}
    /\ Took(at)
    /\ failed' = at /\ at' = at - 1
    /\ pc' = "stopping"
    /\ UNCHANGED <<ctx, starting, errors, answers, task, asked, supports, sent,
                   raised, peer>>

AllStarted ==
    /\ pc = "mounts" /\ at = NMounts
    /\ pc' = "serving" /\ starting' = FALSE /\ Send("startup.complete")
    /\ UNCHANGED <<ctx, at, errors, failed, mounts, peer>>

-----------------------------------------------------------------------------
(* Shutdown, and the rollback of a failed startup: from the last started   *)
(* mount to the first, then the context.                                   *)

ReceiveShutdown ==
    /\ pc = "serving" /\ peer = "closing"
    /\ pc' = "stopping"
    /\ UNCHANGED <<ctx, at, starting, errors, answers, failed, mounts, peer>>

\* _MountLifespan.shutdown() of a mount that does not speak lifespan.
SkipMount ==
    /\ pc = "stopping" /\ at > 0 /\ at \notin supports
    /\ at' = at - 1
    /\ UNCHANGED <<pc, ctx, starting, errors, answers, failed, mounts, peer>>

\* Mutated form of AskMount: the message is not put into the queue.
AskMountSilently ==
    /\ pc = "stopping" /\ at > 0 /\ at \in supports
    /\ pc' = "asking"
    /\ UNCHANGED <<ctx, at, starting, errors, answers, failed, mounts, peer>>

AskMount ==
    /\ pc = "stopping" /\ at > 0 /\ at \in supports
    /\ asked' = asked \cup {at}
    /\ pc' = "asking"
    /\ UNCHANGED <<ctx, at, starting, errors, answers, failed, task, supports, sent,
                   box, raised, peer>>

\* Mutated form of MountAnswers: the end of the task is not awaited.
MountAnswersUnjoined ==
    /\ pc = "asking" /\ box[at] # <<>>
    /\ Took(at)
    /\ errors' = (errors \/ Head(box[at]) \notin {"shutdown.complete", "exited"})
    /\ pc' = "stopping" /\ at' = at - 1
    /\ UNCHANGED <<ctx, starting, answers, failed, task, asked, supports, sent,
                   raised, peer>>

\* Mutated form of MountAnswers: an app that ended is taken for one that is done.
MountAnswersLeniently ==
    /\ pc = "asking" /\ box[at] # <<>>
    /\ Took(at)
    /\ errors' = (errors \/ Head(box[at]) \notin {"shutdown.complete", "exited", "error"})
    /\ pc' = "joining"
    /\ UNCHANGED <<ctx, at, starting, answers, failed, task, asked, supports, sent,
                   raised, peer>>

MountAnswers ==
    /\ pc = "asking" /\ box[at] # <<>>
    /\ Took(at)
    /\ errors' = (errors \/ Head(box[at]) \notin {"shutdown.complete", "exited"})
    /\ pc' = "joining"
    /\ UNCHANGED <<ctx, at, starting, answers, failed, task, asked, supports, sent,
                   raised, peer>>

MountJoined ==
    /\ pc = "joining" /\ task[at] = "over"
    /\ pc' = "stopping" /\ at' = at - 1
    /\ UNCHANGED <<ctx, starting, errors, answers, failed, mounts, peer>>

\* __aexit__, which may raise.
ExitContext ==
    /\ pc = "stopping" /\ at = 0
    /\ pc' = "answer"
    /\ ctx' = IF ctx = "entered" THEN "exited" ELSE ctx
    /\ errors' \in IF ctx = "entered" THEN {errors, TRUE} ELSE {errors}
    /\ UNCHANGED <<at, starting, answers, failed, mounts, peer>>

\* A failed startup is reported with its own error only.
Answer ==
    /\ pc = "answer"
    /\ Send(IF starting THEN "startup.failed"
            ELSE IF errors THEN "shutdown.failed" ELSE "shutdown.complete")
    /\ pc' = "over"
    /\ UNCHANGED <<ctx, at, starting, errors, failed, mounts, peer>>

-----------------------------------------------------------------------------
(* A mounted app in its task, _MountLifespan._run().                       *)

Put(a, m) == box' = [box EXCEPT ![a] = Append(@, m)]

AppSends(a, m) ==
    /\ task[a] = "running" /\ Len(sent[a]) < MaxSends
    /\ sent' = [sent EXCEPT ![a] = Append(@, m)]
    /\ Put(a, m)
    /\ UNCHANGED <<parent, task, asked, supports, raised, peer>>

\* Mutated form of AppReturns: an app that has spoken leaves no sentinel.
AppReturnsSilently(a) ==
    /\ task[a] = "running"
    /\ task' = [task EXCEPT ![a] = "over"]
    /\ IF sent[a] = <<>> THEN Put(a, "unsupported") ELSE UNCHANGED box
    /\ UNCHANGED <<parent, asked, supports, sent, raised, peer>>

AppReturns(a) ==
    /\ task[a] = "running"
    /\ task' = [task EXCEPT ![a] = "over"]
    /\ Put(a, IF sent[a] = <<>> THEN "unsupported" ELSE "exited")
    /\ UNCHANGED <<parent, asked, supports, sent, raised, peer>>

AppRaises(a) ==
    /\ task[a] = "running"
    /\ task' = [task EXCEPT ![a] = "over"]
    /\ raised' = raised \cup {a}
    /\ Put(a, IF sent[a] = <<>> THEN "unsupported" ELSE "error")
    /\ UNCHANGED <<parent, asked, supports, sent, peer>>

-----------------------------------------------------------------------------
(* _LifespanManager: startup() raises what it is told, a test that entered *)
(* runs its requests and then shutdown() does the same.                    *)

PeerStarted ==
    /\ peer = "starting" /\ Len(answers) = 1
    /\ peer' = IF answers[1] = "startup.complete" THEN "entered" ELSE "raised"
    /\ UNCHANGED <<parent, mounts>>

PeerCloses ==
    /\ peer = "entered"
    /\ peer' = "closing"
    /\ UNCHANGED <<parent, mounts>>

\* The event is set; then the application's task is awaited.
PeerClosed ==
    /\ peer = "closing" /\ Len(answers) = 2 /\ pc = "over"
    /\ peer' = IF answers[2] = "shutdown.complete" THEN "closed" ELSE "raised"
    /\ UNCHANGED <<parent, mounts>>

\* The sync client waits thirty seconds for either; what runs in its loop goes on.
PeerTimesOut ==
    /\ peer \in {"starting", "closing"}
    /\ peer' = "raised"
    /\ UNCHANGED <<parent, mounts>>

-----------------------------------------------------------------------------
Parent ==
    \/ EnterContext \/ ContextFails \/ StartMount \/ MountStarted \/ MountFails
    \/ AllStarted \/ ReceiveShutdown \/ SkipMount \/ AskMount \/ MountAnswers
    \/ MountJoined \/ ExitContext \/ Answer

SubApp(a) == (\E m \in Messages : AppSends(a, m)) \/ AppReturns(a) \/ AppRaises(a)

Peer == PeerStarted \/ PeerCloses \/ PeerClosed

Next == Parent \/ (\E a \in Mounts : SubApp(a)) \/ Peer \/ PeerTimesOut

\* The loop runs what can run.  A mounted app need not answer its startup, but
\* one that was asked to shut down ends some time; without that the parent
\* waits for it forever.  The test ends.
Fairness ==
    /\ WF_vars(Parent) /\ WF_vars(Peer)
    /\ \A a \in Mounts : WF_vars(a \in asked /\ (AppReturns(a) \/ AppRaises(a)))

Spec == Init /\ [][Next]_vars /\ Fairness

-----------------------------------------------------------------------------
(* Properties.                                                             *)

\* Lifetimes are nested: a mount is asked to shut down only when every mount
\* started after it has ended, and none runs any more when the context is left
\* or the application has answered.  Only the mount that failed to start is
\* excepted: it was never asked, and nobody waits for its task.
Nested ==
    \A b \in Mounts \ {failed} : task[b] = "running" =>
        /\ \A a \in asked : ~(a < b)
        /\ ctx # "exited" /\ pc # "over"

Said(a, m) == \E n \in DOMAIN sent[a] : sent[a][n] = m

\* The startup is reported complete when every mount has said so or does not
\* speak lifespan, and the shutdown is reported complete only if no mounted app
\* that spoke has raised without first answering.  What is not complete is
\* raised in the test.
AnswersAreTrue ==
    /\ \A k \in DOMAIN answers : answers[k] = "startup.complete" =>
          \A a \in supports : Said(a, "startup.complete")
    /\ \A k \in DOMAIN answers : answers[k] = "shutdown.complete" =>
          \A a \in raised \cap supports : Said(a, "shutdown.complete")
    /\ peer \in {"entered", "closing", "closed"} => answers[1] = "startup.complete"
    /\ peer = "closed" => answers[Len(answers)] = "shutdown.complete"

\* A failed startup was rolled back and a shutdown is carried through, however
\* the mounted apps answer, whether they speak lifespan or ended long before.
StopEnds == pc = "stopping" ~> peer \in {"closed", "raised"}

\* The application is never left waiting for a mounted app that has ended.
NeverWaitsForTheDead ==
    pc \in {"starting", "asking"} /\ task[at] = "over" => box[at] # <<>>
=============================================================================
