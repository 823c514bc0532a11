---------------------------- MODULE Lifespan_proofs ----------------------------
(***************************************************************************)
(* For every number of mounted apps, and whatever they send: lifetimes are *)
(* nested, and the application never waits for an app that has ended.      *)
(***************************************************************************)
EXTENDS Lifespan, TLAPS

\* What is known of the mount in work, and of those that are not started yet.
PlaceInv ==
    /\ pc \in {"begin", "answer", "over"} => at = 0
    /\ pc \in {"starting", "asking", "joining"} => at \in Mounts
    /\ pc \in {"starting", "asking"} => at \in supports
    /\ pc \in {"begin", "mounts", "starting"} =>
          \A a \in Mounts : a > at => task[a] = "new"
    /\ pc \in {"begin", "mounts", "starting", "serving"} => asked = {}
    /\ ctx = "exited" => pc \in {"answer", "over"}

\* Who runs, who was asked to end, and who did not speak lifespan.
TaskInv ==
    /\ \A a \in Mounts \ {failed} : task[a] = "running" => a <= at
    /\ \A a \in asked : a >= at
    /\ \A a \in Mounts \ supports : task[a] = "over"

\* The end of a task leaves a sentinel, which is the last that its queue holds and
\* is there until the application has taken it.
BoxInv ==
    /\ \A a \in Mounts : \A n \in DOMAIN box[a] : box[a][n] \in Signs => task[a] = "over"
    /\ \A a \in Mounts : task[a] = "over" /\ box[a] # <<>> => box[a][Len(box[a])] \in Signs
    /\ \A a \in supports : task[a] = "over" /\ a <= at /\ ~(a = at /\ pc = "joining")
          => box[a] # <<>>

IInv == TypeOK /\ PlaceInv /\ TaskInv /\ BoxInv

-----------------------------------------------------------------------------
(* What Took and Put do to a queue.                                        *)

LEMMA TailOf ==
    ASSUME NEW S, NEW q \in Seq(S), q # <<>>
    PROVE  /\ Len(q) \in Nat /\ Len(q) >= 1 /\ 1 \in DOMAIN q /\ Head(q) = q[1]
           /\ Tail(q) \in Seq(S) /\ Len(Tail(q)) = Len(q) - 1
           /\ DOMAIN Tail(q) = 1 .. Len(q) - 1
           /\ \A n \in 1 .. Len(q) - 1 : Tail(q)[n] = q[n + 1] /\ n + 1 \in DOMAIN q
           /\ Tail(q) # <<>> => Tail(q)[Len(Tail(q))] = q[Len(q)]
           /\ Tail(q) = <<>> => Head(q) = q[Len(q)]
<1>1. Len(q) \in Nat /\ Len(q) >= 1 /\ DOMAIN q = 1 .. Len(q) /\ Head(q) = q[1]
    OBVIOUS
<1>2. Tail(q) \in Seq(S) /\ Len(Tail(q)) = Len(q) - 1
    OBVIOUS
<1>3. \A n \in 1 .. Len(Tail(q)) : Tail(q)[n] = q[n + 1]
    OBVIOUS
<1>4. DOMAIN Tail(q) = 1 .. Len(q) - 1
    BY <1>1, <1>2
<1>5. Tail(q) # <<>> => Len(Tail(q)) >= 1
    BY <1>2
<1>6. Tail(q) = <<>> => Len(q) = 1
    <2>1. Len(<<>>) = 0
        OBVIOUS
    <2>2. Tail(q) = <<>> => Len(Tail(q)) = 0
        BY <2>1, Zenon
    <2>3. QED BY <1>1, <1>2, <2>2
<1>7. Len(Tail(q)) \in Nat
    BY <1>2
<1>8. QED BY <1>1, <1>2, <1>3, <1>4, <1>5, <1>6, <1>7

LEMMA AppendOf ==
    ASSUME NEW S, NEW q \in Seq(S), NEW e \in S
    PROVE  /\ Len(q) \in Nat
           /\ Append(q, e) \in Seq(S) /\ Append(q, e) # <<>>
           /\ Len(Append(q, e)) = Len(q) + 1 /\ Append(q, e)[Len(q) + 1] = e
           /\ DOMAIN Append(q, e) = 1 .. Len(q) + 1 /\ DOMAIN q = 1 .. Len(q)
           /\ \A n \in 1 .. Len(q) : Append(q, e)[n] = q[n]
OBVIOUS

LEMMA Initially == Init => IInv
<1> SUFFICES ASSUME Init PROVE IInv
    OBVIOUS
<1>1. TypeOK
    <2>1. <<>> \in Seq(Messages) /\ <<>> \in Seq(Messages \cup Signs)
        OBVIOUS
    <2>2. /\ sent \in [Mounts -> Seq(Messages)]
          /\ box \in [Mounts -> Seq(Messages \cup Signs)]
        BY <2>1 DEF Init
    <2>3. at \in 0 .. NMounts /\ failed \in 0 .. NMounts
        BY ConstantsAssumption DEF Init
    <2>4. task \in [Mounts -> {"new", "running", "over"}]
        BY DEF Init
    <2>5. QED BY <2>1, <2>2, <2>3, <2>4 DEF Init, TypeOK
<1>2. PlaceInv
    BY DEF Init, PlaceInv
<1>3. TaskInv
    BY DEF Init, TaskInv
<1>4. BoxInv
    BY DEF Init, BoxInv
<1>5. QED BY <1>1, <1>2, <1>3, <1>4 DEF IInv

-----------------------------------------------------------------------------
\* The application takes the first message of the mount in work.
TookEffect ==
    /\ box' \in [Mounts -> Seq(Messages \cup Signs)]
    /\ \A a \in Mounts : a # at => box'[a] = box[a]
    /\ \A a \in Mounts : \A n \in DOMAIN box'[a] : box'[a][n] \in Signs => task[a] = "over"
    /\ \A a \in Mounts : task[a] = "over" /\ box'[a] # <<>> => box'[a][Len(box'[a])] \in Signs
    /\ Head(box[at]) \in Signs => task[at] = "over"
    /\ task[at] = "over" /\ box'[at] = <<>> => Head(box[at]) \in Signs

LEMMA TookKeeps ==
    ASSUME IInv, pc \in {"starting", "asking"}, box[at] # <<>>, Took(at), task' = task
    PROVE  TookEffect
<1> DEFINE q == box[at]
<1>1. /\ at \in Mounts /\ box \in [Mounts -> Seq(Messages \cup Signs)]
      /\ q \in Seq(Messages \cup Signs) /\ q # <<>>
    BY DEF IInv, TypeOK, PlaceInv
<1>2. /\ \A a \in Mounts : a # at => box'[a] = box[a]
      /\ box'[at] = Tail(q)
    BY <1>1 DEF Took
<1>3. /\ Tail(q) \in Seq(Messages \cup Signs) /\ 1 \in DOMAIN q /\ Head(q) = q[1]
      /\ DOMAIN Tail(q) = 1 .. Len(q) - 1
      /\ \A n \in 1 .. Len(q) - 1 : Tail(q)[n] = q[n + 1] /\ n + 1 \in DOMAIN q
      /\ Tail(q) # <<>> => Tail(q)[Len(Tail(q))] = q[Len(q)]
      /\ Tail(q) = <<>> => Head(q) = q[Len(q)]
    BY <1>1, TailOf
<1>4. box' \in [Mounts -> Seq(Messages \cup Signs)]
    BY <1>1, <1>3 DEF Took
<1>5. /\ \A n \in DOMAIN q : q[n] \in Signs => task[at] = "over"
      /\ task[at] = "over" => q[Len(q)] \in Signs
    BY <1>1 DEF IInv, BoxInv
<1>6. \A n \in DOMAIN box'[at] : box'[at][n] \in Signs => task[at] = "over"
    BY <1>2, <1>3, <1>5
<1>7. task[at] = "over" /\ box'[at] # <<>> => box'[at][Len(box'[at])] \in Signs
    BY <1>2, <1>3, <1>5
<1>8. Head(q) \in Signs => task[at] = "over"
    BY <1>3, <1>5
<1>9. task[at] = "over" /\ box'[at] = <<>> => Head(q) \in Signs
    BY <1>2, <1>3, <1>5
<1>10. \A a \in Mounts : a # at =>
          /\ \A n \in DOMAIN box'[a] : box'[a][n] \in Signs => task[a] = "over"
          /\ task[a] = "over" /\ box'[a] # <<>> => box'[a][Len(box'[a])] \in Signs
    BY <1>2 DEF IInv, BoxInv
<1>11. QED BY <1>2, <1>4, <1>6, <1>7, <1>8, <1>9, <1>10 DEF TookEffect

\* A mounted app that runs, or whose task ends, puts a message into its queue.
LEMMA PutKeeps ==
    ASSUME IInv, NEW a \in Mounts, task[a] = "running", NEW m \in Messages \cup Signs,
           Put(a, m), task' \in [Mounts -> {"new", "running", "over"}],
           \A b \in Mounts : b # a => task'[b] = task[b],
           m \in Signs <=> task'[a] = "over", UNCHANGED <<supports, at, pc>>
    PROVE  /\ box' \in [Mounts -> Seq(Messages \cup Signs)]
           /\ BoxInv'
<1> DEFINE q == box[a]
<1>1. /\ box \in [Mounts -> Seq(Messages \cup Signs)]
      /\ q \in Seq(Messages \cup Signs) /\ supports \subseteq Mounts
    BY DEF IInv, TypeOK
<1>2. /\ \A b \in Mounts : b # a => box'[b] = box[b]
      /\ box'[a] = Append(q, m)
    BY <1>1 DEF Put
<1>3. /\ Len(q) \in Nat
      /\ Append(q, m) \in Seq(Messages \cup Signs) /\ Append(q, m) # <<>>
      /\ Len(Append(q, m)) = Len(q) + 1 /\ Append(q, m)[Len(q) + 1] = m
      /\ DOMAIN Append(q, m) = 1 .. Len(q) + 1 /\ DOMAIN q = 1 .. Len(q)
      /\ \A n \in 1 .. Len(q) : Append(q, m)[n] = q[n]
    <2> DEFINE S == Messages \cup Signs
    <2>1. q \in Seq(S) /\ m \in S
        BY <1>1
    <2> HIDE DEF q, S
    <2>2. /\ Len(q) \in Nat
          /\ Append(q, m) \in Seq(S) /\ Append(q, m) # <<>>
          /\ Len(Append(q, m)) = Len(q) + 1 /\ Append(q, m)[Len(q) + 1] = m
          /\ DOMAIN Append(q, m) = 1 .. Len(q) + 1 /\ DOMAIN q = 1 .. Len(q)
          /\ \A n \in 1 .. Len(q) : Append(q, m)[n] = q[n]
        BY <2>1, AppendOf
    <2>3. QED BY <2>2 DEF S
<1>4. box' \in [Mounts -> Seq(Messages \cup Signs)]
    BY <1>1, <1>3 DEF Put
<1>5. \A n \in DOMAIN q : q[n] \notin Signs
    BY DEF IInv, BoxInv
<1>6. \A n \in DOMAIN box'[a] : box'[a][n] \in Signs => task'[a] = "over"
    BY <1>2, <1>3, <1>5
<1>7. task'[a] = "over" => box'[a][Len(box'[a])] \in Signs
    BY <1>2, <1>3
<1>8. \A b \in Mounts : \A n \in DOMAIN box'[b] : box'[b][n] \in Signs => task'[b] = "over"
    BY <1>2, <1>6 DEF IInv, BoxInv
<1>9. \A b \in Mounts : task'[b] = "over" /\ box'[b] # <<>> => box'[b][Len(box'[b])] \in Signs
    BY <1>2, <1>7 DEF IInv, BoxInv
<1>10. \A b \in supports : task'[b] = "over" /\ b <= at /\ ~(b = at /\ pc = "joining")
          => box'[b] # <<>>
    BY <1>1, <1>2, <1>3 DEF IInv, BoxInv
<1>11. QED BY <1>4, <1>8, <1>9, <1>10 DEF BoxInv

-----------------------------------------------------------------------------
\* Every step of the application, of a mounted app and of the test client
\* preserves the invariant.
LEMMA NextKeeps == ASSUME IInv, [Next]_vars PROVE IInv'
<1>0. /\ NMounts \in Nat /\ Mounts = 1 .. NMounts /\ supports \subseteq Mounts
      /\ asked \subseteq Mounts /\ at \in 0 .. NMounts
    BY ConstantsAssumption DEF Mounts, IInv, TypeOK
<1>1. CASE EnterContext
    BY <1>0, <1>1 DEF IInv, TypeOK, PlaceInv, TaskInv, BoxInv, EnterContext, mounts
<1>2. CASE ContextFails
    <2>0. answers' \in Seq(Messages)
        BY <1>2 DEF ContextFails, Send, Messages, IInv, TypeOK
    <2>1. TypeOK'
        BY <2>0, <1>0, <1>2 DEF IInv, TypeOK, PlaceInv, ContextFails, mounts
    <2>2. PlaceInv'
        BY <1>0, <1>2 DEF IInv, TypeOK, PlaceInv, ContextFails, mounts
    <2>3. TaskInv'
        BY <1>0, <1>2 DEF IInv, TypeOK, PlaceInv, TaskInv, ContextFails, mounts
    <2>4. BoxInv'
        BY <1>0, <1>2 DEF IInv, TypeOK, PlaceInv, TaskInv, BoxInv, ContextFails, mounts
    <2>5. QED BY <2>1, <2>2, <2>3, <2>4 DEF IInv
<1>3. CASE StartMount
    <2>1. TypeOK'
        BY <1>0, <1>3 DEF IInv, TypeOK, PlaceInv, StartMount, mounts
    <2>2. PlaceInv'
        <3>1. at' = at + 1 /\ at + 1 \in Mounts /\ pc' = "starting" /\ asked' = asked
                /\ supports' = supports /\ ctx' = ctx /\ pc = "mounts"
            BY <1>0, <1>3 DEF StartMount
        <3>2. \A a \in Mounts : a > at => task[a] = "new"
            BY <3>1 DEF IInv, PlaceInv
        <3>3. at + 1 \in supports
            BY <1>0, <3>1, <3>2 DEF IInv, TaskInv
        <3>4. \A a \in Mounts : a > at + 1 => task'[a] = "new"
            BY <1>0, <1>3, <3>2 DEF IInv, TypeOK, StartMount
        <3>5. QED BY <3>1, <3>3, <3>4 DEF IInv, PlaceInv
    <2>3. TaskInv'
        BY <1>0, <1>3 DEF IInv, TypeOK, PlaceInv, TaskInv, StartMount, mounts
    <2>4. BoxInv'
        <3>1. /\ box' = box /\ supports' = supports /\ at' = at + 1
              /\ at + 1 \in Mounts /\ pc = "mounts" /\ task'[at + 1] = "running"
              /\ \A a \in Mounts : a # at + 1 => task'[a] = task[a]
            BY <1>0, <1>3 DEF IInv, TypeOK, StartMount
        <3>2. \A n \in DOMAIN box[at + 1] : box[at + 1][n] \notin Signs
            <4>1. at + 1 > at /\ at + 1 \in Mounts
                BY <1>0, <3>1
            <4>2. \A a \in Mounts : a > at => task[a] = "new"
                BY <3>1 DEF IInv, PlaceInv
            <4>3. task[at + 1] = "new"
                BY <4>1, <4>2
            <4>4. \A a \in Mounts : task[a] = "new" =>
                    \A n \in DOMAIN box[a] : box[a][n] \notin Signs
                BY DEF IInv, BoxInv
            <4>5. QED BY <4>1, <4>3, <4>4
        <3>3. \A b \in supports : b # at + 1 /\ b <= at + 1 => b <= at
            BY <1>0
        <3>4. QED BY <1>0, <3>1, <3>2, <3>3 DEF IInv, BoxInv
    <2>5. QED BY <2>1, <2>2, <2>3, <2>4 DEF IInv
<1>4. CASE MountStarted
    <2>1. Took(at) /\ box[at] # <<>> /\ task' = task /\ pc \in {"starting", "asking"}
        BY <1>4 DEF MountStarted
    <2>2. TookEffect
        BY <2>1, TookKeeps
    <2>3. TypeOK'
        <3>1. at \in Mounts /\ at' \in 0 .. NMounts
            BY <1>0, <1>4 DEF IInv, TypeOK, PlaceInv, MountStarted
        <3>2. QED BY <1>0, <1>4, <2>2, <3>1 DEF TookEffect, IInv, TypeOK, MountStarted
    <2>4. PlaceInv'
        BY <1>0, <1>4 DEF IInv, PlaceInv, MountStarted
    <2>5. TaskInv'
        BY <1>0, <1>4, <2>2 DEF TookEffect, IInv, TypeOK, PlaceInv, TaskInv, Signs, MountStarted
    <2>6. BoxInv'
        <3>1. \A a \in supports' : a \in Mounts
            BY <2>3 DEF TypeOK
        <3>2. \A a \in supports' : a # at /\ task'[a] = "over" /\ a <= at'
                                      /\ ~(a = at' /\ pc' = "joining") => box'[a] # <<>>
            <4>1. supports' \subseteq supports /\ at' <= at /\ task' = task
                BY <1>0, <1>4 DEF MountStarted
            <4>2. \A a \in supports' : a <= at' => a <= at
                BY <1>0, <3>1, <4>1, <1>4 DEF MountStarted
            <4>3. QED BY <2>2, <3>1, <4>1, <4>2 DEF TookEffect, IInv, BoxInv
        <3>3. at \in supports' /\ task'[at] = "over" /\ at <= at'
                                  /\ ~(at = at' /\ pc' = "joining") => box'[at] # <<>>
            BY <1>0, <1>4, <2>2 DEF TookEffect, IInv, PlaceInv, BoxInv, Signs, MountStarted
        <3>4. QED BY <2>1, <2>2, <3>2, <3>3 DEF TookEffect, BoxInv
    <2>7. QED BY <2>3, <2>4, <2>5, <2>6 DEF IInv
<1>5. CASE MountFails
    <2>1. Took(at) /\ box[at] # <<>> /\ task' = task /\ pc \in {"starting", "asking"}
        BY <1>5 DEF MountFails
    <2>2. TookEffect
        BY <2>1, TookKeeps
    <2>3. TypeOK'
        <3>1. at \in Mounts /\ at' \in 0 .. NMounts
            BY <1>0, <1>5 DEF IInv, TypeOK, PlaceInv, MountFails
        <3>2. QED BY <1>0, <1>5, <2>2, <3>1 DEF TookEffect, IInv, TypeOK, MountFails
    <2>4. PlaceInv'
        BY <1>0, <1>5 DEF IInv, PlaceInv, MountFails
    <2>5. TaskInv'
        BY <1>0, <1>5, <2>2 DEF TookEffect, IInv, TypeOK, PlaceInv, TaskInv, Signs, MountFails
    <2>6. BoxInv'
        <3>1. \A a \in supports' : a \in Mounts
            BY <2>3 DEF TypeOK
        <3>2. \A a \in supports' : a # at /\ task'[a] = "over" /\ a <= at'
                                      /\ ~(a = at' /\ pc' = "joining") => box'[a] # <<>>
            <4>1. supports' \subseteq supports /\ at' <= at /\ task' = task
                BY <1>0, <1>5 DEF MountFails
            <4>2. \A a \in supports' : a <= at' => a <= at
                BY <1>0, <3>1, <4>1, <1>5 DEF MountFails
            <4>3. QED BY <2>2, <3>1, <4>1, <4>2 DEF TookEffect, IInv, BoxInv
        <3>3. at \in supports' /\ task'[at] = "over" /\ at <= at'
                                  /\ ~(at = at' /\ pc' = "joining") => box'[at] # <<>>
            BY <1>0, <1>5, <2>2 DEF TookEffect, IInv, PlaceInv, BoxInv, Signs, MountFails
        <3>4. QED BY <2>1, <2>2, <3>2, <3>3 DEF TookEffect, BoxInv
    <2>7. QED BY <2>3, <2>4, <2>5, <2>6 DEF IInv
<1>6. CASE AllStarted
    <2>0. answers' \in Seq(Messages)
        BY <1>6 DEF AllStarted, Send, Messages, IInv, TypeOK
    <2>1. TypeOK'
        BY <2>0, <1>0, <1>6 DEF IInv, TypeOK, PlaceInv, AllStarted, mounts
    <2>2. PlaceInv'
        BY <1>0, <1>6 DEF IInv, TypeOK, PlaceInv, AllStarted, mounts
    <2>3. TaskInv'
        BY <1>0, <1>6 DEF IInv, TypeOK, PlaceInv, TaskInv, AllStarted, mounts
    <2>4. BoxInv'
        BY <1>0, <1>6 DEF IInv, TypeOK, PlaceInv, TaskInv, BoxInv, AllStarted, mounts
    <2>5. QED BY <2>1, <2>2, <2>3, <2>4 DEF IInv
<1>7. CASE ReceiveShutdown
    BY <1>0, <1>7 DEF IInv, TypeOK, PlaceInv, TaskInv, BoxInv, ReceiveShutdown, mounts
<1>8. CASE SkipMount
    <2>1. TypeOK'
        BY <1>0, <1>8 DEF IInv, TypeOK, PlaceInv, SkipMount, mounts
    <2>2. PlaceInv'
        BY <1>0, <1>8 DEF IInv, TypeOK, PlaceInv, SkipMount, mounts
    <2>3. TaskInv'
        BY <1>0, <1>8 DEF IInv, TypeOK, PlaceInv, TaskInv, SkipMount, mounts
    <2>4. BoxInv'
        BY <1>0, <1>8 DEF IInv, TypeOK, PlaceInv, TaskInv, BoxInv, SkipMount, mounts
    <2>5. QED BY <2>1, <2>2, <2>3, <2>4 DEF IInv
<1>9. CASE AskMount
    BY <1>0, <1>9 DEF IInv, TypeOK, PlaceInv, TaskInv, BoxInv, AskMount, mounts
<1>10. CASE MountAnswers
    <2>1. Took(at) /\ box[at] # <<>> /\ task' = task /\ pc \in {"starting", "asking"}
        BY <1>10 DEF MountAnswers
    <2>2. TookEffect
        BY <2>1, TookKeeps
    <2>3. TypeOK'
        <3>1. at \in Mounts /\ at' \in 0 .. NMounts
            BY <1>0, <1>10 DEF IInv, TypeOK, PlaceInv, MountAnswers
        <3>2. QED BY <1>0, <1>10, <2>2, <3>1 DEF TookEffect, IInv, TypeOK, MountAnswers
    <2>4. PlaceInv'
        BY <1>0, <1>10 DEF IInv, PlaceInv, MountAnswers
    <2>5. TaskInv'
        BY <1>0, <1>10, <2>2 DEF TookEffect, IInv, TypeOK, PlaceInv, TaskInv, Signs, MountAnswers
    <2>6. BoxInv'
        <3>1. \A a \in supports' : a \in Mounts
            BY <2>3 DEF TypeOK
        <3>2. \A a \in supports' : a # at /\ task'[a] = "over" /\ a <= at'
                                      /\ ~(a = at' /\ pc' = "joining") => box'[a] # <<>>
            <4>1. supports' \subseteq supports /\ at' <= at /\ task' = task
                BY <1>0, <1>10 DEF MountAnswers
            <4>2. \A a \in supports' : a <= at' => a <= at
                BY <1>0, <3>1, <4>1, <1>10 DEF MountAnswers
            <4>3. QED BY <2>2, <3>1, <4>1, <4>2 DEF TookEffect, IInv, BoxInv
        <3>3. at \in supports' /\ task'[at] = "over" /\ at <= at'
                                  /\ ~(at = at' /\ pc' = "joining") => box'[at] # <<>>
            BY <1>0, <1>10, <2>2 DEF TookEffect, IInv, PlaceInv, BoxInv, Signs, MountAnswers
        <3>4. QED BY <2>1, <2>2, <3>2, <3>3 DEF TookEffect, BoxInv
    <2>7. QED BY <2>3, <2>4, <2>5, <2>6 DEF IInv
<1>11. CASE MountJoined
    BY <1>0, <1>11 DEF IInv, TypeOK, PlaceInv, TaskInv, BoxInv, MountJoined, mounts
<1>12. CASE ExitContext
    BY <1>0, <1>12 DEF IInv, TypeOK, PlaceInv, TaskInv, BoxInv, ExitContext, mounts
<1>13. CASE Answer
    <2>0. answers' \in Seq(Messages)
        BY <1>13 DEF Answer, Send, Messages, IInv, TypeOK
    <2>1. TypeOK'
        BY <2>0, <1>0, <1>13 DEF IInv, TypeOK, PlaceInv, Answer, mounts
    <2>2. PlaceInv'
        BY <1>0, <1>13 DEF IInv, TypeOK, PlaceInv, Answer, mounts
    <2>3. TaskInv'
        BY <1>0, <1>13 DEF IInv, TypeOK, PlaceInv, TaskInv, Answer, mounts
    <2>4. BoxInv'
        BY <1>0, <1>13 DEF IInv, TypeOK, PlaceInv, TaskInv, BoxInv, Answer, mounts
    <2>5. QED BY <2>1, <2>2, <2>3, <2>4 DEF IInv
<1>14. ASSUME NEW a \in Mounts, NEW m \in Messages, AppSends(a, m) PROVE IInv'
    <2>1. /\ task[a] = "running" /\ task' \in [Mounts -> {"new", "running", "over"}]
          /\ \A b \in Mounts : b # a => task'[b] = task[b]
          /\ task'[a] = "running"
        BY <1>14 DEF AppSends, IInv, TypeOK
    <2>2. box' \in [Mounts -> Seq(Messages \cup Signs)] /\ BoxInv'
        <3> DEFINE put == m
        <3>1. put \in Messages \cup Signs /\ (put \in Signs <=> task'[a] = "over") /\ Put(a, put)
            BY <1>14, <2>1 DEF AppSends, Messages, Signs
        <3>2. UNCHANGED <<supports, at, pc>>
            BY <1>14 DEF AppSends, parent
        <3> HIDE DEF put
        <3>3. QED BY <2>1, <3>1, <3>2, PutKeeps
    <2>3. TypeOK'
        <3>1. sent' \in [Mounts -> Seq(Messages)]
            BY <1>14 DEF AppSends, IInv, TypeOK
        <3>2. QED BY <1>14, <2>1, <2>2, <3>1 DEF AppSends, IInv, TypeOK, parent
    <2>4. PlaceInv'
        BY <1>14, <2>1 DEF AppSends, IInv, PlaceInv, parent
    <2>5. TaskInv'
        BY <1>0, <1>14, <2>1 DEF AppSends, IInv, TaskInv, parent
    <2>6. QED BY <2>2, <2>3, <2>4, <2>5 DEF IInv
<1>15. ASSUME NEW a \in Mounts, AppReturns(a) PROVE IInv'
    <2>1. /\ task[a] = "running" /\ task' \in [Mounts -> {"new", "running", "over"}]
          /\ \A b \in Mounts : b # a => task'[b] = task[b]
          /\ task'[a] = "over"
        BY <1>15 DEF AppReturns, IInv, TypeOK
    <2>2. box' \in [Mounts -> Seq(Messages \cup Signs)] /\ BoxInv'
        <3> DEFINE put == IF sent[a] = <<>> THEN "unsupported" ELSE "exited"
        <3>1. put \in Messages \cup Signs /\ (put \in Signs <=> task'[a] = "over") /\ Put(a, put)
            BY <1>15, <2>1 DEF AppReturns, Messages, Signs
        <3>2. UNCHANGED <<supports, at, pc>>
            BY <1>15 DEF AppReturns, parent
        <3> HIDE DEF put
        <3>3. QED BY <2>1, <3>1, <3>2, PutKeeps
    <2>3. TypeOK'
        BY <1>15, <2>1, <2>2 DEF AppReturns, IInv, TypeOK, parent
    <2>4. PlaceInv'
        BY <1>15, <2>1 DEF AppReturns, IInv, PlaceInv, parent
    <2>5. TaskInv'
        BY <1>0, <1>15, <2>1 DEF AppReturns, IInv, TaskInv, parent
    <2>6. QED BY <2>2, <2>3, <2>4, <2>5 DEF IInv
<1>16. ASSUME NEW a \in Mounts, AppRaises(a) PROVE IInv'
    <2>1. /\ task[a] = "running" /\ task' \in [Mounts -> {"new", "running", "over"}]
          /\ \A b \in Mounts : b # a => task'[b] = task[b]
          /\ task'[a] = "over"
        BY <1>16 DEF AppRaises, IInv, TypeOK
    <2>2. box' \in [Mounts -> Seq(Messages \cup Signs)] /\ BoxInv'
        <3> DEFINE put == IF sent[a] = <<>> THEN "unsupported" ELSE "error"
        <3>1. put \in Messages \cup Signs /\ (put \in Signs <=> task'[a] = "over") /\ Put(a, put)
            BY <1>16, <2>1 DEF AppRaises, Messages, Signs
        <3>2. UNCHANGED <<supports, at, pc>>
            BY <1>16 DEF AppRaises, parent
        <3> HIDE DEF put
        <3>3. QED BY <2>1, <3>1, <3>2, PutKeeps
    <2>3. TypeOK'
        BY <1>16, <2>1, <2>2 DEF AppRaises, IInv, TypeOK, parent
    <2>4. PlaceInv'
        BY <1>16, <2>1 DEF AppRaises, IInv, PlaceInv, parent
    <2>5. TaskInv'
        BY <1>0, <1>16, <2>1 DEF AppRaises, IInv, TaskInv, parent
    <2>6. QED BY <2>2, <2>3, <2>4, <2>5 DEF IInv
<1>17. CASE PeerStarted
    BY <1>17 DEF PeerStarted, parent, mounts, IInv, TypeOK, PlaceInv, TaskInv, BoxInv
<1>18. CASE PeerCloses
    BY <1>18 DEF PeerCloses, parent, mounts, IInv, TypeOK, PlaceInv, TaskInv, BoxInv
<1>19. CASE PeerClosed
    BY <1>19 DEF PeerClosed, parent, mounts, IInv, TypeOK, PlaceInv, TaskInv, BoxInv
<1>20. CASE PeerTimesOut
    BY <1>20 DEF PeerTimesOut, parent, mounts, IInv, TypeOK, PlaceInv, TaskInv, BoxInv
<1>21. CASE UNCHANGED vars
    BY <1>21 DEF vars, parent, mounts, IInv, TypeOK, PlaceInv, TaskInv, BoxInv
<1>22. QED
    BY <1>1, <1>2, <1>3, <1>4, <1>5, <1>6, <1>7, <1>8, <1>9, <1>10, <1>11, <1>12,
       <1>13, <1>14, <1>15, <1>16, <1>17, <1>18, <1>19, <1>20, <1>21
       DEF Next, Parent, SubApp, Peer

\* The strengthened invariant holds in every reachable state.
THEOREM Invariance == Spec => []IInv
<1>1. IInv /\ [Next]_vars => IInv'
    BY NextKeeps
<1>2. QED BY Initially, <1>1, PTL DEF Spec

\* Mounted apps are shut down in the reverse order of their start, each after all
\* that were started later have ended, and before the context is left (the
\* lifespan branch of app() and _MountLifespan), for any number of them.
THEOREM Nesting == Spec => []Nested
<1>1. IInv => Nested
    <2> SUFFICES ASSUME IInv, NEW b \in Mounts \ {failed}, task[b] = "running"
                 PROVE  (\A a \in asked : ~(a < b)) /\ ctx # "exited" /\ pc # "over"
        BY DEF Nested
    <2>1. b <= at /\ at \in 0 .. NMounts /\ asked \subseteq Mounts
            /\ \A a \in asked : a >= at
        BY DEF IInv, TypeOK, TaskInv
    <2>2. b \in Nat /\ b >= 1 /\ \A a \in asked : a \in Nat
        BY <2>1, ConstantsAssumption DEF Mounts
    <2>3. QED BY <2>1, <2>2 DEF IInv, PlaceInv
<1>2. QED BY <1>1, Invariance, PTL

\* Whenever the application waits for a mounted app that has ended, in
\* _MountLifespan.startup() or shutdown(), there is a message for it to take.
THEOREM NoDeadWait == Spec => []NeverWaitsForTheDead
<1>1. IInv => NeverWaitsForTheDead
    BY DEF IInv, TypeOK, PlaceInv, BoxInv, NeverWaitsForTheDead
<1>2. QED BY <1>1, Invariance, PTL
-----------------------------------------------------------------------------
(* What the application reports is what its mounted apps have said.        *)

\* What raised has ended; a message in a queue has been said, and an app that is
\* told to have returned has not raised.
HeardInv ==
    /\ \A a \in raised : task[a] = "over"
    /\ \A a \in Mounts : \A n \in DOMAIN box[a] :
        /\ box[a][n] \in Messages => Said(a, box[a][n])
        /\ box[a][n] = "exited" => a \notin raised

\* The mounts before the one in work have started, and all when it is reported.
StartedInv ==
    /\ pc \in {"begin", "mounts", "starting"} =>
          \A a \in supports : a < at \/ (a = at /\ pc = "mounts") => Said(a, "startup.complete")
    /\ ~starting => \A a \in supports : Said(a, "startup.complete")

Done(a) == Said(a, "shutdown.complete") \/ (task[a] = "over" /\ a \notin raised)

\* While no error is noted, the mounts after the one in work are done.
EndedInv ==
    ~starting /\ ~errors /\ pc # "serving" =>
        \A a \in supports : a > at \/ (a = at /\ pc = "joining") => Done(a)

\* What has been sent at each point, and what the test client makes of it.
ReportInv ==
    /\ pc \in {"begin", "mounts", "starting"} => starting
    /\ pc = "serving" => ~starting /\ at = NMounts
    /\ starting => answers = IF pc = "over" THEN <<"startup.failed">> ELSE <<>>
    /\ ~starting => IF pc = "over"
                    THEN \/ answers = <<"startup.complete", "shutdown.failed">>
                         \/ answers = <<"startup.complete", "shutdown.complete">> /\ ~errors
                    ELSE answers = <<"startup.complete">>
    /\ peer \in {"entered", "closing", "closed"} => ~starting
    /\ peer = "closed" => answers = <<"startup.complete", "shutdown.complete">>

ToldInv == HeardInv /\ StartedInv /\ EndedInv /\ ReportInv

\* A step of the application changes none of what the mounted apps have done: what
\* it takes from a queue had been said.
LEMMA TookHeard ==
    ASSUME IInv, HeardInv, pc \in {"starting", "asking"}, box[at] # <<>>, Took(at),
           UNCHANGED <<sent, raised, task>>
    PROVE  /\ HeardInv'
           /\ at \in Mounts
           /\ Head(box[at]) \in Messages => Said(at, Head(box[at]))
           /\ Head(box[at]) = "exited" => task[at] = "over" /\ at \notin raised
<1> DEFINE q == box[at]
<1>1. at \in Mounts /\ box \in [Mounts -> Seq(Messages \cup Signs)]
    BY DEF IInv, TypeOK, PlaceInv
<1>2. q \in Seq(Messages \cup Signs) /\ q # <<>>
    BY <1>1
<1>3. /\ 1 \in DOMAIN q /\ Head(q) = q[1]
      /\ DOMAIN Tail(q) = 1 .. Len(q) - 1
      /\ \A n \in 1 .. Len(q) - 1 : Tail(q)[n] = q[n + 1] /\ n + 1 \in DOMAIN q
    BY <1>2, TailOf
<1>4. \A a \in Mounts : a # at => box'[a] = box[a]
    BY <1>1 DEF Took
<1>5. box'[at] = Tail(q)
    BY <1>1 DEF Took
<1>6. \A a, m : Said(a, m)' <=> Said(a, m)
    BY DEF Said
<1>7. \A n \in DOMAIN q : /\ q[n] \in Messages => Said(at, q[n])
                          /\ q[n] = "exited" => at \notin raised
    BY <1>1 DEF HeardInv
<1>8. \A n \in DOMAIN box'[at] : /\ box'[at][n] \in Messages => Said(at, box'[at][n])
                                 /\ box'[at][n] = "exited" => at \notin raised
    BY <1>3, <1>5, <1>7
<1>9. \A a \in Mounts : \A n \in DOMAIN box'[a] :
          /\ box'[a][n] \in Messages => Said(a, box'[a][n])
          /\ box'[a][n] = "exited" => a \notin raised
    BY <1>4, <1>8 DEF HeardInv
<1>10. HeardInv'
    BY <1>1, <1>6, <1>9 DEF HeardInv, IInv, TypeOK
<1>11. Head(q) \in Signs => task[at] = "over"
    BY <1>1, <1>3 DEF IInv, BoxInv
<1>12. Head(q) = "exited" => task[at] = "over" /\ at \notin raised
    BY <1>3, <1>7, <1>11 DEF Signs
<1>13. QED BY <1>1, <1>3, <1>7, <1>10, <1>12

\* What a mounted app does leaves what it has said, and what its queue holds is true.
LEMMA PutHeard ==
    ASSUME IInv, HeardInv, NEW a \in Mounts, NEW m \in Messages \cup Signs, Put(a, m),
           task[a] = "running", raised' \in {raised, raised \cup {a}},
           \A b \in Mounts : \A n : Said(b, n) => Said(b, n)',
           m \in Messages => Said(a, m)',
           m = "exited" => raised' = raised,
           \A b \in Mounts : task[b] = "over" => task'[b] = "over",
           raised' # raised => task'[a] = "over"
    PROVE  HeardInv'
<1> DEFINE q == box[a]
<1>1. /\ box \in [Mounts -> Seq(Messages \cup Signs)]
      /\ q \in Seq(Messages \cup Signs)
    BY DEF IInv, TypeOK
<1>2. /\ \A b \in Mounts : b # a => box'[b] = box[b]
      /\ box'[a] = Append(q, m)
    BY <1>1 DEF Put
<1>3. /\ Append(q, m)[Len(q) + 1] = m
      /\ DOMAIN Append(q, m) = 1 .. Len(q) + 1 /\ DOMAIN q = 1 .. Len(q)
      /\ Len(q) \in Nat
      /\ \A n \in 1 .. Len(q) : Append(q, m)[n] = q[n]
    <2> DEFINE S == Messages \cup Signs
    <2>1. q \in Seq(S) /\ m \in S
        BY <1>1
    <2> HIDE DEF q, S
    <2>2. QED BY <2>1, AppendOf
<1>4. \A n \in DOMAIN q : q[n] \notin Signs /\ (q[n] \in Messages => Said(a, q[n]))
    BY DEF IInv, BoxInv, HeardInv
<1>5. \A n \in DOMAIN box'[a] : n \in DOMAIN q \/ n = Len(q) + 1
    BY <1>2, <1>3
<1>6. \A n \in DOMAIN q : box'[a][n] = q[n]
    BY <1>2, <1>3
<1>7. \A n \in DOMAIN q : \A e : e = q[n] =>
          /\ e \in Messages => Said(a, e)'
          /\ e = "exited" => a \notin raised'
    BY <1>4 DEF Signs
<1>8. /\ m \in Messages => Said(a, m)'
      /\ m = "exited" => a \notin raised'
    BY DEF HeardInv
<1>9. box'[a][Len(q) + 1] = m
    BY <1>2, <1>3
<1>10. \A n \in DOMAIN box'[a] : \A e : e = box'[a][n] =>
          /\ e \in Messages => Said(a, e)'
          /\ e = "exited" => a \notin raised'
    BY <1>5, <1>6, <1>7, <1>8, <1>9
<1>11. \A b \in Mounts : b # a => \A n \in DOMAIN box'[b] : \A e : e = box'[b][n] =>
          /\ e \in Messages => Said(b, e)'
          /\ e = "exited" => b \notin raised'
    BY <1>2 DEF HeardInv
<1>12. \A b \in raised' : task'[b] = "over"
    BY DEF HeardInv, IInv, TypeOK
<1>13. \A b \in Mounts : \A n \in DOMAIN box'[b] : \A e : e = box'[b][n] =>
          /\ e \in Messages => Said(b, e)'
          /\ e = "exited" => b \notin raised'
    BY <1>10, <1>11
<1>14. QED BY <1>12, <1>13 DEF HeardInv, Said

\* A step of a mounted app keeps the rest: what is said stays said, and a mount that
\* is done does not raise any more.
LEMMA AppKeeps ==
    ASSUME IInv, ToldInv, HeardInv', NEW a \in Mounts, task[a] = "running",
           UNCHANGED parent, supports' = supports, peer' = peer,
           \A b \in Mounts : \A n : Said(b, n) => Said(b, n)',
           \A b \in Mounts : task[b] = "over" => task'[b] = "over",
           raised' \in {raised, raised \cup {a}}
    PROVE  ToldInv'
<1>1. supports \subseteq Mounts
    BY DEF IInv, TypeOK
<1>2. StartedInv'
    BY <1>1 DEF parent, ToldInv, StartedInv
<1>3. \A b \in Mounts : Done(b) => Done(b)'
    BY DEF Done
<1>4. EndedInv'
    BY <1>1, <1>3 DEF parent, ToldInv, EndedInv
<1>5. ReportInv'
    BY DEF parent, ToldInv, ReportInv
<1>6. QED BY <1>2, <1>4, <1>5 DEF ToldInv

\* A step of the application that takes nothing from a queue leaves what was said.
LEMMA SaidStays ==
    ASSUME IInv, HeardInv, UNCHANGED <<sent, raised, box>>,
           \A a \in Mounts : task[a] = "over" => task'[a] = "over"
    PROVE  HeardInv' /\ \A a, m : Said(a, m)' <=> Said(a, m)
<1>1. \A a, m : Said(a, m)' <=> Said(a, m)
    BY DEF Said
<1>2. \A a \in raised' : task'[a] = "over"
    BY DEF HeardInv, IInv, TypeOK
<1>3. QED BY <1>1, <1>2 DEF HeardInv

LEMMA ToldInitially == Init => ToldInv
<1> SUFFICES ASSUME Init PROVE ToldInv
    OBVIOUS
<1>1. HeardInv
    BY DEF Init, HeardInv
<1>2. at = 0 /\ starting = TRUE /\ pc = "begin" /\ supports = Mounts
    BY DEF Init
<1>3. StartedInv
    BY <1>2, ConstantsAssumption DEF StartedInv, Mounts
<1>4. EndedInv /\ ReportInv
    BY <1>2 DEF Init, EndedInv, ReportInv
<1>5. QED BY <1>1, <1>3, <1>4 DEF ToldInv

LEMMA ToldKept == ASSUME IInv, ToldInv, [Next]_vars PROVE ToldInv'
<1>0. /\ NMounts \in Nat /\ Mounts = 1 .. NMounts /\ supports \subseteq Mounts
      /\ at \in 0 .. NMounts /\ starting \in BOOLEAN /\ errors \in BOOLEAN
      /\ HeardInv /\ StartedInv /\ EndedInv /\ ReportInv
    BY ConstantsAssumption DEF Mounts, IInv, TypeOK, ToldInv
<1>1. CASE EnterContext
    <2>1. HeardInv' /\ \A a, m : Said(a, m)' <=> Said(a, m)
        BY <1>0, <1>1, SaidStays DEF EnterContext, mounts
    <2>2. at = 0
        BY <1>1 DEF EnterContext, IInv, PlaceInv
    <2>3. StartedInv' /\ EndedInv' /\ ReportInv'
        BY <1>0, <1>1, <2>2 DEF EnterContext, mounts, StartedInv, EndedInv, ReportInv
    <2>4. QED BY <2>1, <2>3 DEF ToldInv
<1>2. CASE ContextFails
    <2>1. HeardInv' /\ \A a, m : Said(a, m)' <=> Said(a, m)
        BY <1>0, <1>2, SaidStays DEF ContextFails, mounts
    <2>2. StartedInv' /\ EndedInv'
        BY <1>0, <1>2 DEF ContextFails, mounts, StartedInv, EndedInv, ReportInv
    <2>3. answers = <<>> /\ answers' = <<"startup.failed">>
        BY <1>0, <1>2 DEF ContextFails, ReportInv, Send
    <2>4. ReportInv'
        BY <1>0, <1>2, <2>3 DEF ContextFails, ReportInv
    <2>5. QED BY <2>1, <2>2, <2>4 DEF ToldInv
<1>3. CASE StartMount
    <2>0. \A a \in Mounts : task[a] = "over" => task'[a] = "over"
        BY <1>0, <1>3 DEF StartMount, IInv, TypeOK, PlaceInv
    <2>1. HeardInv' /\ \A a, m : Said(a, m)' <=> Said(a, m)
        BY <1>0, <1>3, <2>0, SaidStays DEF StartMount
    <2>2. StartedInv'
        BY <1>0, <1>3, <2>1 DEF StartMount, StartedInv, ReportInv
    <2>3. EndedInv' /\ ReportInv'
        BY <1>0, <1>3 DEF StartMount, EndedInv, ReportInv
    <2>4. QED BY <2>1, <2>2, <2>3 DEF ToldInv
<1>4. CASE MountStarted
    <2>1. /\ HeardInv' /\ at \in Mounts
          /\ Head(box[at]) \in Messages => Said(at, Head(box[at]))
        BY <1>0, <1>4, TookHeard DEF MountStarted
    <2>2. \A a, m : Said(a, m)' <=> Said(a, m)
        BY <1>4 DEF MountStarted, Said
    <2>3. at \in supports' => Said(at, "startup.complete")
        BY <1>4, <2>1 DEF MountStarted, Messages
    <2>4. supports' \subseteq supports /\ starting
        BY <1>0, <1>4 DEF MountStarted, ReportInv
    <2>5. StartedInv'
        BY <1>0, <1>4, <2>2, <2>3, <2>4 DEF MountStarted, StartedInv
    <2>6. EndedInv' /\ ReportInv'
        BY <1>0, <1>4, <2>4 DEF MountStarted, EndedInv, ReportInv
    <2>7. QED BY <2>1, <2>5, <2>6 DEF ToldInv
<1>5. CASE MountFails
    <2>1. HeardInv'
        BY <1>0, <1>5, TookHeard DEF MountFails
    <2>2. StartedInv' /\ EndedInv' /\ ReportInv'
        BY <1>0, <1>5 DEF MountFails, StartedInv, EndedInv, ReportInv
    <2>3. QED BY <2>1, <2>2 DEF ToldInv
<1>6. CASE AllStarted
    <2>1. HeardInv' /\ \A a, m : Said(a, m)' <=> Said(a, m)
        BY <1>0, <1>6, SaidStays DEF AllStarted, mounts
    <2>2. \A a \in supports : a < at \/ a = at
        BY <1>0, <1>6 DEF AllStarted
    <2>3. StartedInv'
        BY <1>0, <1>6, <2>1, <2>2 DEF AllStarted, mounts, StartedInv
    <2>4. answers = <<>> /\ answers' = <<"startup.complete">>
        BY <1>0, <1>6 DEF AllStarted, ReportInv, Send
    <2>5. EndedInv' /\ ReportInv'
        BY <1>0, <1>6, <2>4 DEF AllStarted, EndedInv, ReportInv
    <2>6. QED BY <2>1, <2>3, <2>5 DEF ToldInv
<1>7. CASE ReceiveShutdown
    <2>1. HeardInv' /\ \A a, m : Said(a, m)' <=> Said(a, m)
        BY <1>0, <1>7, SaidStays DEF ReceiveShutdown, mounts
    <2>2. StartedInv'
        BY <1>0, <1>7, <2>1 DEF ReceiveShutdown, mounts, StartedInv
    <2>3. EndedInv' /\ ReportInv'
        BY <1>0, <1>7 DEF ReceiveShutdown, mounts, EndedInv, ReportInv
    <2>4. QED BY <2>1, <2>2, <2>3 DEF ToldInv
<1>8. CASE SkipMount
    <2>1. HeardInv' /\ \A a, m : Said(a, m)' <=> Said(a, m)
        BY <1>0, <1>8, SaidStays DEF SkipMount, mounts
    <2>2. StartedInv' /\ ReportInv'
        BY <1>0, <1>8, <2>1 DEF SkipMount, mounts, StartedInv, ReportInv
    <2>3. \A a \in supports : a > at - 1 => a > at
        BY <1>0, <1>8 DEF SkipMount
    <2>4. \A a : Done(a)' <=> Done(a)
        BY <1>8, <2>1 DEF SkipMount, mounts, Done
    <2>5. EndedInv'
        BY <1>0, <1>8, <2>3, <2>4 DEF SkipMount, mounts, EndedInv
    <2>6. QED BY <2>1, <2>2, <2>5 DEF ToldInv
<1>9. CASE AskMount
    <2>1. HeardInv' /\ \A a, m : Said(a, m)' <=> Said(a, m)
        BY <1>0, <1>9, SaidStays DEF AskMount
    <2>2. StartedInv' /\ ReportInv'
        BY <1>0, <1>9, <2>1 DEF AskMount, StartedInv, ReportInv
    <2>3. \A a : Done(a)' <=> Done(a)
        BY <1>9, <2>1 DEF AskMount, Done
    <2>4. EndedInv'
        BY <1>0, <1>9, <2>3 DEF AskMount, EndedInv
    <2>5. QED BY <2>1, <2>2, <2>4 DEF ToldInv
<1>10. CASE MountAnswers
    <2>1. /\ HeardInv' /\ at \in Mounts
          /\ Head(box[at]) \in Messages => Said(at, Head(box[at]))
          /\ Head(box[at]) = "exited" => task[at] = "over" /\ at \notin raised
        BY <1>0, <1>10, TookHeard DEF MountAnswers
    <2>2. \A a, m : Said(a, m)' <=> Said(a, m)
        BY <1>10 DEF MountAnswers, Said
    <2>3. \A a : Done(a)' <=> Done(a)
        BY <1>10, <2>2 DEF MountAnswers, Done
    <2>4. ~errors' => ~errors /\ Done(at)
        BY <1>0, <1>10, <2>1 DEF MountAnswers, Messages, Done
    <2>5. StartedInv' /\ ReportInv'
        BY <1>0, <1>10, <2>2 DEF MountAnswers, StartedInv, ReportInv
    <2>6. EndedInv'
        BY <1>0, <1>10, <2>3, <2>4 DEF MountAnswers, EndedInv
    <2>7. QED BY <2>1, <2>5, <2>6 DEF ToldInv
<1>11. CASE MountJoined
    <2>1. HeardInv' /\ \A a, m : Said(a, m)' <=> Said(a, m)
        BY <1>0, <1>11, SaidStays DEF MountJoined, mounts
    <2>2. StartedInv' /\ ReportInv'
        BY <1>0, <1>11, <2>1 DEF MountJoined, mounts, StartedInv, ReportInv
    <2>3. \A a \in supports : a > at - 1 => a > at \/ a = at
        BY <1>0
    <2>4. \A a : Done(a)' <=> Done(a)
        BY <1>11, <2>1 DEF MountJoined, mounts, Done
    <2>5. EndedInv'
        BY <1>0, <1>11, <2>3, <2>4 DEF MountJoined, mounts, EndedInv
    <2>6. QED BY <2>1, <2>2, <2>5 DEF ToldInv
<1>12. CASE ExitContext
    <2>1. HeardInv' /\ \A a, m : Said(a, m)' <=> Said(a, m)
        BY <1>0, <1>12, SaidStays DEF ExitContext, mounts
    <2>2. StartedInv' /\ ReportInv'
        BY <1>0, <1>12, <2>1 DEF ExitContext, mounts, StartedInv, ReportInv
    <2>3. \A a : Done(a)' <=> Done(a)
        BY <1>12, <2>1 DEF ExitContext, mounts, Done
    <2>4. EndedInv'
        BY <1>0, <1>12, <2>3 DEF ExitContext, mounts, EndedInv
    <2>5. QED BY <2>1, <2>2, <2>4 DEF ToldInv
<1>13. CASE Answer
    <2>1. HeardInv' /\ \A a, m : Said(a, m)' <=> Said(a, m)
        BY <1>0, <1>13, SaidStays DEF Answer, mounts
    <2>2. \A a : Done(a)' <=> Done(a)
        BY <1>13, <2>1 DEF Answer, mounts, Done
    <2>3. StartedInv' /\ EndedInv'
        BY <1>0, <1>13, <2>1, <2>2 DEF Answer, mounts, StartedInv, EndedInv
    <2>4. answers = IF starting THEN <<>> ELSE <<"startup.complete">>
        BY <1>0, <1>13 DEF Answer, ReportInv
    <2>5. answers' = IF starting THEN <<"startup.failed">>
                     ELSE IF errors THEN <<"startup.complete", "shutdown.failed">>
                     ELSE <<"startup.complete", "shutdown.complete">>
        BY <1>0, <1>13, <2>4 DEF Answer, Send
    <2>6. peer # "closed"
        <3>1. answers # <<"startup.complete", "shutdown.complete">>
            BY <2>4
        <3>2. QED BY <1>0, <3>1 DEF ReportInv
    <2>7. ReportInv'
        BY <1>0, <1>13, <2>5, <2>6 DEF Answer, ReportInv
    <2>8. QED BY <2>1, <2>3, <2>7 DEF ToldInv
<1>14. ASSUME NEW a \in Mounts, NEW m \in Messages, AppSends(a, m) PROVE ToldInv'
    <2>1. /\ sent \in [Mounts -> Seq(Messages)] /\ sent[a] \in Seq(Messages)
        BY DEF IInv, TypeOK
    <2>2. /\ \A b \in Mounts : b # a => sent'[b] = sent[b]
          /\ sent'[a] = Append(sent[a], m)
        BY <1>14, <2>1 DEF AppSends
    <2>3. /\ Len(sent[a]) \in Nat
          /\ Append(sent[a], m)[Len(sent[a]) + 1] = m
          /\ DOMAIN Append(sent[a], m) = 1 .. Len(sent[a]) + 1 /\ DOMAIN sent[a] = 1 .. Len(sent[a])
          /\ \A n \in 1 .. Len(sent[a]) : Append(sent[a], m)[n] = sent[a][n]
        BY <2>1, AppendOf
    <2>4. Len(sent[a]) + 1 \in DOMAIN sent'[a] /\ sent'[a][Len(sent[a]) + 1] = m
        BY <2>2, <2>3
    <2>5. Said(a, m)'
        BY <2>4 DEF Said
    <2>6. \A n \in DOMAIN sent[a] : n \in DOMAIN sent'[a] /\ sent'[a][n] = sent[a][n]
        BY <2>2, <2>3
    <2>7. \A b \in Mounts : \A n : Said(b, n) => Said(b, n)'
        BY <2>2, <2>6 DEF Said
    <2>8. HeardInv'
        BY <1>0, <1>14, <2>5, <2>7, PutHeard DEF AppSends, Messages
    <2>9. QED BY <1>14, <2>7, <2>8, AppKeeps DEF AppSends
<1>15. ASSUME NEW a \in Mounts, AppReturns(a) PROVE ToldInv'
    <2> DEFINE put == IF sent[a] = <<>> THEN "unsupported" ELSE "exited"
    <2>1. \A b \in Mounts : \A n : Said(b, n) => Said(b, n)'
        BY <1>15 DEF AppReturns, Said
    <2>2. /\ put \in Messages \cup Signs /\ put \notin Messages
          /\ Put(a, put) /\ task[a] = "running" /\ raised' = raised
        BY <1>15 DEF AppReturns, Signs, Messages
    <2>3. \A b \in Mounts : task[b] = "over" => task'[b] = "over"
        BY <1>15 DEF AppReturns, IInv, TypeOK
    <2> HIDE DEF put
    <2>4. HeardInv'
        BY <1>0, <2>1, <2>2, <2>3, PutHeard
    <2>5. QED BY <1>15, <2>1, <2>3, <2>4, AppKeeps DEF AppReturns
<1>16. ASSUME NEW a \in Mounts, AppRaises(a) PROVE ToldInv'
    <2> DEFINE put == IF sent[a] = <<>> THEN "unsupported" ELSE "error"
    <2>1. \A b \in Mounts : \A n : Said(b, n) => Said(b, n)'
        BY <1>16 DEF AppRaises, Said
    <2>2. /\ put \in Messages \cup Signs /\ put \notin Messages /\ put # "exited"
          /\ Put(a, put) /\ task[a] = "running" /\ raised' = raised \cup {a}
        BY <1>16 DEF AppRaises, Signs, Messages
    <2>3. \A b \in Mounts : task[b] = "over" => task'[b] = "over"
        BY <1>16 DEF AppRaises, IInv, TypeOK
    <2>4. HeardInv'
        <3>1. task'[a] = "over"
            BY <1>16 DEF AppRaises, IInv, TypeOK
        <3> HIDE DEF put
        <3>2. QED BY <1>0, <2>1, <2>2, <2>3, <3>1, PutHeard
    <2>5. QED BY <1>16, <2>1, <2>2, <2>3, <2>4, AppKeeps DEF AppRaises
<1>17. CASE PeerStarted \/ PeerCloses \/ PeerClosed \/ PeerTimesOut \/ UNCHANGED vars
    <2>1. /\ UNCHANGED <<parent, mounts>>
          /\ peer' \in {"entered", "closing", "closed"} => ~starting
        <3>1. CASE PeerStarted
            <4>1. starting => answers # <<"startup.complete">>
                BY <1>0 DEF ReportInv
            <4>2. Len(answers) = 1 /\ answers \in Seq(Messages)
                BY <3>1 DEF PeerStarted, IInv, TypeOK
            <4>3. answers = <<answers[1]>>
                BY <4>2
            <4>4. QED BY <3>1, <4>1, <4>3 DEF PeerStarted
        <3>2. CASE PeerCloses \/ PeerClosed \/ PeerTimesOut \/ UNCHANGED vars
            BY <1>0, <3>2 DEF PeerCloses, PeerClosed, PeerTimesOut, vars, ReportInv
        <3>3. QED BY <1>17, <3>1, <3>2 DEF PeerStarted
    <2>2. peer' = "closed" => answers = <<"startup.complete", "shutdown.complete">>
        <3>1. CASE PeerClosed
            <4>1. peer' = "closed" => answers[2] = "shutdown.complete" /\ ~starting /\ pc = "over"
                BY <1>0, <3>1 DEF PeerClosed, ReportInv
            <4>2. QED BY <1>0, <4>1 DEF ReportInv
        <3>2. CASE PeerStarted \/ PeerCloses \/ PeerTimesOut \/ UNCHANGED vars
            BY <1>0, <3>2 DEF PeerStarted, PeerCloses, PeerTimesOut, vars, ReportInv
        <3>3. QED BY <1>17, <3>1, <3>2
    <2>3. HeardInv' /\ \A a, m : Said(a, m)' <=> Said(a, m)
        BY <1>0, <2>1, SaidStays DEF mounts
    <2>4. \A a : Done(a)' <=> Done(a)
        BY <2>1, <2>3 DEF mounts, Done
    <2>5. StartedInv' /\ EndedInv'
        BY <1>0, <2>1, <2>3, <2>4 DEF parent, mounts, StartedInv, EndedInv
    <2>6. ReportInv'
        BY <1>0, <2>1, <2>2 DEF parent, ReportInv
    <2>7. QED BY <2>3, <2>5, <2>6 DEF ToldInv
<1>18. QED
    BY <1>1, <1>2, <1>3, <1>4, <1>5, <1>6, <1>7, <1>8, <1>9, <1>10, <1>11, <1>12,
       <1>13, <1>14, <1>15, <1>16, <1>17
       DEF Next, Parent, SubApp, Peer

\* A startup is reported complete only when every mount that speaks lifespan has
\* said so, a shutdown only when no mount that spoke has raised unanswered, and a
\* test client is let through, or ends quietly, only on these reports.
THEOREM AnswersTrue == Spec => []AnswersAreTrue
<1>1. IInv /\ ToldInv => AnswersAreTrue
    <2> SUFFICES ASSUME IInv, ToldInv PROVE AnswersAreTrue
        OBVIOUS
    <2>0. supports \subseteq Mounts
        BY DEF IInv, TypeOK
    <2>1. ASSUME NEW k \in DOMAIN answers, answers[k] = "startup.complete"
          PROVE  \A a \in supports : Said(a, "startup.complete")
        <3>1. ~starting
            BY <2>1 DEF ToldInv, ReportInv
        <3>2. QED BY <3>1 DEF ToldInv, StartedInv
    <2>2. ASSUME NEW k \in DOMAIN answers, answers[k] = "shutdown.complete",
                 NEW a \in raised \cap supports
          PROVE  Said(a, "shutdown.complete")
        <3>1. ~starting /\ ~errors /\ pc = "over"
            BY <2>2 DEF ToldInv, ReportInv
        <3>2. at = 0 /\ a \in Mounts
            BY <3>1, <2>0, <2>2 DEF IInv, PlaceInv
        <3>3. a > at
            BY <3>2, ConstantsAssumption DEF Mounts
        <3>4. QED BY <3>1, <3>3, <2>2 DEF ToldInv, EndedInv, Done
    <2>3. peer \in {"entered", "closing", "closed"} => answers[1] = "startup.complete"
        BY DEF ToldInv, ReportInv
    <2>4. peer = "closed" => answers[Len(answers)] = "shutdown.complete"
        <3> DEFINE full == <<"startup.complete", "shutdown.complete">>
        <3>1. Len(full) = 2 /\ full[2] = "shutdown.complete"
            OBVIOUS
        <3>2. peer = "closed" => answers = full
            BY DEF ToldInv, ReportInv
        <3> HIDE DEF full
        <3>3. QED BY <3>1, <3>2
    <2>5. QED BY <2>1, <2>2, <2>3, <2>4 DEF AnswersAreTrue
<1>2. IInv /\ ToldInv /\ [Next]_vars => ToldInv'
    BY ToldKept
<1>3. QED BY <1>1, <1>2, Invariance, ToldInitially, PTL DEF Spec

-----------------------------------------------------------------------------
(* How far the application is from its end.                                *)

\* A bound on the steps of the application that are left: two to start a mount, three
\* to shut one down.
Stopping  == 3 * NMounts + 2
StepsLeft ==
    CASE pc = "over"     -> 0
      [] pc = "answer"   -> 1
      [] pc = "joining"  -> 3 * at
      [] pc = "asking"   -> 3 * at + 1
      [] pc = "stopping" -> 3 * at + 2
      [] pc = "serving"  -> Stopping + 1
      [] pc = "starting" -> Stopping + 2 * (NMounts - at) + 3
      [] pc = "mounts"   -> Stopping + 2 * (NMounts - at) + 2
      [] pc = "begin"    -> Stopping + 2 * NMounts + 3

LEMMA StepsAreCounted == IInv => StepsLeft \in 0 .. 5 * NMounts + 5
<1> SUFFICES ASSUME IInv PROVE StepsLeft \in 0 .. 5 * NMounts + 5
    OBVIOUS
<1>1. NMounts \in Nat /\ at \in 0 .. NMounts
    BY ConstantsAssumption DEF IInv, TypeOK
<1>2. pc = "starting" => at \in 1 .. NMounts
    BY DEF IInv, PlaceInv, Mounts
<1>3. CASE pc \in {"joining", "asking", "stopping"}
    <2>1. StepsLeft \in {3 * at, 3 * at + 1, 3 * at + 2}
        BY <1>3 DEF StepsLeft
    <2>2. QED BY <1>1, <2>1
<1>4. CASE pc = "starting"
    BY <1>1, <1>2, <1>4 DEF StepsLeft, Stopping
<1>5. CASE pc \in {"over", "answer", "serving", "mounts", "begin"}
    <2>1. StepsLeft \in {0, 1, 3 * NMounts + 3, 5 * NMounts - 2 * at + 4, 5 * NMounts + 5}
        BY <1>1, <1>5 DEF StepsLeft, Stopping
    <2>2. QED BY <1>1, <2>1
<1>6. QED BY <1>3, <1>4, <1>5 DEF IInv, TypeOK

LEMMA ParentNears == ASSUME IInv, Parent PROVE StepsLeft' < StepsLeft
<1>0. NMounts \in Nat /\ at \in 0 .. NMounts
    BY ConstantsAssumption DEF IInv, TypeOK
<1> USE <1>0 DEF StepsLeft, Stopping
<1>1. CASE EnterContext
    BY <1>1 DEF EnterContext
<1>2. CASE ContextFails
    BY <1>2 DEF ContextFails
<1>3. CASE StartMount
    BY <1>3 DEF StartMount
<1>4. CASE MountStarted
    BY <1>4 DEF MountStarted
<1>5. CASE MountFails
    <2>1. pc = "starting" /\ pc' = "stopping" /\ at' = at - 1
        BY <1>5 DEF MountFails
    <2>2. at \in 1 .. NMounts
        BY <2>1 DEF IInv, PlaceInv, Mounts
    <2>3. StepsLeft' = 3 * (at - 1) + 2
        BY <2>1
    <2>4. StepsLeft = 3 * NMounts + 2 + 2 * (NMounts - at) + 3
        BY <2>1
    <2> HIDE DEF StepsLeft
    <2>5. QED BY <1>0, <2>2, <2>3, <2>4
<1>6. CASE AllStarted
    BY <1>6 DEF AllStarted
<1>7. CASE ReceiveShutdown
    BY <1>7 DEF ReceiveShutdown
<1>8. CASE SkipMount
    BY <1>8 DEF SkipMount
<1>9. CASE AskMount
    BY <1>9 DEF AskMount
<1>10. CASE MountAnswers
    BY <1>10 DEF MountAnswers
<1>11. CASE MountJoined
    BY <1>11 DEF MountJoined
<1>12. CASE ExitContext
    BY <1>12 DEF ExitContext
<1>13. CASE Answer
    BY <1>13 DEF Answer
<1>14. QED
    BY <1>1, <1>2, <1>3, <1>4, <1>5, <1>6, <1>7, <1>8, <1>9, <1>10, <1>11, <1>12, <1>13
       DEF Parent

\* What the sentinels of _MountLifespan and the queues of their own are for: the
\* lifespan of an application is over after at most 5N + 5 steps of its own for N
\* mounts, whatever they send, and nothing that a mount or the peer does adds to them.
EndsInBoundedSteps ==
    [][/\ StepsLeft \in 0 .. 5 * NMounts + 5
       /\ IF Parent THEN StepsLeft' < StepsLeft ELSE StepsLeft' = StepsLeft]_vars

THEOREM Bounded == Spec => EndsInBoundedSteps
<1> DEFINE Step == /\ StepsLeft \in 0 .. 5 * NMounts + 5
                   /\ IF Parent THEN StepsLeft' < StepsLeft ELSE StepsLeft' = StepsLeft
<1>1. IInv /\ [Next]_vars => [Step]_vars
    <2> SUFFICES ASSUME IInv, Next PROVE Step
        OBVIOUS
    <2>1. CASE Parent
        BY <2>1, StepsAreCounted, ParentNears
    <2>2. CASE ~Parent
        <3>1. pc' = pc /\ at' = at
            BY <2>2 DEF Next, SubApp, AppSends, AppReturns, AppRaises, Peer, PeerStarted, PeerCloses,
               PeerClosed, PeerTimesOut, parent
        <3>2. StepsLeft' = StepsLeft
            BY <3>1 DEF StepsLeft
        <3>3. QED BY <2>2, <3>2, StepsAreCounted
    <2>3. QED BY <2>1, <2>2
<1>2. QED BY <1>1, Invariance, PTL DEF Spec, EndsInBoundedSteps
=============================================================================
