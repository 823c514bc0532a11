----------------------- MODULE ServerInstances_proofs -----------------------
(***************************************************************************)
(* What holds of the server processes, however many of them, their modes,  *)
(* their ports and their parents, as long as the calls do not overlap.     *)
(***************************************************************************)
EXTENDS ServerInstances, TLAPS

-----------------------------------------------------------------------------
(* The inductive invariant.                                                *)

Acting == Exiting \cup {"running"}
Over   == {"zombie", "gone"}

\* Where a server has not yet written its PID.
Early == {"new"} \cup Checking \cup {"port", "reclaim", "openPid", "writePid"}

\* A PID is found in a file, or in the mind of another server, only after it was
\* written.
FreshInv ==
    /\ \A p \in Servers : pidFile.text = p \/ (\E q \in Servers : srv[q].seen = p) =>
          srv[p].pc \notin Early
    /\ \A p \in Servers : srv[p].pc = "writePid" => srv[p].fd # None

\* What each process knows of itself: a server that starts has its port; the
\* descriptor of a server that has written it is there, unless a reader met it half
\* written; only the dead leave workers behind; stop() has a target.
PlaceInv ==
    /\ \A p \in Servers : srv[p].pc \in Starting => srv[p].port # None
    /\ \A p \in Servers : srv[p].pc = "regWrite" => reg[p] \in {"partial", "lost"}
    /\ \A p \in Servers : srv[p].pc \in {"bind", "running"} => reg[p] \in {"entry", "lost"}
    /\ \A p \in Servers : left[p] # None => srv[p].pc \in Over
    /\ stopPc \in {"probe", "wait", "confirm"} => stopTarget \in Servers

\* One server starts at a time, and none during stop().
OneInv == \A p \in Servers : srv[p].pc \in Starting =>
    stopPc = "idle" /\ \A q \in Servers : srv[q].pc \in Starting => q = p

\* The files are those of the server that serves or exits, if it is not as good as
\* dead.
MineInv == \A p \in Servers : srv[p].pc \in Acting /\ Able(p) =>
    pidFile.text = p /\ (srv[p].pc # "exitPid" => portFile = p)

\* Behind its check a server is the only one that still works,
AloneInv == \A p \in Servers :
    srv[p].pc \in Starting \ {"exists", "read", "probe"} =>
        \A q \in Servers : Able(q) => q = p

\* and the child that serve_background() waits for the only one there is.
LaunchInv == \A p \in Servers : launching[p] # None =>
    \A q \in Servers \ {p} : ~Living(q) /\ left[q] = None

\* The one that the check has found is the only other one.
SeenInv == \A p \in Servers : srv[p].pc = "probe" =>
    srv[p].seen \in Servers \ {p} /\ \A q \in Servers : Able(q) => q \in {p, srv[p].seen}

\* What the check leaves for the exclusive creation of the PID file.
FreeInv == \A p \in Servers :
    /\ srv[p].pc # "reclaim"
    /\ srv[p].pc \in {"port", "openPid"} /\ srv[p].mode = "single" => ~Exists

\* What a server has written is there.
HeldInv == \A p \in Servers :
    /\ srv[p].pc = "writePid" => pidFile.by = srv[p].fd
    /\ srv[p].pc \in {"writePort", "regOpen", "regWrite", "bind"} => pidFile.text = p
    /\ srv[p].pc \in {"regOpen", "regWrite", "bind"} => portFile = p

\* When stop() has returned, the files no longer name a server that lingers on.
DoomInv == \A p \in Servers : Living(p) /\ srv[p].killed /\ pidFile.text = p =>
    stopPc \in {"confirm", "rmPid"}

\* stop() puts an end to the only server that works, before it removes the files.
StopInv ==
    /\ stopPc \in {"probe", "wait"} => \A q \in Servers : Able(q) => q = stopTarget
    /\ stopPc \in {"confirm", "rmPid", "rmPort"} => \A q \in Servers : ~Able(q)

Calm == /\ OneInv /\ MineInv /\ AloneInv /\ LaunchInv /\ SeenInv
        /\ FreeInv /\ HeldInv /\ DoomInv /\ StopInv

CalmInv == ~contended => Calm

IInv == TypeOK /\ FreshInv /\ PlaceInv /\ CalmInv

-----------------------------------------------------------------------------
(* The steps preserve the types.                                           *)

\* A step that changes the control, the PID seen, the inode or the pending SIGKILL.
LEMMA RecordFacts ==
    ASSUME NEW r \in Records, NEW q \in Servers \cup {None}, NEW b \in BOOLEAN,
           NEW l \in Starting \cup Exiting \cup {"new", "running", "zombie", "gone"}
    PROVE  /\ [r EXCEPT !.pc = l] \in Records
           /\ [r EXCEPT !.pc = l, !.seen = q] \in Records
           /\ [r EXCEPT !.pc = l, !.fd = q] \in Records
           /\ [r EXCEPT !.killed = b] \in Records
           /\ Outside(l) \in Records
<1>1. [r EXCEPT !.pc = l] \in Records
    BY DEF Records
<1>2. [r EXCEPT !.pc = l, !.seen = q] \in Records
    BY DEF Records
<1>3. [r EXCEPT !.pc = l, !.fd = q] \in Records
    BY DEF Records
<1>4. [r EXCEPT !.killed = b] \in Records
    BY DEF Records
<1>5. Outside(l) \in Records
    BY DEF Records, Outside
<1>6. QED BY <1>1, <1>2, <1>3, <1>4, <1>5

LEMMA WaitedType ==
    ASSUME TypeOK, NEW q \in Servers
    PROVE  Waited(q) \in [Servers -> Records]
<1>1. Outside("gone") \in Records
    BY DEF Records, Outside
<1>2. QED BY <1>1 DEF Waited, TypeOK

LEMMA TypeKeep == ASSUME TypeOK, FreshInv, PlaceInv, [Next]_vars PROVE TypeOK'
<1> DEFINE Places == Starting \cup Exiting \cup {"new", "running", "zombie", "gone"}
<1>1. ASSUME NEW p \in Servers, NEW r \in Records, srv' = [srv EXCEPT ![p] = r]
      PROVE  srv' \in [Servers -> Records]
    BY <1>1 DEF TypeOK
<1>2. ASSUME NEW p \in Servers, NEW l \in Places, Goto(p, l)
      PROVE  srv' \in [Servers -> Records]
    <2>1. srv' = [srv EXCEPT ![p] = [srv[p] EXCEPT !.pc = l]]
        BY <1>2 DEF Goto
    <2>2. [srv[p] EXCEPT !.pc = l] \in Records
        BY RecordFacts DEF TypeOK
    <2>3. QED BY <1>1, <2>1, <2>2
<1>3. ASSUME NEW p \in Servers, NEW l \in Places, srv' = [srv EXCEPT ![p] = Outside(l)]
      PROVE  srv' \in [Servers -> Records]
    <2>1. Outside(l) \in Records
        BY DEF Records, Outside
    <2>2. QED BY <1>1, <1>3, <2>1
<1>4. ASSUME NEW q \in Servers, srv' = Waited(q) PROVE srv' \in [Servers -> Records]
    BY <1>4, WaitedType
<1>5. ASSUME srv' \in [Servers -> Records], UNCHANGED <<pidFile, portFile, reg>>,
             left' \in [Servers -> Ports \cup {None}],
             UNCHANGED <<stopPc, stopTarget>>, listEntry' = listEntry,
             launching' \in [Servers -> Ports \cup {None}], contended' \in BOOLEAN
      PROVE  TypeOK'
    BY <1>5 DEF TypeOK, Exists
<1> USE DEF files, stopVars
\* Starting and launching.
<1>6. ASSUME NEW p \in Servers, NEW m \in Modes, NEW n \in Ports, Begin(p, m, n),
             launching' \in [Servers -> Ports \cup {None}]
      PROVE  TypeOK'
    <2>1. EntryOf(m) \in Places
        BY ModesAssumption DEF EntryOf, Starting, Checking
    <2>2. [srv[p] EXCEPT !.mode = m, !.port = n, !.pc = EntryOf(m)] \in Records
        <3>1. srv[p] \in Records
            BY DEF TypeOK
        <3>2. QED BY <2>1, <3>1 DEF Records
    <2>3. srv' = [srv EXCEPT ![p] =
                     [srv[p] EXCEPT !.mode = m, !.port = n, !.pc = EntryOf(m)]]
        BY <1>6 DEF Begin
    <2>4. srv' \in [Servers -> Records]
        BY <1>1, <2>2, <2>3
    <2>5. contended' \in BOOLEAN
        BY <1>6, Zenon DEF Begin
    <2>6. left' \in [Servers -> Ports \cup {None}]
        BY <1>6 DEF Begin, TypeOK
    <2>7. QED BY <1>5, <1>6, <2>4, <2>5, <2>6 DEF Begin
<1>7. ASSUME NEW p \in Servers, LaunchAnswered(p) \/ LaunchExited(p) \/ LaunchTimesOut(p)
      PROVE  TypeOK'
    <2>1. launching' \in [Servers -> Ports \cup {None}]
        BY <1>7 DEF LaunchAnswered, LaunchExited, LaunchTimesOut, Return, TypeOK
    <2>2. srv' \in [Servers -> Records]
        <3>1. CASE srv' = srv
            BY <3>1 DEF TypeOK
        <3>2. CASE srv' = [srv EXCEPT ![p] = Outside("zombie")]
            BY <1>3, <3>2
        <3>3. CASE srv' = Waited(p)
            BY <1>4, <3>3
        <3>4. QED BY <1>7, <3>1, <3>2, <3>3 DEF LaunchAnswered, LaunchExited, LaunchTimesOut, End
    <2>3. QED BY <1>5, <1>7, <2>1, <2>2 DEF LaunchAnswered, LaunchExited, LaunchTimesOut, TypeOK
\* The steps of a server that change no file.
<1>8. ASSUME NEW p \in Servers, srv' \in [Servers -> Records],
             UNCHANGED <<files, left, stopVars, listEntry, launching, contended>>
      PROVE  TypeOK'
    BY <1>5, <1>8 DEF TypeOK
<1>9. ASSUME NEW p \in Servers, CheckExists(p) PROVE TypeOK'
    <2>1. PICK l \in Places : Goto(p, l)
        BY <1>9 DEF CheckExists, Starting, Checking
    <2>2. QED BY <1>2, <1>8, <1>9, <2>1 DEF CheckExists
<1>10. ASSUME NEW p \in Servers, CheckRead(p) PROVE TypeOK'
    <2>1. CASE /\ pidFile.text \in Servers
               /\ srv' = [srv EXCEPT ![p].pc = "probe", ![p].seen = pidFile.text]
        <3>1. srv' = [srv EXCEPT ![p] = [srv[p] EXCEPT !.pc = "probe", !.seen = pidFile.text]]
            BY <2>1
        <3>2. [srv[p] EXCEPT !.pc = "probe", !.seen = pidFile.text] \in Records
            BY <2>1, RecordFacts DEF TypeOK, Starting, Checking
        <3>3. QED BY <1>1, <1>8, <1>10, <3>1, <3>2 DEF CheckRead
    <2>2. CASE Goto(p, "unlink")
        BY <1>2, <1>8, <1>10, <2>2 DEF CheckRead, Starting, Checking
    <2>3. QED BY <1>10, <2>1, <2>2 DEF CheckRead
<1>11. ASSUME NEW p \in Servers, CheckProbe(p) PROVE TypeOK'
    <2>1. CASE srv' = [srv EXCEPT ![p] = Outside("gone")]
        BY <1>3, <1>8, <1>11, <2>1 DEF CheckProbe
    <2>2. ASSUME NEW s \in [Servers -> Records], srv' = [s EXCEPT ![p].pc = "unlink", ![p].seen = None]
          PROVE  TypeOK'
        <3>1. srv' = [s EXCEPT ![p] = [s[p] EXCEPT !.pc = "unlink", !.seen = None]]
            BY <2>2
        <3>2. [s[p] EXCEPT !.pc = "unlink", !.seen = None] \in Records
            BY <2>2, RecordFacts DEF Starting, Checking
        <3>3. srv' \in [Servers -> Records]
            BY <3>1, <3>2
        <3>4. QED BY <1>8, <1>11, <3>3 DEF CheckProbe
    <2>3. Waited(srv[p].seen) \in [Servers -> Records]
        <3>1. CASE srv[p].seen \in Servers
            BY <3>1, WaitedType
        <3>2. CASE srv[p].seen \notin Servers
            BY <3>2 DEF Waited, TypeOK
        <3>3. QED BY <3>1, <3>2
    <2>4. QED BY <1>11, <2>1, <2>2, <2>3 DEF CheckProbe, Refuse
<1>12. ASSUME NEW p \in Servers, EnsurePort(p) \/ Reclaim(p) \/ Bind(p) PROVE TypeOK'
    <2>1. UNCHANGED <<files, left, stopVars, listEntry, launching, contended>>
        BY <1>12 DEF EnsurePort, Reclaim, Bind
    <2>2. \/ Goto(p, "openPid") \/ Goto(p, "reclaim") \/ Goto(p, "running")
          \/ srv' = [srv EXCEPT ![p] = Outside("gone")]
          \/ srv' = [srv EXCEPT ![p] = Outside("exitReg")]
        BY <1>12 DEF EnsurePort, Reclaim, Bind, Refuse, Exit
    <2>3. QED BY <1>2, <1>3, <1>8, <2>1, <2>2 DEF Starting, Exiting
<1>13. ASSUME NEW p \in Servers, Shutdown(p) PROVE TypeOK'
    BY <1>3, <1>8, <1>13 DEF Shutdown, Exit, Exiting
<1>14. ASSUME NEW p \in Servers, Die(p) PROVE TypeOK'
    <2>1. srv' \in [Servers -> Records]
        BY <1>3, <1>14 DEF Die, End
    <2>2. left' \in [Servers -> Ports \cup {None}]
        <3>1. srv[p].port \in Ports \cup {None}
            BY DEF TypeOK, Records
        <3>2. PICK n \in Ports \cup {None} : left' = [left EXCEPT ![p] = n]
            BY <1>14, <3>1 DEF Die
        <3>3. QED BY <3>2 DEF TypeOK
    <2>3. QED BY <1>5, <1>14, <2>1, <2>2 DEF Die, TypeOK
<1>15. ASSUME NEW p \in Servers, Reaped(p) PROVE TypeOK'
    BY <1>4, <1>8, <1>15 DEF Reaped
<1>16. ASSUME NEW p \in Servers, WorkersEnd(p) PROVE TypeOK'
    BY <1>5, <1>16 DEF WorkersEnd, TypeOK
\* The steps that change a file.
<1>17. ASSUME NEW p \in Servers, CheckUnlink(p) PROVE TypeOK'
    BY <1>2, <1>17 DEF CheckUnlink, RemovePid, NoFile, TypeOK, Exists, Starting
<1>18. ASSUME NEW p \in Servers, OpenPid(p) PROVE TypeOK'
    <2>1. CASE srv' = [srv EXCEPT ![p] = Outside("gone")] /\ UNCHANGED pidFile
        BY <1>3, <1>8, <1>18, <2>1 DEF OpenPid
    <2>2. CASE \E f \in Servers :
                  /\ srv' = [srv EXCEPT ![p].pc = "writePid", ![p].fd = f]
                  /\ pidFile' = [by |-> f, text |-> "empty"]
        <3>1. PICK f \in Servers :
                  /\ srv' = [srv EXCEPT ![p] = [srv[p] EXCEPT !.pc = "writePid", !.fd = f]]
                  /\ pidFile' = [by |-> f, text |-> "empty"]
            BY <2>2
        <3>2. [srv[p] EXCEPT !.pc = "writePid", !.fd = f] \in Records
            BY RecordFacts DEF TypeOK, Starting
        <3>3. srv' \in [Servers -> Records]
            BY <1>1, <3>1, <3>2
        <3>4. QED BY <1>18, <3>1, <3>3, ServersAssumption DEF OpenPid, TypeOK, Exists
    <2>3. QED BY <1>18, <2>1, <2>2 DEF OpenPid, Refuse, TypeOK, Exists
<1>19. ASSUME NEW p \in Servers, WritePid(p) PROVE TypeOK'
    <2>1. srv' = [srv EXCEPT ![p] = [srv[p] EXCEPT !.pc = "writePort", !.fd = None]]
        BY <1>19 DEF WritePid
    <2>2. [srv[p] EXCEPT !.pc = "writePort", !.fd = None] \in Records
        BY RecordFacts DEF TypeOK, Starting
    <2>3. srv' \in [Servers -> Records]
        BY <1>1, <2>1, <2>2
    <2>4. srv[p].fd # None
        BY <1>19 DEF WritePid, FreshInv
    <2>5. QED BY <1>19, <2>3, <2>4, ServersAssumption DEF WritePid, TypeOK, Exists
<1>20. ASSUME NEW p \in Servers, WritePort(p) \/ RegOpen(p) \/ RegWrite(p) PROVE TypeOK'
    BY <1>2, <1>20 DEF WritePort, RegOpen, RegWrite, TypeOK, Exists, Starting
<1>21. ASSUME NEW p \in Servers, ExitReg(p) \/ ExitPort(p) PROVE TypeOK'
    BY <1>2, <1>21 DEF ExitReg, ExitPort, TypeOK, Exists, Exiting
<1>22. ASSUME NEW p \in Servers, ExitPid(p) PROVE TypeOK'
    BY <1>3, <1>22 DEF ExitPid, End, RemovePid, NoFile, TypeOK, Exists
\* stop() and list_instances().
<1>23. CASE StopBegin
    <2>1. contended' \in BOOLEAN
        BY <1>23, Zenon DEF StopBegin
    <2>2. QED BY <1>23, <2>1 DEF StopBegin, TypeOK, Exists
<1>24. CASE StopRead
    BY <1>24 DEF StopRead, StopCleanUp, TypeOK, Exists
<1>25. CASE StopProbe \/ StopWait \/ StopConfirm
    <2>1. stopTarget \in Servers
        BY <1>25 DEF StopProbe, StopWait, StopConfirm, PlaceInv
    <2>2. srv' \in [Servers -> Records]
        BY <1>4, <1>25, <2>1 DEF StopProbe, StopWait, StopConfirm, StopGone, TypeOK
    <2>3. QED BY <1>25, <2>2 DEF StopProbe, StopWait, StopConfirm, StopGone, StopCleanUp, TypeOK, Exists
<1>26. CASE StopDenied
    <2>1. contended' \in BOOLEAN
        BY <1>26, Zenon DEF StopDenied
    <2>2. QED BY <1>26, <2>1 DEF StopDenied, StopCleanUp, TypeOK, Exists
<1>27. CASE StopKill
    <2>1. stopTarget \in Servers
        BY <1>27 DEF StopKill, PlaceInv
    <2> DEFINE b == Living(stopTarget)
    <2>2. srv' = [srv EXCEPT ![stopTarget] = [srv[stopTarget] EXCEPT !.killed = b]]
        BY <1>27 DEF StopKill
    <2>3. [srv[stopTarget] EXCEPT !.killed = b] \in Records
        <3>1. b \in BOOLEAN
            BY DEF Living
        <3> HIDE DEF b
        <3>2. QED BY <2>1, <3>1, RecordFacts DEF TypeOK
    <2> HIDE DEF b
    <2>4. srv' \in [Servers -> Records]
        BY <1>1, <2>1, <2>2, <2>3
    <2>5. QED BY <1>27, <2>4 DEF StopKill, TypeOK, Exists
<1>28. CASE StopRmPid \/ StopRmPort
    BY <1>28 DEF StopRmPid, StopRmPort, RemovePid, NoFile, TypeOK, Exists
<1>29. CASE ListPrune \/ \E q \in Servers : ListRead(q)
    BY <1>29 DEF ListPrune, ListRead, TypeOK, Exists
<1>30. ASSUME NEW q \in Servers, ListDead(q) PROVE TypeOK'
    <2>1. srv' \in [Servers -> Records]
        BY <1>4, <1>30 DEF ListDead
    <2>2. QED BY <1>30, <2>1 DEF ListDead, TypeOK, Exists
<1>31. CASE UNCHANGED vars
    BY <1>31 DEF vars, TypeOK, Exists
<1>32. QED
    <2>1. ASSUME NEW p \in Servers, Serve(p) PROVE TypeOK'
        BY <1>6, <2>1 DEF Serve, TypeOK
    <2>2. ASSUME NEW p \in Servers, ServeBackground(p) PROVE TypeOK'
        <3>1. PICK n \in Ports : Begin(p, "background", n) /\ launching' = [launching EXCEPT ![p] = n]
            BY <2>2 DEF ServeBackground
        <3>2. launching' \in [Servers -> Ports \cup {None}] /\ "background" \in Modes
            BY <2>2, <3>1 DEF ServeBackground, TypeOK
        <3>3. QED BY <1>6, <3>1, <3>2
    <2>3. ASSUME NEW p \in Servers, StartStep(p) PROVE TypeOK'
        BY <1>9, <1>10, <1>11, <1>12, <1>17, <1>18, <1>19, <1>20, <2>3 DEF StartStep
    <2>4. ASSUME NEW p \in Servers, Crash(p) \/ KillLands(p) PROVE TypeOK'
        BY <1>14, <2>4 DEF Crash, KillLands
    <2>5. QED BY <1>7, <1>13, <1>15, <1>16, <1>21, <1>22, <1>23, <1>24, <1>25, <1>26, <1>27,
            <1>28, <1>29, <1>30, <1>31, <2>1, <2>2, <2>3, <2>4 DEF Next, ExitStep, LaunchStep, StopStep

-----------------------------------------------------------------------------
(* What a step does to the records.                                        *)

\* A process that takes no step, other than to be waited for.
Same(q) ==
    \/ /\ srv'[q].pc = srv[q].pc /\ srv'[q].mode = srv[q].mode
       /\ srv'[q].port = srv[q].port /\ srv'[q].seen = srv[q].seen
       /\ srv'[q].fd = srv[q].fd /\ srv'[q].killed = srv[q].killed
    \/ srv[q].pc = "zombie" /\ srv'[q].pc = "gone" /\ srv'[q].seen = None

\* Server p goes to l, with s as the PID seen and f as its inode.
Moved(p, l, s, f) ==
    /\ srv'[p].pc = l /\ srv'[p].mode = srv[p].mode /\ srv'[p].port = srv[p].port
    /\ srv'[p].seen = s /\ srv'[p].fd = f /\ srv'[p].killed = srv[p].killed
    /\ \A q \in Servers \ {p} : Same(q)

Left(p, l) ==
    /\ srv'[p].pc = l /\ srv'[p].seen = None /\ srv'[p].killed = FALSE
    /\ \A q \in Servers \ {p} : Same(q)

\* What this says of a process that works or is about to.
LEMMA SameFacts ==
    ASSUME NEW q \in Servers, Same(q)
    PROVE  /\ Living(q)' = Living(q)
           /\ srv'[q].pc \notin Over \/ srv[q].pc \notin Over =>
                 /\ srv'[q].pc = srv[q].pc /\ srv'[q].mode = srv[q].mode
                 /\ srv'[q].port = srv[q].port /\ srv'[q].seen = srv[q].seen
                 /\ srv'[q].fd = srv[q].fd /\ srv'[q].killed = srv[q].killed
           /\ srv'[q].seen \in {srv[q].seen, None}
BY DEF Same, Living, Over, Starting, Checking, Exiting

LEMMA SameAble == ASSUME NEW q \in Servers, Same(q) PROVE Able(q)' <=> Able(q)
BY DEF Same, Able, Living, Over, Starting, Checking, Exiting

LEMMA GotoMoves ==
    ASSUME TypeOK, NEW p \in Servers, NEW l, Goto(p, l)
    PROVE  Moved(p, l, srv[p].seen, srv[p].fd)
BY DEF TypeOK, Records, Goto, Moved, Same

LEMMA OutsideLeaves ==
    ASSUME TypeOK, NEW p \in Servers, NEW l, srv' = [srv EXCEPT ![p] = Outside(l)]
    PROVE  Left(p, l)
BY DEF TypeOK, Records, Outside, Left, Same

LEMMA WaitedKeeps ==
    ASSUME TypeOK, NEW p, srv' = Waited(p)
    PROVE  \A q \in Servers : Same(q)
BY DEF TypeOK, Records, Waited, Outside, Same

LEMMA BeginMoves ==
    ASSUME TypeOK, NEW p \in Servers, NEW m \in Modes, NEW n \in Ports, Begin(p, m, n)
    PROVE  /\ srv[p].pc = "new"
           /\ srv'[p].pc = EntryOf(m) /\ srv'[p].mode = m /\ srv'[p].port = n
           /\ srv'[p].seen = srv[p].seen /\ srv'[p].fd = srv[p].fd
           /\ \A q \in Servers \ {p} : Same(q)
BY DEF TypeOK, Records, Begin, Same

LEMMA ReadMoves ==
    ASSUME TypeOK, NEW p \in Servers, CheckRead(p)
    PROVE  \/ pidFile.text \in Servers /\ Moved(p, "probe", pidFile.text, srv[p].fd)
           \/ pidFile.text \notin Servers /\ Moved(p, "unlink", srv[p].seen, srv[p].fd)
<1>1. CASE /\ pidFile.text \in Servers
           /\ srv' = [srv EXCEPT ![p].pc = "probe", ![p].seen = pidFile.text]
    BY <1>1 DEF TypeOK, Records, Moved, Same
<1>2. CASE pidFile.text \notin Servers /\ Goto(p, "unlink")
    BY <1>2, GotoMoves
<1>3. QED BY <1>1, <1>2 DEF CheckRead

LEMMA ProbeMoves ==
    ASSUME TypeOK, NEW p \in Servers, CheckProbe(p)
    PROVE  \/ Answers(p, srv[p].seen) /\ Left(p, "gone")
           \/ ~Answers(p, srv[p].seen) /\ Moved(p, "unlink", None, srv[p].fd)
<1>1. CASE Answers(p, srv[p].seen) /\ Refuse(p)
    BY <1>1, OutsideLeaves DEF Refuse
<1>2. CASE /\ ~Answers(p, srv[p].seen)
           /\ srv' = [Waited(srv[p].seen) EXCEPT ![p].pc = "unlink", ![p].seen = None]
    <2>1. srv[p].pc = "probe"
        BY DEF CheckProbe
    <2>2. QED BY <1>2, <2>1 DEF TypeOK, Records, Waited, Outside, Moved, Same
<1>3. QED BY <1>1, <1>2 DEF CheckProbe

LEMMA PortMoves ==
    ASSUME TypeOK, NEW p \in Servers, EnsurePort(p) \/ Reclaim(p)
    PROVE  \/ PortFree(srv[p].port) /\ Moved(p, "openPid", srv[p].seen, srv[p].fd)
           \/ /\ EnsurePort(p) /\ Moved(p, "reclaim", srv[p].seen, srv[p].fd)
              /\ \E q \in Servers : srv[q].pc = "running" /\ pidFile.text = q
           \/ ~PortFree(srv[p].port) /\ Left(p, "gone")
<1>1. CASE PortFree(srv[p].port) /\ Goto(p, "openPid")
    BY <1>1, GotoMoves
<1>2. CASE /\ EnsurePort(p) /\ Goto(p, "reclaim")
           /\ \E q \in Servers : srv[q].pc = "running" /\ pidFile.text = q
    BY <1>2, GotoMoves
<1>3. CASE ~PortFree(srv[p].port) /\ Refuse(p)
    BY <1>3, OutsideLeaves DEF Refuse
<1>4. QED BY <1>1, <1>2, <1>3 DEF EnsurePort, Reclaim

LEMMA OpenMoves ==
    ASSUME TypeOK, NEW p \in Servers, OpenPid(p)
    PROVE  \/ /\ srv[p].mode = "single" /\ Exists
              /\ Left(p, "gone") /\ pidFile' = pidFile
           \/ /\ pidFile'.by # None /\ pidFile'.text = "empty"
              /\ Moved(p, "writePid", srv[p].seen, pidFile'.by)
<1>1. CASE srv[p].mode = "single" /\ Exists /\ Refuse(p) /\ UNCHANGED pidFile
    BY <1>1, OutsideLeaves DEF Refuse
<1>2. ASSUME NEW f \in Servers, srv' = [srv EXCEPT ![p].pc = "writePid", ![p].fd = f],
             pidFile' = [by |-> f, text |-> "empty"]
      PROVE  /\ pidFile'.by # None /\ pidFile'.text = "empty"
             /\ Moved(p, "writePid", srv[p].seen, pidFile'.by)
    BY <1>2, ServersAssumption DEF TypeOK, Records, Moved, Same
<1>3. (IF Exists THEN pidFile.by ELSE p) \in Servers
    BY DEF TypeOK, Exists
<1>4. QED BY <1>1, <1>2, <1>3 DEF OpenPid

LEMMA WriteMoves ==
    ASSUME TypeOK, NEW p \in Servers, WritePid(p)
    PROVE  /\ Moved(p, "writePort", srv[p].seen, None)
           /\ pidFile'.by = pidFile.by
           /\ pidFile'.text = IF pidFile.by = srv[p].fd THEN p ELSE pidFile.text
<1>1. srv' = [srv EXCEPT ![p].pc = "writePort", ![p].fd = None]
    BY DEF WritePid
<1>2. Moved(p, "writePort", srv[p].seen, None)
    BY <1>1 DEF TypeOK, Records, Moved, Same
<1>3. QED BY <1>2 DEF WritePid, TypeOK

LEMMA KillMoves ==
    ASSUME TypeOK, StopKill, stopTarget \in Servers
    PROVE  /\ \A q \in Servers \ {stopTarget} : Same(q)
           /\ \A q \in Servers : /\ srv'[q].pc = srv[q].pc /\ srv'[q].seen = srv[q].seen
                                 /\ srv'[q].fd = srv[q].fd /\ srv'[q].port = srv[q].port
           /\ srv'[stopTarget].killed = Living(stopTarget)
<1> DEFINE b == Living(stopTarget)
<1>1. srv' = [srv EXCEPT ![stopTarget].killed = b]
    BY DEF StopKill
<1> HIDE DEF b
<1>2. /\ \A q \in Servers \ {stopTarget} : srv'[q] = srv[q]
      /\ srv'[stopTarget] = [srv[stopTarget] EXCEPT !.killed = b]
    BY <1>1 DEF TypeOK
<1>3. [srv[stopTarget] EXCEPT !.killed = b].killed = b
    BY DEF TypeOK, Records
<1>4. \A q \in Servers : /\ srv'[q].pc = srv[q].pc /\ srv'[q].seen = srv[q].seen
                         /\ srv'[q].fd = srv[q].fd /\ srv'[q].port = srv[q].port
    BY <1>2 DEF TypeOK, Records
<1>5. QED BY <1>2, <1>3, <1>4 DEF Same, b

-----------------------------------------------------------------------------
(* The steps preserve what holds however the calls overlap.                *)

LEMMA FreshKeep == ASSUME TypeOK, FreshInv, PlaceInv, [Next]_vars PROVE FreshInv'
\* Most steps write no PID and learn none.
<1>1. ASSUME pidFile'.text \in {pidFile.text, "none", "empty"},
             \A q \in Servers :
                /\ srv'[q].pc \in Early => srv[q].pc \in Early
                /\ srv'[q].seen \in {srv[q].seen, None}
                /\ srv'[q].pc = "writePid" => srv[q].pc = "writePid" /\ srv'[q].fd = srv[q].fd
      PROVE  FreshInv'
    BY <1>1, ServersAssumption DEF FreshInv
<1>2. ASSUME pidFile' = pidFile, NEW p \in Servers, NEW l, NEW s \in {srv[p].seen, None},
             Moved(p, l, s, srv[p].fd), l \in Early => srv[p].pc \in Early, l # "writePid"
      PROVE  FreshInv'
    BY <1>1, <1>2 DEF Moved, Same, Early, Checking
<1>3. ASSUME pidFile'.text \in {pidFile.text, "none", "empty"},
             NEW p \in Servers, NEW l \in Over \cup {"exitReg"}, Left(p, l)
      PROVE  FreshInv'
    BY <1>1, <1>3 DEF Left, Same, Early, Checking, Over
<1>4. ASSUME pidFile'.text \in {pidFile.text, "none", "empty"}, \A q \in Servers : Same(q)
      PROVE  FreshInv'
    BY <1>1, <1>4 DEF Same, Early, Checking
<1> USE DEF files, stopVars
<1>5. ASSUME NEW p \in Servers, NEW m \in Modes, NEW n \in Ports, Begin(p, m, n) PROVE FreshInv'
    <2>1. EntryOf(m) \in Early /\ EntryOf(m) # "writePid"
        BY ModesAssumption DEF EntryOf, Early, Checking
    <2>2. pidFile' = pidFile
        BY <1>5 DEF Begin
    <2>3. srv[p].pc \in Early
        BY <1>5, BeginMoves DEF Early
    <2>4. QED BY <1>1, <1>5, <2>1, <2>2, <2>3, BeginMoves DEF Same, Early, Checking
<1>6. ASSUME NEW p \in Servers, CheckRead(p) PROVE FreshInv'
    <2>1. pidFile' = pidFile /\ srv[p].pc \in Early
        BY <1>6 DEF CheckRead, Early, Checking
    <2>2. CASE Moved(p, "unlink", srv[p].seen, srv[p].fd)
        BY <1>2, <2>1, <2>2
    <2>3. CASE pidFile.text \in Servers /\ Moved(p, "probe", pidFile.text, srv[p].fd)
        <3>1. \A q \in Servers : srv'[q].pc \in Early => srv[q].pc \in Early
            BY <2>1, <2>3 DEF Moved, Same, Early, Checking
        <3>2. \A q \in Servers : srv'[q].pc = "writePid" =>
                 srv[q].pc = "writePid" /\ srv'[q].fd = srv[q].fd
            BY <2>3 DEF Moved, Same
        <3>3. \A q \in Servers : srv'[q].seen \in {srv[q].seen, pidFile.text, None}
            BY <2>3 DEF Moved, Same
        <3>4. QED BY <2>1, <3>1, <3>2, <3>3, ServersAssumption DEF FreshInv
    <2>4. QED BY <1>6, <2>2, <2>3, ReadMoves
<1>7. ASSUME NEW p \in Servers, CheckProbe(p) PROVE FreshInv'
    <2>1. pidFile' = pidFile /\ srv[p].pc \in Early
        BY <1>7 DEF CheckProbe, Early, Checking
    <2>2. QED BY <1>2, <1>3, <1>7, <2>1, ProbeMoves DEF Over
<1>8. ASSUME NEW p \in Servers, CheckExists(p) PROVE FreshInv'
    <2>1. pidFile' = pidFile /\ srv[p].pc \in Early
        BY <1>8 DEF CheckExists, Early, Checking
    <2>2. QED BY <1>2, <1>8, <2>1, GotoMoves DEF CheckExists
<1>9. ASSUME NEW p \in Servers, EnsurePort(p) \/ Reclaim(p) PROVE FreshInv'
    <2>1. pidFile' = pidFile /\ srv[p].pc \in Early
        BY <1>9 DEF EnsurePort, Reclaim, Early
    <2>2. \/ \E l \in {"openPid", "reclaim"} : Moved(p, l, srv[p].seen, srv[p].fd)
          \/ Left(p, "gone")
        BY <1>9, PortMoves
    <2>3. QED BY <1>2, <1>3, <2>1, <2>2 DEF Over
<1>10. ASSUME NEW p \in Servers, OpenPid(p) PROVE FreshInv'
    <2>1. srv[p].pc \in Early
        BY <1>10 DEF OpenPid, Early
    <2>2. CASE Left(p, "gone") /\ pidFile' = pidFile
        BY <1>3, <2>2 DEF Over
    <2>3. CASE /\ pidFile'.by # None /\ pidFile'.text = "empty"
               /\ Moved(p, "writePid", srv[p].seen, pidFile'.by)
        <3>1. \A q \in Servers : /\ srv'[q].pc \in Early => srv[q].pc \in Early
                                 /\ srv'[q].seen \in {srv[q].seen, None}
                                 /\ srv'[q].pc = "writePid" => srv'[q].fd # None
            BY <2>1, <2>3 DEF Moved, Same, FreshInv, Early, Checking
        <3>2. QED BY <2>3, <3>1, ServersAssumption DEF FreshInv
    <2>4. QED BY <1>10, <2>2, <2>3, OpenMoves
<1>11. ASSUME NEW p \in Servers, WritePid(p) PROVE FreshInv'
    <2>1. \A q \in Servers : /\ srv'[q].pc \in Early => srv[q].pc \in Early /\ q # p
                             /\ srv'[q].seen \in {srv[q].seen, None}
                             /\ srv'[q].pc = "writePid" =>
                                   srv[q].pc = "writePid" /\ srv'[q].fd = srv[q].fd
        BY <1>11, WriteMoves DEF Moved, Same, Early, Checking
    <2>2. pidFile'.text \in {p, pidFile.text}
        BY <1>11, WriteMoves
    <2>3. QED BY <2>1, <2>2, ServersAssumption DEF FreshInv
<1>12. ASSUME NEW p \in Servers,
              CheckUnlink(p) \/ WritePort(p) \/ RegOpen(p) \/ RegWrite(p) \/ ExitReg(p) \/ ExitPort(p)
       PROVE  FreshInv'
    <2>1. pidFile'.text \in {pidFile.text, "none", "empty"}
        BY <1>12 DEF CheckUnlink, WritePort, RegOpen, RegWrite, ExitReg, ExitPort, RemovePid, NoFile
    <2>2. CASE CheckUnlink(p)
        BY <1>1, <2>1, <2>2, GotoMoves DEF CheckUnlink, Moved, Same, Early, Checking
    <2>3. CASE \E l \in {"regOpen", "regWrite", "bind"} \cup Exiting : Goto(p, l)
        BY <1>1, <2>1, <2>3, GotoMoves DEF Moved, Same, Early, Checking, Exiting
    <2>4. QED BY <1>12, <2>2, <2>3 DEF WritePort, RegOpen, RegWrite, ExitReg, ExitPort, Exiting
<1>13. ASSUME NEW p \in Servers, Bind(p) \/ Shutdown(p) PROVE FreshInv'
    <2>1. pidFile' = pidFile
        BY <1>13 DEF Bind, Shutdown
    <2>2. Goto(p, "running") \/ srv' = [srv EXCEPT ![p] = Outside("exitReg")]
        BY <1>13 DEF Bind, Shutdown, Exit
    <2>3. Moved(p, "running", srv[p].seen, srv[p].fd) \/ Left(p, "exitReg")
        BY <2>2, GotoMoves, OutsideLeaves
    <2>4. QED BY <1>2, <1>3, <2>1, <2>3 DEF Early, Checking
<1>14. ASSUME NEW p \in Servers, End(p), pidFile'.text \in {pidFile.text, "none"} PROVE FreshInv'
    BY <1>3, <1>14, OutsideLeaves DEF End, Over
<1>15. ASSUME NEW p, srv' = Waited(p), pidFile' = pidFile PROVE FreshInv'
    BY <1>4, <1>15, WaitedKeeps
<1>16. CASE StopKill
    <2>1. stopTarget \in Servers /\ pidFile' = pidFile
        BY <1>16 DEF StopKill, PlaceInv
    <2>2. QED BY <1>1, <1>16, <2>1, KillMoves
<1>17. ASSUME srv' = srv, pidFile'.text \in {pidFile.text, "none", "empty"} PROVE FreshInv'
    BY <1>4, <1>17 DEF Same
<1>18. QED
    <2>1. ASSUME NEW p \in Servers, Serve(p) \/ ServeBackground(p) PROVE FreshInv'
        BY <1>5, <2>1 DEF Serve, ServeBackground
    <2>2. ASSUME NEW p \in Servers, StartStep(p) PROVE FreshInv'
        BY <1>6, <1>7, <1>8, <1>9, <1>10, <1>11, <1>12, <1>13, <2>2 DEF StartStep
    <2>3. ASSUME NEW p \in Servers, ExitStep(p) PROVE FreshInv'
        BY <1>12, <1>14, <2>3 DEF ExitStep, ExitPid, RemovePid, NoFile
    <2>4. ASSUME NEW p \in Servers, Crash(p) \/ KillLands(p) \/ Reaped(p) \/ WorkersEnd(p) PROVE FreshInv'
        BY <1>14, <1>15, <1>17, <2>4 DEF Crash, KillLands, Die, Reaped, WorkersEnd
    <2>5. ASSUME NEW p \in Servers, LaunchStep(p) PROVE FreshInv'
        BY <1>14, <1>15, <1>17, <2>5 DEF LaunchStep, LaunchAnswered, LaunchExited, LaunchTimesOut
    <2>6. CASE StopBegin \/ StopStep
        BY <1>15, <1>16, <1>17, <2>6 DEF StopBegin, StopStep, StopRead, StopProbe, StopDenied, StopWait,
            StopConfirm, StopGone, StopRmPid, StopRmPort, RemovePid, NoFile
    <2>7. CASE ListPrune \/ \E q \in Servers : ListRead(q) \/ ListDead(q)
        BY <1>15, <1>17, <2>7 DEF ListPrune, ListRead, ListDead
    <2>8. CASE UNCHANGED vars
        BY <1>17, <2>8 DEF vars
    <2>9. QED BY <1>13, <2>1, <2>2, <2>3, <2>4, <2>5, <2>6, <2>7, <2>8 DEF Next

LEMMA PlaceKeep == ASSUME TypeOK, PlaceInv, [Next]_vars PROVE PlaceInv'
<1> DEFINE Aim == stopPc' \in {"probe", "wait", "confirm"} => stopTarget' \in Servers
<1>1. ASSUME Aim, reg' = reg, \A q \in Servers : left'[q] \in {left[q], None},
             \A q \in Servers :
                /\ srv'[q].pc \in Starting => srv'[q].port # None
                /\ srv'[q].pc = "regWrite" => srv[q].pc = "regWrite"
                /\ srv'[q].pc \in {"bind", "running"} => srv[q].pc \in {"bind", "running"}
                /\ srv[q].pc \in Over => srv'[q].pc \in Over
      PROVE  PlaceInv'
    BY <1>1 DEF PlaceInv
<1>2. ASSUME Aim, reg' = reg, \A q \in Servers : left'[q] \in {left[q], None},
             \A q \in Servers : Same(q)
      PROVE  PlaceInv'
    <2>1. \A q \in Servers : srv'[q].pc \in Starting => srv'[q].port # None
        BY <1>2 DEF PlaceInv, Same, Starting, Checking
    <2>2. QED BY <1>1, <1>2, <2>1 DEF Same, Over
<1>3. ASSUME UNCHANGED <<reg, left, stopPc, stopTarget>>, NEW p \in Servers, Living(p), NEW l, NEW s, NEW f,
             l \notin {"regWrite", "bind"}, l = "running" => srv[p].pc = "bind",
             \/ Moved(p, l, s, f) /\ (srv[p].pc \in Starting \/ l \notin Starting)
             \/ Left(p, l) /\ l \notin Starting
      PROVE  PlaceInv'
    <2>1. srv'[p].pc = l /\ \A q \in Servers \ {p} : Same(q)
        BY <1>3 DEF Moved, Left
    <2>2. Aim
        BY <1>3 DEF PlaceInv
    <2>3. \A q \in Servers : srv'[q].pc \in Starting => srv'[q].port # None
        <3>1. \A q \in Servers \ {p} : srv'[q].pc \in Starting => srv'[q].port # None
            BY <2>1 DEF PlaceInv, Same, Starting, Checking
        <3>2. l \in Starting => srv'[p].port # None
            BY <1>3 DEF PlaceInv, Moved
        <3>3. QED BY <2>1, <3>1, <3>2
    <2>4. QED BY <1>1, <1>3, <2>1, <2>2, <2>3 DEF Same, Over, Living, Starting, Checking, Exiting
<1> USE DEF files, stopVars
<1>4. ASSUME NEW p \in Servers, NEW m \in Modes, NEW n \in Ports, Begin(p, m, n) PROVE PlaceInv'
    <2>1. EntryOf(m) \notin {"regWrite", "bind", "running"}
        BY ModesAssumption DEF EntryOf
    <2>2. UNCHANGED <<reg, left, stopPc, stopTarget>>
        BY <1>4 DEF Begin
    <2>3. Aim
        BY <2>2 DEF PlaceInv
    <2>4. \A q \in Servers : srv'[q].pc \in Starting => srv'[q].port # None
        BY <1>4, BeginMoves, PortsAssumption DEF PlaceInv, Same, Starting, Checking
    <2>5. QED BY <1>1, <1>4, <2>1, <2>2, <2>3, <2>4, BeginMoves DEF Same, Over
<1>5. ASSUME NEW p \in Servers, Living(p), CheckExists(p) \/ CheckRead(p) \/ CheckProbe(p) \/ CheckUnlink(p)
      PROVE  PlaceInv'
    <2>1. UNCHANGED <<reg, left, stopPc, stopTarget>>
        BY <1>5 DEF CheckExists, CheckRead, CheckProbe, CheckUnlink
    <2>2. srv[p].pc \in Starting /\ "gone" \notin Starting
        BY <1>5 DEF CheckExists, CheckRead, CheckProbe, CheckUnlink, Starting, Checking
    <2>3. CASE \E l \in {"read", "port"} : Goto(p, l)
        BY <1>3, <1>5, <2>1, <2>2, <2>3, GotoMoves
    <2>4. QED BY <1>3, <1>5, <2>1, <2>2, <2>3, ReadMoves, ProbeMoves DEF CheckExists, CheckUnlink
<1>6. ASSUME NEW p \in Servers, Living(p), EnsurePort(p) \/ Reclaim(p) \/ OpenPid(p) \/ WritePid(p)
      PROVE  PlaceInv'
    <2>1. UNCHANGED <<reg, left, stopPc, stopTarget>>
        BY <1>6 DEF EnsurePort, Reclaim, OpenPid, WritePid
    <2>2. srv[p].pc \in Starting /\ "gone" \notin Starting
        BY <1>6 DEF EnsurePort, Reclaim, OpenPid, WritePid, Starting, Checking
    <2>3. CASE EnsurePort(p) \/ Reclaim(p)
        <3>1. \/ Moved(p, "openPid", srv[p].seen, srv[p].fd)
              \/ Moved(p, "reclaim", srv[p].seen, srv[p].fd)
              \/ Left(p, "gone")
            BY <2>3, PortMoves
        <3>2. QED BY <1>3, <1>6, <2>1, <2>2, <3>1
    <2>4. CASE OpenPid(p)
        BY <1>3, <1>6, <2>1, <2>2, <2>4, OpenMoves
    <2>5. CASE WritePid(p)
        BY <1>3, <1>6, <2>1, <2>2, <2>5, WriteMoves
    <2>6. QED BY <1>6, <2>3, <2>4, <2>5
<1>7. ASSUME NEW p \in Servers, Living(p), WritePort(p) \/ ExitPort(p) PROVE PlaceInv'
    BY <1>3, <1>7, GotoMoves DEF WritePort, ExitPort, Starting, Checking
<1>8. ASSUME NEW p \in Servers, RegOpen(p) \/ RegWrite(p) \/ ExitReg(p) PROVE PlaceInv'
    <2>1. PICK l : Moved(p, l, srv[p].seen, srv[p].fd)
        BY <1>8, GotoMoves DEF RegOpen, RegWrite, ExitReg
    <2>2. UNCHANGED <<left, stopPc, stopTarget>> /\ \A q \in Servers \ {p} : reg'[q] = reg[q] /\ Same(q)
        BY <1>8, <2>1 DEF RegOpen, RegWrite, ExitReg, TypeOK, Moved
    <2>3. \/ srv[p].pc = "regOpen" /\ srv'[p].pc = "regWrite" /\ reg'[p] = "partial"
          \/ srv[p].pc = "regWrite" /\ srv'[p].pc = "bind" /\ (reg[p] = "partial" => reg'[p] = "entry")
             /\ (reg[p] # "partial" => reg'[p] = reg[p])
          \/ srv[p].pc = "exitReg" /\ srv'[p].pc = "exitPort"
        BY <1>8 DEF RegOpen, RegWrite, ExitReg, Goto, TypeOK, Records
    <2>4. \A q \in Servers : srv'[q].pc \in Starting => srv'[q].port # None
        BY <2>1, <2>2, <2>3 DEF PlaceInv, Same, Moved, Starting, Checking
    <2>5. QED BY <2>2, <2>3, <2>4 DEF PlaceInv, Same, Over
<1>9. ASSUME NEW p \in Servers, Living(p), Bind(p) \/ Shutdown(p) PROVE PlaceInv'
    <2>1. \/ Goto(p, "running") /\ srv[p].pc = "bind"
          \/ srv' = [srv EXCEPT ![p] = Outside("exitReg")]
        BY <1>9 DEF Bind, Shutdown, Exit
    <2>2. \/ Moved(p, "running", srv[p].seen, srv[p].fd) /\ srv[p].pc = "bind"
          \/ Left(p, "exitReg")
        BY <2>1, GotoMoves, OutsideLeaves
    <2>3. {"running", "exitReg"} \cap Starting = {}
        BY DEF Starting, Checking
    <2>4. QED BY <1>3, <1>9, <2>2, <2>3 DEF Bind, Shutdown
<1>10. ASSUME NEW p \in Servers, End(p), UNCHANGED <<reg, stopPc, stopTarget>>,
              \A q \in Servers \ {p} : left'[q] = left[q]
       PROVE  PlaceInv'
    <2>1. srv'[p].pc = "zombie" /\ \A q \in Servers \ {p} : Same(q)
        BY <1>10, OutsideLeaves DEF End, Left
    <2>2. \A q \in Servers : srv'[q].pc \in Starting => srv'[q].port # None
        BY <2>1 DEF PlaceInv, Same, Starting, Checking
    <2>3. QED BY <1>10, <2>1, <2>2 DEF PlaceInv, Same, Over
<1>11. ASSUME NEW p \in Servers, Die(p) PROVE PlaceInv'
    BY <1>10, <1>11 DEF Die, TypeOK
<1>12. ASSUME NEW p \in Servers, ExitPid(p) \/ (End(p) /\ LaunchTimesOut(p)) PROVE PlaceInv'
    BY <1>10, <1>12 DEF ExitPid, LaunchTimesOut
<1>13. ASSUME NEW p, srv' = Waited(p), Aim, UNCHANGED <<reg, left>> PROVE PlaceInv'
    BY <1>2, <1>13, WaitedKeeps
<1>14. ASSUME srv' = srv, Aim, reg' = reg, \A q \in Servers : left'[q] \in {left[q], None} PROVE PlaceInv'
    BY <1>2, <1>14 DEF Same
<1>15. ASSUME UNCHANGED <<stopPc, stopTarget>> PROVE Aim
    BY <1>15 DEF PlaceInv
<1>16. ASSUME NEW p \in Servers, Reaped(p) \/ WorkersEnd(p) \/ LaunchAnswered(p) \/ LaunchExited(p)
       PROVE  PlaceInv'
    <2>1. Aim /\ reg' = reg
        BY <1>15, <1>16 DEF Reaped, WorkersEnd, LaunchAnswered, LaunchExited
    <2>2. \A q \in Servers : left'[q] \in {left[q], None}
        BY <1>16 DEF Reaped, WorkersEnd, LaunchAnswered, LaunchExited, TypeOK
    <2>3. srv' = srv \/ (srv' = Waited(p) /\ left' = left)
        <3>1. CASE Reaped(p)
            BY <3>1 DEF Reaped
        <3>2. CASE WorkersEnd(p)
            BY <3>2 DEF WorkersEnd
        <3>3. CASE LaunchAnswered(p)
            BY <3>3 DEF LaunchAnswered
        <3>4. CASE LaunchExited(p)
            BY <3>4 DEF LaunchExited
        <3>5. QED BY <1>16, <3>1, <3>2, <3>3, <3>4
    <2>4. QED BY <1>13, <1>14, <2>1, <2>2, <2>3
<1>17. ASSUME NEW p \in Servers, LaunchTimesOut(p) PROVE PlaceInv'
    BY <1>12, <1>14, <1>15, <1>17 DEF LaunchTimesOut
\* stop() and list_instances().
<1>18. ASSUME StopBegin \/ StopRead \/ StopDenied \/ StopRmPid \/ StopRmPort PROVE PlaceInv'
    <2>1. srv' = srv /\ reg' = reg /\ left' = left
        BY <1>18 DEF StopBegin, StopRead, StopDenied, StopRmPid, StopRmPort
    <2>2. Aim
        BY <1>18 DEF StopBegin, StopRead, StopDenied, StopRmPid, StopRmPort, StopCleanUp
    <2>3. QED BY <1>14, <2>1, <2>2
<1>19. ASSUME StopProbe \/ StopWait \/ StopConfirm PROVE PlaceInv'
    <2>1. Aim /\ UNCHANGED <<reg, left>> /\ (srv' = srv \/ srv' = Waited(stopTarget))
        BY <1>19 DEF StopProbe, StopWait, StopConfirm, StopGone, StopCleanUp, PlaceInv
    <2>2. QED BY <1>13, <1>14, <2>1
<1>20. CASE StopKill
    <2>1. stopTarget \in Servers /\ UNCHANGED <<reg, left, stopTarget>>
        BY <1>20 DEF StopKill, PlaceInv
    <2>2. \A q \in Servers : srv'[q].pc = srv[q].pc /\ srv'[q].port = srv[q].port
        BY <1>20, <2>1, KillMoves
    <2>3. QED BY <1>1, <1>20, <2>1, <2>2 DEF PlaceInv
<1>21. ASSUME ListPrune \/ \E q \in Servers : ListRead(q) PROVE PlaceInv'
    <2>1. \A q \in Servers : reg'[q] = reg[q] \/ (reg[q] # "absent" /\ reg'[q] = "lost")
        BY <1>21 DEF ListPrune, ListRead, TypeOK
    <2>2. UNCHANGED <<srv, left, stopPc, stopTarget>>
        BY <1>21 DEF ListPrune, ListRead
    <2>3. QED BY <2>1, <2>2 DEF PlaceInv
<1>22. ASSUME NEW p \in Servers, ListDead(p) PROVE PlaceInv'
    <2>1. ~Living(p) /\ srv' = Waited(p) /\ UNCHANGED <<left, stopPc, stopTarget>>
          /\ \A q \in Servers \ {p} : reg'[q] = reg[q]
        BY <1>22 DEF ListDead, TypeOK
    <2>2. \A q \in Servers : Same(q)
        BY <2>1, WaitedKeeps
    <2>3. srv'[p].pc \notin {"regWrite", "bind", "running"}
        BY <2>1, <2>2 DEF Same, Living, Starting
    <2>4. \A q \in Servers : srv'[q].pc \in Starting => srv'[q].port # None
        BY <2>2 DEF PlaceInv, Same, Starting, Checking
    <2>5. QED BY <2>1, <2>2, <2>3, <2>4 DEF PlaceInv, Same, Over
<1>23. CASE UNCHANGED vars
    BY <1>14, <1>15, <1>23 DEF vars
<1>24. QED
    <2>1. ASSUME NEW p \in Servers, Serve(p) \/ ServeBackground(p) PROVE PlaceInv'
        BY <1>4, <2>1 DEF Serve, ServeBackground
    <2>2. ASSUME NEW p \in Servers, StartStep(p) \/ ExitStep(p) PROVE PlaceInv'
        BY <1>5, <1>6, <1>7, <1>8, <1>9, <1>12, <2>2 DEF StartStep, ExitStep, Able
    <2>3. ASSUME NEW p \in Servers, Shutdown(p) \/ Crash(p) \/ KillLands(p) PROVE PlaceInv'
        BY <1>9, <1>11, <2>3 DEF Shutdown, Crash, KillLands, Able
    <2>4. QED BY <1>16, <1>17, <1>18, <1>19, <1>20, <1>21, <1>22, <1>23, <2>1, <2>2, <2>3
            DEF Next, LaunchStep, StopStep

-----------------------------------------------------------------------------
(* While the calls do not overlap.                                         *)

LEMMA ContendedStays == ASSUME [Next]_vars, ~contended' PROVE ~contended
<1>1. ASSUME NEW p \in Servers, NEW m \in Modes, NEW n \in Ports, Begin(p, m, n) PROVE ~contended
    BY <1>1, Zenon DEF Begin
<1>2. CASE StopBegin \/ StopDenied
    BY <1>2, Zenon DEF StopBegin, StopDenied
<1>3. CASE contended' = contended
    BY <1>3, Zenon
<1>4. ASSUME NEW p \in Servers, Serve(p) \/ ServeBackground(p) PROVE ~contended
    BY <1>1, <1>4 DEF Serve, ServeBackground
<1>5. ASSUME NEW p \in Servers, StartStep(p) \/ ExitStep(p) \/ LaunchStep(p) PROVE contended' = contended
    BY <1>5 DEF StartStep, ExitStep, LaunchStep, CheckExists, CheckRead, CheckProbe, CheckUnlink, EnsurePort,
        Reclaim, OpenPid, WritePid, WritePort, RegOpen, RegWrite, Bind, ExitReg, ExitPort, ExitPid,
        LaunchAnswered, LaunchExited, LaunchTimesOut
<1>6. ASSUME NEW p \in Servers,
             \/ Shutdown(p) \/ Crash(p) \/ KillLands(p) \/ Reaped(p) \/ WorkersEnd(p)
             \/ ListRead(p) \/ ListDead(p)
      PROVE  contended' = contended
    BY <1>6 DEF Shutdown, Crash, KillLands, Die, Reaped, WorkersEnd, ListRead, ListDead
<1>7. ASSUME \/ StopRead \/ StopProbe \/ StopWait \/ StopKill \/ StopConfirm \/ StopRmPid \/ StopRmPort
             \/ ListPrune \/ UNCHANGED vars
      PROVE  contended' = contended
    BY <1>7 DEF StopRead, StopProbe, StopWait, StopKill, StopConfirm, StopRmPid, StopRmPort, ListPrune, vars
<1>8. QED BY <1>2, <1>3, <1>4, <1>5, <1>6, <1>7 DEF Next, StopStep

LEMMA CalmKeep == ASSUME TypeOK, FreshInv, PlaceInv, CalmInv, [Next]_vars PROVE CalmInv'
<1> SUFFICES ASSUME ~contended' PROVE Calm'
    BY DEF CalmInv
<1>0. ~contended /\ Calm
    BY ContendedStays DEF CalmInv
\* A server that works and is not starting has its PID in the file.
<1>1. \A q \in Servers : Able(q) => srv[q].pc \in Starting \/ (pidFile.text = q /\ Exists)
    BY <1>0, ServersAssumption DEF Calm, MineInv, Able, Living, Acting, TypeOK
<1>w. \A p \in Servers : p \notin {None, "none", "empty"}
    BY ServersAssumption
<1> USE DEF files, stopVars
<1>2. ASSUME NEW p \in Servers, NEW m \in Modes, NEW n \in Ports, Begin(p, m, n),
             \A q \in Servers : launching'[q] = launching[q] \/ (m = "background" /\ q = p)
      PROVE  Calm'
    <2>1. ~Busy /\ (m = "single" \/ ~Occupied)
        BY <1>2, Zenon DEF Begin
    <2>2. /\ UNCHANGED <<pidFile, portFile, left, stopPc, stopTarget>>
          /\ srv[p].pc = "new" /\ srv'[p].pc = EntryOf(m) /\ srv'[p].mode = m
          /\ \A q \in Servers \ {p} : Same(q)
        BY <1>2, BeginMoves DEF Begin
    <2>3. /\ m = "single" => EntryOf(m) = "exists"
          /\ m # "single" => EntryOf(m) \in {"port", "openPid"}
        BY ModesAssumption DEF EntryOf
    <2>4. /\ stopPc = "idle"
          /\ \A q \in Servers : launching[q] = None /\ srv[q].pc \notin Starting
        BY <2>1 DEF Busy
    <2>5. OneInv' /\ StopInv'
        BY <2>2, <2>4 DEF OneInv, StopInv, Same, Starting, Checking
    <2>6. MineInv'
        BY <1>0, <2>2, <2>3 DEF Calm, MineInv, Acting, Exiting, Same, Able, Living
    <2>7. m # "single" => \A q \in Servers : ~Living(q) /\ left[q] = None
        BY <2>1 DEF Occupied
    <2>8. \A q \in Servers \ {p} : Living(q)' = Living(q)
        BY <2>2, SameFacts
    <2>9. AloneInv'
        BY <2>2, <2>3, <2>4, <2>7, <2>8 DEF AloneInv, Able, Same, Starting, Checking
    <2>10. LaunchInv'
        BY <1>2, <2>2, <2>4, <2>7, <2>8 DEF LaunchInv
    <2>11. SeenInv' /\ FreeInv' /\ HeldInv'
        BY <2>2, <2>3, <2>4 DEF SeenInv, FreeInv, HeldInv, Starting, Checking, Same, Exists
    <2>12. pidFile.text # p
        BY <2>2 DEF FreshInv, Early
    <2>13. DoomInv'
        BY <1>0, <2>2, <2>12, SameFacts DEF Calm, DoomInv, Living, Over, Starting, Checking, Exiting
    <2>14. QED BY <2>5, <2>6, <2>9, <2>10, <2>11, <2>13 DEF Calm
\* A step of the starter.
<1>3. ASSUME NEW p \in Servers, srv[p].pc \in Starting,
             UNCHANGED <<pidFile, portFile, left, stopPc, stopTarget, launching>>,
             NEW l, NEW s, NEW f, Left(p, "gone") \/ (Moved(p, l, s, f) /\ l \in Checking),
             l = "probe" => s = pidFile.text /\ s \in Servers \ {p},
             l = "unlink" => \A q \in Servers : Able(q) => q = p
      PROVE  Calm'
    <2>1. \A q \in Servers \ {p} : Same(q)
        BY <1>3 DEF Left, Moved
    <2>2. \/ srv'[p].pc = "gone"
          \/ /\ srv'[p].pc = l /\ l \in Checking
             /\ srv'[p].killed = srv[p].killed /\ srv'[p].seen = s
        BY <1>3 DEF Left, Moved
    <2>3. stopPc = "idle" /\ \A q \in Servers : srv[q].pc \in Starting => q = p
        BY <1>0, <1>3 DEF Calm, OneInv, Starting
    <2>4. \A q \in Servers \ {p} : srv'[q].pc \notin Starting
        BY <2>1, <2>3 DEF Same, Starting, Checking
    <2>5. \A q \in Servers : (Able(q)' => Able(q)) /\ (Living(q)' => Living(q))
        <3>1. CASE srv'[p].pc = "gone"
            BY <2>1, <3>1, SameFacts, SameAble DEF Able, Living, Starting, Checking, Exiting
        <3>2. CASE srv'[p].killed = srv[p].killed
            BY <1>3, <2>1, <3>2, SameFacts, SameAble DEF Able, Living, Starting
        <3>3. QED BY <2>2, <3>1, <3>2
    <2>6. OneInv' /\ StopInv'
        BY <1>3, <2>3, <2>4 DEF OneInv, StopInv
    <2>7. MineInv'
        BY <1>0, <1>3, <2>1, <2>2, <2>5 DEF Calm, MineInv, Same, Acting, Starting, Checking, Exiting
    <2>8. AloneInv'
        BY <1>3, <2>2, <2>4, <2>5 DEF AloneInv, Starting, Checking
    <2>9. LaunchInv'
        BY <1>0, <1>3, <2>5 DEF Calm, LaunchInv
    <2>10. SeenInv'
        <3>1. CASE srv'[p].pc = "probe"
            <4>1. srv'[p].seen = pidFile.text /\ pidFile.text \in Servers \ {p}
                BY <1>3, <2>2, <3>1
            <4>2. QED BY <1>1, <2>3, <2>4, <2>5, <4>1 DEF SeenInv, Starting, Checking
        <3>2. CASE srv'[p].pc # "probe"
            BY <2>4, <3>2 DEF SeenInv, Starting, Checking
        <3>3. QED BY <3>1, <3>2
    <2>11. FreeInv' /\ HeldInv'
        BY <1>3, <2>2, <2>4 DEF FreeInv, HeldInv, Starting, Checking
    <2>12. DoomInv'
        <3>1. \A q \in Servers : Living(q)' => srv'[q].killed = srv[q].killed
            BY <2>1, <2>2, SameFacts DEF Living, Over, Starting, Checking, Exiting
        <3>2. QED BY <1>0, <1>3, <2>5, <3>1 DEF Calm, DoomInv
    <2>13. QED BY <2>6, <2>7, <2>8, <2>9, <2>10, <2>11, <2>12 DEF Calm
\* From here on no other server works.
<1>4. ASSUME NEW p \in Servers, srv[p].pc \in Starting, Able(p), \A q \in Servers : Able(q) => q = p,
             NEW l \in {"port", "openPid", "writePid", "writePort", "regOpen", "regWrite", "bind", "running", "exitReg"},
             NEW f, Moved(p, l, srv[p].seen, f) \/ (Left(p, l) /\ l = "exitReg"),
             UNCHANGED <<left, stopPc, stopTarget, launching>>,
             pidFile'.text \in {pidFile.text, "none", "empty", p},
             l \in {"port", "openPid"} /\ srv[p].mode = "single" => ~Exists',
             l = "writePid" => pidFile'.by = f,
             l \in {"writePort", "regOpen", "regWrite", "bind", "running", "exitReg"} => pidFile'.text = p,
             l \in {"regOpen", "regWrite", "bind", "running", "exitReg"} => portFile' = p
      PROVE  Calm'
    <2>1. stopPc = "idle" /\ \A q \in Servers : srv[q].pc \in Starting => q = p
        BY <1>0, <1>4 DEF Calm, OneInv
    <2>2. /\ srv'[p].pc = l /\ ~srv'[p].killed
          /\ l # "exitReg" => srv'[p].mode = srv[p].mode /\ srv'[p].fd = f
          /\ \A q \in Servers \ {p} : Same(q)
        BY <1>4 DEF Moved, Left, Able
    <2>3. \A q \in Servers \ {p} : srv'[q].pc \notin Starting /\ ~Able(q)' /\ Living(q)' = Living(q)
        BY <1>4, <2>1, <2>2, SameFacts, SameAble DEF Same, Starting, Checking
    <2>4. OneInv' /\ StopInv'
        BY <1>4, <2>1, <2>3 DEF OneInv, StopInv
    <2>5. MineInv'
        BY <1>4, <2>2, <2>3 DEF MineInv, Acting, Exiting
    <2>6. AloneInv' /\ SeenInv'
        BY <1>4, <2>2, <2>3 DEF AloneInv, SeenInv, Starting, Checking
    <2>7. LaunchInv'
        <3>1. Living(p)
            BY <1>4 DEF Able
        <3>2. QED BY <1>0, <1>4, <2>3, <3>1 DEF Calm, LaunchInv
    <2>8. FreeInv' /\ HeldInv'
        BY <1>4, <2>2, <2>3 DEF FreeInv, HeldInv, Starting, Checking
    <2>9. DoomInv'
        <3>1. \A q \in Servers \ {p} : Living(q)' => Living(q) /\ srv'[q].killed = srv[q].killed
            BY <2>2, SameFacts DEF Living, Over, Starting, Checking, Exiting
        <3>2. QED BY <1>0, <1>w, <1>4, <2>2, <3>1 DEF Calm, DoomInv
    <2>10. QED BY <2>4, <2>5, <2>6, <2>7, <2>8, <2>9 DEF Calm
<1>5. ASSUME NEW p \in Servers, srv[p].pc \in Starting \ {"exists", "read", "probe"}
      PROVE  \A q \in Servers : Able(q) => q = p
    BY <1>0, <1>5 DEF Calm, AloneInv
<1>6. ASSUME NEW p \in Servers, Able(p), CheckExists(p) PROVE Calm'
    <2>1. /\ UNCHANGED <<pidFile, portFile, left, stopPc, stopTarget, launching>>
          /\ srv[p].pc \in Starting /\ srv[p].pc \in Checking
        BY <1>6 DEF CheckExists, Starting, Checking
    <2>2. CASE Exists /\ Moved(p, "read", srv[p].seen, srv[p].fd)
        BY <1>3, <2>1, <2>2 DEF Checking
    <2>3. CASE ~Exists /\ Moved(p, "port", srv[p].seen, srv[p].fd)
        <3>1. \A q \in Servers : Able(q) => q = p
            BY <1>0, <1>1, <2>1, <2>3 DEF Calm, OneInv
        <3>2. QED BY <1>4, <1>6, <2>1, <2>3, <3>1 DEF Exists
    <2>4. QED BY <1>6, <2>2, <2>3, GotoMoves DEF CheckExists
<1>7. ASSUME NEW p \in Servers, CheckRead(p) PROVE Calm'
    <2>1. /\ UNCHANGED <<pidFile, portFile, left, stopPc, stopTarget, launching>>
          /\ srv[p].pc \in Starting /\ srv[p].pc \in Checking
        BY <1>7 DEF CheckRead, Starting, Checking
    <2>2. CASE pidFile.text \in Servers /\ Moved(p, "probe", pidFile.text, srv[p].fd)
        <3>1. pidFile.text # p
            BY <2>1 DEF FreshInv, Early
        <3>2. QED BY <1>3, <2>1, <2>2, <3>1 DEF Checking
    <2>3. CASE pidFile.text \notin Servers /\ Moved(p, "unlink", srv[p].seen, srv[p].fd)
        <3>1. \A q \in Servers : Able(q) => q = p
            BY <1>0, <1>1, <2>1, <2>3 DEF Calm, OneInv
        <3>2. QED BY <1>3, <2>1, <2>3, <3>1 DEF Checking
    <2>4. QED BY <1>7, <2>2, <2>3, ReadMoves
<1>8. ASSUME NEW p \in Servers, CheckProbe(p) PROVE Calm'
    <2>1. /\ UNCHANGED <<pidFile, portFile, left, stopPc, stopTarget, launching>>
          /\ srv[p].pc = "probe" /\ srv[p].pc \in Checking
        BY <1>8 DEF CheckProbe, Checking
    <2>2. CASE Left(p, "gone")
        BY <1>3, <2>1, <2>2 DEF Starting
    <2>3. CASE ~Answers(p, srv[p].seen) /\ Moved(p, "unlink", None, srv[p].fd)
        <3>1. \A q \in Servers : Able(q) => q = p
            BY <1>0, <2>1, <2>3 DEF Calm, SeenInv, Answers, Able
        <3>2. QED BY <1>3, <2>1, <2>3, <3>1 DEF Checking, Starting
    <2>4. QED BY <1>8, <2>2, <2>3, ProbeMoves
<1>9. ASSUME NEW p \in Servers, Able(p), CheckUnlink(p) PROVE Calm'
    <2>1. Moved(p, "port", srv[p].seen, srv[p].fd) /\ srv[p].pc = "unlink"
        BY <1>9, GotoMoves DEF CheckUnlink
    <2>2. pidFile'.text = "none" /\ ~Exists' /\ UNCHANGED <<left, stopPc, stopTarget, launching>>
        BY <1>9 DEF CheckUnlink, RemovePid, NoFile, Exists
    <2>3. QED BY <1>4, <1>5, <1>9, <2>1, <2>2 DEF Starting, Checking
<1>10. ASSUME NEW p \in Servers, Able(p), EnsurePort(p) PROVE Calm'
    <2>1. /\ UNCHANGED <<pidFile, portFile, left, stopPc, stopTarget, launching>> /\ Exists' = Exists
          /\ srv[p].pc = "port"
        BY <1>10 DEF EnsurePort, Exists
    <2>2. \A q \in Servers : Able(q) => q = p
        BY <1>5, <2>1 DEF Starting
    <2>3. ~\E q \in Servers : srv[q].pc = "running" /\ pidFile.text = q
        <3> SUFFICES ASSUME NEW q \in Servers, srv[q].pc = "running", pidFile.text = q PROVE FALSE
            OBVIOUS
        <3>1. Living(q) /\ srv[q].killed
            BY <2>1, <2>2 DEF Able, Living
        <3>2. QED BY <1>0, <2>1, <3>1 DEF Calm, DoomInv, OneInv, Starting
    <2>4. srv[p].mode = "single" => ~Exists
        BY <1>0, <2>1 DEF Calm, FreeInv
    <2>5. CASE Moved(p, "openPid", srv[p].seen, srv[p].fd)
        BY <1>4, <1>10, <2>1, <2>2, <2>4, <2>5 DEF Starting
    <2>6. CASE Left(p, "gone")
        BY <1>3, <2>1, <2>6 DEF Starting
    <2>7. QED BY <1>10, <2>3, <2>5, <2>6, PortMoves
<1>11. ASSUME NEW p \in Servers, Reclaim(p) PROVE Calm'
    BY <1>0, <1>11 DEF Reclaim, Calm, FreeInv
<1>12. ASSUME NEW p \in Servers, Able(p), OpenPid(p) PROVE Calm'
    <2>1. srv[p].pc = "openPid" /\ UNCHANGED <<left, stopPc, stopTarget, launching>>
        BY <1>12 DEF OpenPid
    <2>2. Moved(p, "writePid", srv[p].seen, pidFile'.by) /\ pidFile'.text = "empty"
        BY <1>0, <1>12, <2>1, OpenMoves DEF Calm, FreeInv
    <2>3. QED BY <1>4, <1>5, <1>12, <2>1, <2>2 DEF Starting, Checking
<1>13. ASSUME NEW p \in Servers, Able(p), WritePid(p) PROVE Calm'
    <2>1. srv[p].pc = "writePid" /\ UNCHANGED <<left, stopPc, stopTarget, launching>>
        BY <1>13 DEF WritePid
    <2>2. Moved(p, "writePort", srv[p].seen, None) /\ pidFile'.text = p
        BY <1>0, <1>13, <2>1, WriteMoves DEF Calm, HeldInv
    <2>3. QED BY <1>4, <1>5, <1>13, <2>1, <2>2 DEF Starting, Checking
<1>14. ASSUME NEW p \in Servers, Able(p), WritePort(p) \/ RegOpen(p) \/ RegWrite(p) \/ Bind(p) PROVE Calm'
    <2>1. /\ UNCHANGED <<left, stopPc, stopTarget, launching>>
          /\ srv[p].pc \in {"writePort", "regOpen", "regWrite", "bind"}
        BY <1>14 DEF WritePort, RegOpen, RegWrite, Bind
    <2>2. pidFile'.text = p /\ portFile' = p
        BY <1>0, <1>14 DEF WritePort, RegOpen, RegWrite, Bind, Calm, HeldInv
    <2>3. \/ \E l \in {"regOpen", "regWrite", "bind", "running"} : Goto(p, l)
          \/ srv' = [srv EXCEPT ![p] = Outside("exitReg")]
        BY <1>14 DEF WritePort, RegOpen, RegWrite, Bind, Exit
    <2>4. \/ \E l \in {"regOpen", "regWrite", "bind", "running"} : Moved(p, l, srv[p].seen, srv[p].fd)
          \/ Left(p, "exitReg")
        BY <2>3, GotoMoves, OutsideLeaves
    <2>5. QED BY <1>4, <1>5, <1>14, <2>1, <2>2, <2>4 DEF Starting, Checking
\* A server that serves or exits.
<1>15. ASSUME NEW p \in Servers, Able(p), srv[p].pc \in Acting, srv[p].pc # "exitPid",
              UNCHANGED <<pidFile, left, stopPc, stopTarget, launching>>,
              NEW l \in Exiting, Moved(p, l, srv[p].seen, srv[p].fd) \/ Left(p, l),
              portFile' = portFile \/ l = "exitPid"
       PROVE  Calm'
    <2>1. \A q \in Servers : srv[q].pc \in Acting /\ Able(q) => q = p
        BY <1>0, <1>15 DEF Calm, MineInv
    <2>2. \A q \in Servers : srv[q].pc \in Starting => srv[q].pc \in {"exists", "read", "probe"}
        BY <1>0, <1>15 DEF Calm, AloneInv, Acting, Starting, Checking, Exiting
    <2>3. /\ srv'[p].pc = l /\ ~srv'[p].killed
          /\ \A q \in Servers \ {p} : Same(q)
        BY <1>15 DEF Moved, Left, Able
    <2>4. \A q \in Servers : Living(q)' = Living(q) /\ Able(q)' = Able(q)
        BY <1>15, <2>3, SameFacts, SameAble DEF Able, Living
    <2>5. \A q \in Servers : srv'[q].pc \in Starting => q # p /\ srv[q].pc = srv'[q].pc /\ srv'[q].seen = srv[q].seen
        BY <2>3, SameFacts DEF Over, Starting, Checking, Exiting
    <2>6. OneInv' /\ StopInv'
        BY <1>0, <1>15, <2>4, <2>5 DEF Calm, OneInv, StopInv
    <2>7. MineInv'
        <3>1. \A q \in Servers \ {p} : srv'[q].pc \in Acting => srv[q].pc \in Acting
            BY <2>3 DEF Same, Acting, Exiting
        <3>2. QED BY <1>0, <1>15, <2>1, <2>3, <2>4, <3>1 DEF Calm, MineInv
    <2>8. AloneInv' /\ LaunchInv'
        BY <1>0, <1>15, <2>2, <2>4, <2>5 DEF Calm, AloneInv, LaunchInv
    <2>9. SeenInv' /\ FreeInv' /\ HeldInv'
        BY <1>0, <1>15, <2>2, <2>4, <2>5 DEF Calm, SeenInv, FreeInv, HeldInv, Starting, Checking
    <2>10. DoomInv'
        <3>1. \A q \in Servers \ {p} : Living(q)' => srv'[q].killed = srv[q].killed
            BY <2>3, SameFacts DEF Living, Over, Starting, Checking, Exiting
        <3>2. QED BY <1>0, <1>15, <2>3, <2>4, <3>1 DEF Calm, DoomInv
    <2>11. QED BY <2>6, <2>7, <2>8, <2>9, <2>10 DEF Calm
<1>16. ASSUME NEW p \in Servers, Able(p), Shutdown(p) \/ ExitReg(p) \/ ExitPort(p) PROVE Calm'
    <2>1. \/ srv' = [srv EXCEPT ![p] = Outside("exitReg")] /\ portFile' = portFile
          \/ Goto(p, "exitPort") /\ portFile' = portFile
          \/ Goto(p, "exitPid")
        BY <1>16 DEF Shutdown, Exit, ExitReg, ExitPort
    <2>2. PICK l \in Exiting : /\ Moved(p, l, srv[p].seen, srv[p].fd) \/ Left(p, l)
                               /\ portFile' = portFile \/ l = "exitPid"
        BY <2>1, GotoMoves, OutsideLeaves DEF Exiting
    <2>3. /\ srv[p].pc \in Acting /\ srv[p].pc # "exitPid"
          /\ UNCHANGED <<pidFile, left, stopPc, stopTarget, launching>>
        BY <1>16 DEF Shutdown, ExitReg, ExitPort, Acting, Exiting
    <2>4. QED BY <1>15, <1>16, <2>2, <2>3
\* The end of a process: nobody else gains by it.
<1>17. ASSUME NEW p \in Servers, Living(p), Left(p, "zombie"),
              \A q \in Servers : launching'[q] \in {launching[q], None},
              \A q \in Servers \ {p} : left'[q] = left[q],
              pidFile' = pidFile \/ (Able(p) /\ srv[p].pc \in Acting /\ pidFile' = NoFile),
              UNCHANGED <<portFile, stopPc, stopTarget>>
       PROVE  Calm'
    <2>1. /\ srv'[p].pc = "zombie" /\ \A q \in Servers \ {p} : Same(q)
          /\ ~Living(p)' /\ ~Able(p)'
        BY <1>17 DEF Left, Able, Living, Starting, Checking, Exiting
    <2>2. \A q \in Servers : (Able(q)' => Able(q) /\ q # p) /\ (Living(q)' => Living(q) /\ q # p)
        BY <2>1, SameFacts, SameAble
    <2>3. \A q \in Servers : srv'[q].pc \in Starting =>
             /\ q # p /\ srv'[q].pc = srv[q].pc /\ srv'[q].seen = srv[q].seen
             /\ srv'[q].mode = srv[q].mode /\ srv'[q].fd = srv[q].fd
        BY <2>1, SameFacts DEF Over, Starting, Checking, Exiting
    <2>4. OneInv' /\ StopInv'
        BY <1>0, <1>17, <2>2, <2>3 DEF Calm, OneInv, StopInv
    <2>5. MineInv'
        <3>1. \A q \in Servers \ {p} : srv'[q].pc \in Acting => srv[q].pc = srv'[q].pc
            BY <2>1 DEF Same, Acting, Exiting
        <3>2. QED BY <1>0, <1>17, <2>2, <3>1 DEF Calm, MineInv
    <2>6. AloneInv' /\ SeenInv'
        BY <1>0, <1>17, <2>2, <2>3 DEF Calm, AloneInv, SeenInv, Starting, Checking
    <2>7. LaunchInv'
        BY <1>0, <1>17, <2>2 DEF Calm, LaunchInv
    <2>8. \A q \in Servers \ {p} : srv[q].pc \in Starting \ {"exists", "read", "probe"} =>
             pidFile' = pidFile
        BY <1>0, <1>17 DEF Calm, AloneInv
    <2>9. FreeInv' /\ HeldInv'
        BY <1>0, <1>17, <2>3, <2>8 DEF Calm, FreeInv, HeldInv, Starting, Checking, Exists
    <2>10. DoomInv'
        <3>1. \A q \in Servers : Living(q)' => srv'[q].killed = srv[q].killed
            BY <2>1, SameFacts DEF Living, Over, Starting, Checking, Exiting
        <3>2. \A q \in Servers : pidFile'.text = q => pidFile.text = q
            BY <1>17, ServersAssumption DEF NoFile
        <3>3. QED BY <1>0, <1>17, <2>2, <3>1, <3>2 DEF Calm, DoomInv
    <2>11. QED BY <2>4, <2>5, <2>6, <2>7, <2>9, <2>10 DEF Calm
<1>18. ASSUME NEW p \in Servers, Die(p), Living(p) PROVE Calm'
    BY <1>17, <1>18, OutsideLeaves DEF Die, End, TypeOK
<1>19. ASSUME NEW p \in Servers, Able(p), ExitPid(p) PROVE Calm'
    BY <1>17, <1>19, OutsideLeaves DEF ExitPid, End, RemovePid, Able, Acting, Exiting
\* Nobody moves, but stop() or a caller of serve_background() may.
<1>20. ASSUME \A q \in Servers : Same(q), \A q \in Servers : launching'[q] \in {launching[q], None},
              \A q \in Servers : left'[q] \in {left[q], None},
              UNCHANGED <<pidFile, portFile>>, StopInv', DoomInv',
              stopPc' = "idle" \/ \A q \in Servers : srv[q].pc \notin Starting
       PROVE  Calm'
    <2>1. \A q \in Servers : Living(q)' = Living(q) /\ (Able(q)' <=> Able(q))
        BY <1>20, SameFacts, SameAble
    <2>2. \A q \in Servers : srv'[q].pc \in Starting \cup Acting =>
             /\ srv'[q].pc = srv[q].pc /\ srv'[q].seen = srv[q].seen
             /\ srv'[q].mode = srv[q].mode /\ srv'[q].fd = srv[q].fd
        BY <1>20, SameFacts DEF Over, Acting, Starting, Checking, Exiting
    <2>3. OneInv' /\ MineInv'
        BY <1>0, <1>20, <2>1, <2>2 DEF Calm, OneInv, MineInv
    <2>4. AloneInv' /\ SeenInv' /\ LaunchInv'
        BY <1>0, <1>20, <2>1, <2>2 DEF Calm, AloneInv, SeenInv, LaunchInv, Starting, Checking
    <2>5. FreeInv' /\ HeldInv'
        BY <1>0, <1>20, <2>2 DEF Calm, FreeInv, HeldInv, Exists, Starting, Checking
    <2>6. QED BY <1>20, <2>3, <2>4, <2>5 DEF Calm
<1>21. ASSUME \A q \in Servers : Same(q), UNCHANGED pidFile,
              stopPc \in {"confirm", "rmPid"} => stopPc' \in {"confirm", "rmPid"}
       PROVE  DoomInv'
    <2>1. \A q \in Servers : Living(q)' => Living(q) /\ srv'[q].killed = srv[q].killed
        BY <1>21, SameFacts DEF Living, Over, Starting, Checking, Exiting
    <2>2. QED BY <1>0, <1>21, <2>1 DEF Calm, DoomInv
<1>22. ASSUME \A q \in Servers : Same(q), \A q \in Servers : launching'[q] \in {launching[q], None},
              \A q \in Servers : left'[q] \in {left[q], None},
              UNCHANGED <<pidFile, portFile, stopPc, stopTarget>>
       PROVE  Calm'
    <2>1. StopInv'
        BY <1>0, <1>22, SameAble DEF Calm, StopInv
    <2>2. DoomInv'
        BY <1>21, <1>22
    <2>3. stopPc' = "idle" \/ \A q \in Servers : srv[q].pc \notin Starting
        BY <1>0, <1>22 DEF Calm, OneInv
    <2>4. QED BY <1>20, <1>22, <2>1, <2>2, <2>3
<1>23. ASSUME NEW p \in Servers, LaunchStep(p) PROVE Calm'
    <2>1. /\ UNCHANGED <<pidFile, portFile, left, stopPc, stopTarget>>
          /\ \A q \in Servers : launching'[q] \in {launching[q], None}
        BY <1>23 DEF LaunchStep, LaunchAnswered, LaunchExited, LaunchTimesOut, Return, TypeOK
    <2>2. CASE srv' = srv
        BY <1>22, <2>1, <2>2 DEF Same
    <2>3. CASE srv' = Waited(p)
        BY <1>22, <2>1, <2>3, WaitedKeeps
    <2>4. CASE End(p) /\ Living(p)
        BY <1>17, <2>1, <2>4, OutsideLeaves DEF End
    <2>5. QED BY <1>23, <2>2, <2>3, <2>4 DEF LaunchStep, LaunchAnswered, LaunchExited, LaunchTimesOut
<1>24. ASSUME NEW p \in Servers, Reaped(p) \/ WorkersEnd(p) PROVE Calm'
    <2>1. /\ UNCHANGED <<pidFile, portFile, stopPc, stopTarget, launching>>
          /\ \A q \in Servers : left'[q] \in {left[q], None}
        BY <1>24 DEF Reaped, WorkersEnd, TypeOK
    <2>2. CASE srv' = srv
        BY <1>22, <2>1, <2>2 DEF Same
    <2>3. CASE srv' = Waited(p)
        BY <1>22, <2>1, <2>3, WaitedKeeps
    <2>4. QED BY <1>24, <2>2, <2>3 DEF Reaped, WorkersEnd
\* stop().
<1>25. CASE StopBegin
    <2>1. ~Busy
        BY <1>25, Zenon DEF StopBegin
    <2>2. \A q \in Servers : Same(q)
        BY <1>25 DEF StopBegin, Same
    <2>3. StopInv' /\ DoomInv'
        BY <1>21, <1>25, <2>2 DEF StopBegin, StopInv
    <2>4. QED BY <1>20, <1>25, <2>1, <2>2, <2>3 DEF StopBegin, Busy
<1>26. ASSUME stopPc # "idle" PROVE \A q \in Servers : srv[q].pc \notin Starting
    BY <1>0, <1>26 DEF Calm, OneInv
<1>27. CASE StopRead
    <2>1. \A q \in Servers : Same(q)
        BY <1>27 DEF StopRead, Same
    <2>2. StopInv' /\ DoomInv'
        BY <1>1, <1>21, <1>26, <1>27, <2>1 DEF StopRead, StopCleanUp, StopInv, Able, Living
    <2>3. QED BY <1>20, <1>26, <1>27, <2>1, <2>2 DEF StopRead
<1>28. CASE StopProbe \/ StopDenied \/ StopWait \/ StopConfirm
    <2>1. srv' = srv \/ srv' = Waited(stopTarget)
        BY <1>28 DEF StopProbe, StopDenied, StopWait, StopConfirm, StopGone
    <2>2. \A q \in Servers : Same(q)
        BY <2>1, WaitedKeeps DEF Same
    <2>3. /\ UNCHANGED <<pidFile, portFile, left, launching>>
          /\ \/ stopPc' = "wait" /\ stopPc = "probe" /\ stopTarget' = stopTarget
             \/ stopPc' = "rmPid"
        BY <1>28 DEF StopProbe, StopDenied, StopWait, StopConfirm, StopGone, StopCleanUp
    <2>4. stopPc' = "rmPid" => \A q \in Servers : ~Able(q)
        <3>1. CASE StopDenied
            <4>1. ~Living(stopTarget)
                BY <3>1, Zenon DEF StopDenied
            <4>2. QED BY <1>0, <3>1, <4>1 DEF StopDenied, Calm, StopInv, Able
        <3>2. CASE ~StopDenied
            BY <1>0, <1>28, <3>2 DEF StopProbe, StopWait, StopConfirm, StopGone, Calm, StopInv, Able
        <3>3. QED BY <3>1, <3>2
    <2>5. StopInv'
        BY <1>0, <2>2, <2>3, <2>4, SameAble DEF Calm, StopInv
    <2>6. DoomInv'
        BY <1>21, <2>2, <2>3
    <2>7. stopPc # "idle"
        BY <1>28 DEF StopProbe, StopDenied, StopWait, StopConfirm
    <2>8. QED BY <1>20, <1>26, <2>2, <2>3, <2>5, <2>6, <2>7
<1>29. CASE StopKill
    <2>1. stopTarget \in Servers /\ UNCHANGED <<pidFile, portFile, left, launching, stopTarget>>
          /\ stopPc = "wait" /\ stopPc' = "confirm"
        BY <1>29 DEF StopKill, PlaceInv
    <2>2. /\ \A q \in Servers \ {stopTarget} : Same(q)
          /\ \A q \in Servers : srv'[q].pc = srv[q].pc
          /\ srv'[stopTarget].killed = Living(stopTarget)
        BY <1>29, <2>1, KillMoves
    <2>3. \A q \in Servers : srv'[q].pc \notin Starting
        BY <1>26, <2>1, <2>2
    <2>4. \A q \in Servers : Living(q)' = Living(q)
        BY <2>2 DEF Living
    <2>5. \A q \in Servers : ~Able(q)'
        <3> SUFFICES ASSUME NEW q \in Servers PROVE ~Able(q)'
            OBVIOUS
        <3>1. CASE q # stopTarget
            BY <1>0, <2>1, <2>2, <3>1, SameAble DEF Calm, StopInv
        <3>2. CASE q = stopTarget
            BY <2>2, <2>4, <3>2 DEF Able
        <3>3. QED BY <3>1, <3>2
    <2>6. OneInv' /\ MineInv' /\ AloneInv' /\ SeenInv' /\ FreeInv' /\ HeldInv'
        BY <2>3, <2>5 DEF OneInv, MineInv, AloneInv, SeenInv, FreeInv, HeldInv, Starting, Checking
    <2>7. LaunchInv' /\ StopInv' /\ DoomInv'
        BY <1>0, <2>1, <2>4, <2>5 DEF Calm, LaunchInv, StopInv, DoomInv
    <2>8. QED BY <2>6, <2>7 DEF Calm
<1>30. CASE StopRmPid \/ StopRmPort
    <2>1. \A q \in Servers : ~Able(q) /\ srv[q].pc \notin Starting
        BY <1>0, <1>26, <1>30 DEF StopRmPid, StopRmPort, Calm, StopInv
    <2>2. srv' = srv /\ launching' = launching /\ left' = left /\ stopPc' \in {"rmPort", "idle"}
        BY <1>30 DEF StopRmPid, StopRmPort
    <2>3. \A q \in Servers : ~Able(q)'
        BY <2>1, <2>2 DEF Able, Living
    <2>4. OneInv' /\ MineInv' /\ AloneInv' /\ SeenInv' /\ FreeInv' /\ HeldInv' /\ StopInv'
        BY <2>1, <2>2, <2>3 DEF OneInv, MineInv, AloneInv, SeenInv, FreeInv, HeldInv, StopInv, Starting, Checking
    <2>5. LaunchInv'
        BY <1>0, <2>2 DEF Calm, LaunchInv, Living
    <2>6. DoomInv'
        <3>1. CASE StopRmPid
            BY <1>w, <3>1 DEF StopRmPid, RemovePid, NoFile, DoomInv
        <3>2. CASE StopRmPort
            BY <1>0, <3>2 DEF StopRmPort, Calm, DoomInv, Living
        <3>3. QED BY <1>30, <3>1, <3>2
    <2>7. QED BY <2>4, <2>5, <2>6 DEF Calm
<1>31. CASE ListPrune \/ \E q \in Servers : ListRead(q) \/ ListDead(q)
    <2>1. srv' = srv \/ \E q \in Servers : srv' = Waited(q)
        BY <1>31 DEF ListPrune, ListRead, ListDead
    <2>2. \A q \in Servers : Same(q)
        BY <2>1, WaitedKeeps DEF Same
    <2>3. UNCHANGED <<pidFile, portFile, left, stopPc, stopTarget, launching>>
        BY <1>31 DEF ListPrune, ListRead, ListDead
    <2>4. QED BY <1>22, <2>2, <2>3
<1>32. CASE UNCHANGED vars
    BY <1>22, <1>32 DEF vars, Same
<1>33. QED
    <2>1. ASSUME NEW p \in Servers, Serve(p) PROVE Calm'
        BY <1>2, <2>1 DEF Serve
    <2>2. ASSUME NEW p \in Servers, ServeBackground(p) PROVE Calm'
        <3>1. PICK n \in Ports : Begin(p, "background", n) /\ launching' = [launching EXCEPT ![p] = n]
            BY <2>2 DEF ServeBackground
        <3>2. \A q \in Servers : launching'[q] = launching[q] \/ q = p
            BY <3>1 DEF TypeOK
        <3>3. "background" \in Modes
            BY <2>2 DEF ServeBackground
        <3>4. QED BY <1>2, <3>1, <3>2, <3>3
    <2>3. ASSUME NEW p \in Servers, StartStep(p) PROVE Calm'
        BY <1>6, <1>7, <1>8, <1>9, <1>10, <1>11, <1>12, <1>13, <1>14, <2>3 DEF StartStep
    <2>4. ASSUME NEW p \in Servers, ExitStep(p) \/ Shutdown(p) PROVE Calm'
        BY <1>16, <1>19, <2>4 DEF ExitStep, Shutdown
    <2>5. ASSUME NEW p \in Servers, Crash(p) \/ KillLands(p) PROVE Calm'
        BY <1>18, <2>5 DEF Crash, KillLands, Able
    <2>6. QED BY <1>23, <1>24, <1>25, <1>27, <1>28, <1>29, <1>30, <1>31, <1>32,
            <2>1, <2>2, <2>3, <2>4, <2>5 DEF Next, StopStep


-----------------------------------------------------------------------------
(* The theorems.                                                           *)

\* The invariant holds of every state that servers, callers of serve_background(),
\* stop() and list_instances() reach, in whatever order they take their steps.
THEOREM Invariance == Spec => []IInv
<1>1. Init => IInv
    <2> SUFFICES ASSUME Init PROVE IInv
        OBVIOUS
    <2>1. TypeOK
        <3>1. Outside("new") \in Records
            BY DEF Records, Outside
        <3>2. QED BY <3>1 DEF Init, TypeOK, NoFile, Exists
    <2>2. \A p \in Servers : srv[p].pc = "new" /\ srv[p].seen = None /\ ~srv[p].killed
        BY DEF Init, Outside
    <2>3. /\ pidFile.text = "none" /\ stopPc = "idle"
          /\ \A p \in Servers : launching[p] = None /\ left[p] = None
        BY DEF Init, NoFile
    <2>4. FreshInv
        BY <2>2, <2>3, ServersAssumption DEF FreshInv
    <2>5. PlaceInv
        BY <2>2, <2>3 DEF PlaceInv, Starting, Checking
    <2>6. \A p \in Servers : ~Able(p) /\ ~Living(p)
        BY <2>2 DEF Able, Living, Starting, Checking, Exiting
    <2>7. CalmInv
        BY <2>2, <2>3, <2>6 DEF CalmInv, Calm, OneInv, MineInv, AloneInv, LaunchInv, SeenInv, FreeInv,
            HeldInv, DoomInv, StopInv, Starting, Checking
    <2>8. QED BY <2>1, <2>4, <2>5, <2>7 DEF IInv
<1>2. IInv /\ [Next]_vars => IInv'
    BY TypeKeep, FreshKeep, PlaceKeep, CalmKeep DEF IInv
<1>3. QED BY <1>1, <1>2, PTL DEF Spec

\* The variables keep their types, the PID file in particular: a text only where a
\* file is.
THEOREM TypeCorrect == Spec => []TypeOK
BY Invariance, PTL DEF IInv

\* While calls do not overlap, a running server can be found in the files and, unless
\* a reader met its descriptor half written, in the registry, whatever crashed before.
THEOREM Discoverable == Spec => []RunningIsDiscoverable
<1>1. IInv => RunningIsDiscoverable
    BY DEF IInv, CalmInv, Calm, MineInv, PlaceInv, Acting, Running, RunningIsDiscoverable
<1>2. QED BY Invariance, <1>1, PTL

\* While calls do not overlap, a URL comes from the child that was launched or from
\* the workers that it left.
THEOREM Launched == Spec => LaunchedIsRunning
<1> DEFINE D == \A p \in Servers :
          LaunchAnswered(p) /\ ~contended => Holds(p, launching[p])
<1>1. IInv => D
    <2> SUFFICES ASSUME IInv, ~contended, NEW p \in Servers, LaunchAnswered(p)
                 PROVE  Holds(p, launching[p])
        OBVIOUS
    <2>1. LaunchInv
        BY DEF IInv, CalmInv, Calm
    <2>2. PICK q \in Servers : Holds(q, launching[p])
        BY DEF LaunchAnswered, PortFree
    <2>3. launching[p] # None
        BY DEF LaunchAnswered, Asking
    <2>4. q = p
        BY <2>1, <2>2, <2>3 DEF LaunchInv, Holds, Living
    <2>5. QED BY <2>2, <2>4
<1>2. QED BY Invariance, <1>1, PTL DEF LaunchedIsRunning, D

\* Without interference a start is refused only by a server that lives, by one that
\* its parent has not waited for, or by workers that hold the port.
THEOREM ProcessesRefuse == Spec => OnlyProcessesRefuse
<1> DEFINE D == \A p \in Servers :
          srv[p].pc \in Starting /\ srv'[p].pc = "gone" /\ ~contended
            => \E q \in Servers \ {p} : Answers(p, q) \/ left[q] = srv[p].port
<1>1. IInv /\ [Next]_vars => D
    <2> SUFFICES ASSUME IInv, [Next]_vars, ~contended, NEW p \in Servers,
                        srv[p].pc \in Starting, srv'[p].pc = "gone"
                 PROVE  \E q \in Servers \ {p} : Answers(p, q) \/ left[q] = srv[p].port
        OBVIOUS
    <2>0. TypeOK /\ SeenInv /\ FreeInv /\ PlaceInv
        BY DEF IInv, CalmInv, Calm
    <2>a. ~Same(p)
        BY DEF Same, Starting, Checking
    <2> USE DEF files, stopVars
    <2>1. ASSUME NEW q \in Servers, CheckProbe(q)
          PROVE  \E r \in Servers \ {p} : Answers(p, r)
        <3>1. q = p
            BY <2>0, <2>a, <2>1, ProbeMoves DEF Left, Moved
        <3>2. Answers(p, srv[p].seen)
            BY <2>0, <2>1, <3>1, ProbeMoves DEF Moved
        <3>3. srv[p].seen \in Servers \ {p}
            BY <2>0, <2>1, <3>1 DEF CheckProbe, SeenInv
        <3>4. QED BY <3>2, <3>3
    <2>2. ASSUME NEW q \in Servers, EnsurePort(q) \/ Reclaim(q)
          PROVE  \E r \in Servers \ {p} : Answers(p, r) \/ left[r] = srv[p].port
        <3>1. q = p
            BY <2>0, <2>a, <2>2, PortMoves DEF Left, Moved
        <3>2. PICK r \in Servers : Holds(r, srv[p].port)
            BY <2>0, <2>2, <3>1, PortMoves DEF Moved, PortFree
        <3>3. r # p
            <4>1. srv[p].pc \in {"port", "reclaim"}
                BY <2>2, <3>1 DEF EnsurePort, Reclaim
            <4>2. srv[p].port # None
                BY <2>0 DEF PlaceInv
            <4>3. QED BY <2>0, <3>2, <4>1, <4>2 DEF Holds, PlaceInv, Over
        <3>4. QED BY <3>2, <3>3 DEF Holds, Answers, Living
    <2>3. ASSUME NEW q \in Servers, OpenPid(q) PROVE FALSE
        <3>1. q = p
            BY <2>0, <2>a, <2>3, OpenMoves DEF Left, Moved
        <3>2. QED BY <2>0, <2>3, <3>1, OpenMoves DEF OpenPid, FreeInv, Moved
    <2>4. ASSUME NEW q \in Servers, NEW l, Goto(q, l), l # "gone" PROVE FALSE
        BY <2>0, <2>a, <2>4, GotoMoves DEF Moved
    <2>5. ASSUME NEW q \in Servers, NEW l, srv' = [srv EXCEPT ![q] = Outside(l)], l # "gone"
          PROVE  FALSE
        BY <2>0, <2>a, <2>5, OutsideLeaves DEF Left
    <2>6. ASSUME NEW q, srv' = Waited(q) PROVE FALSE
        BY <2>0, <2>a, <2>6, WaitedKeeps
    <2>7. ASSUME srv' = srv PROVE FALSE
        BY <2>7 DEF Starting, Checking
    <2>8. ASSUME NEW q \in Servers, CheckRead(q) \/ WritePid(q) PROVE FALSE
        BY <2>0, <2>a, <2>8, ReadMoves, WriteMoves DEF Moved
    <2>9. ASSUME NEW q \in Servers, Serve(q) \/ ServeBackground(q) PROVE FALSE
        <3>1. PICK m \in Modes, n \in Ports : Begin(q, m, n)
            BY <2>9 DEF Serve, ServeBackground
        <3>2. EntryOf(m) # "gone"
            BY ModesAssumption DEF EntryOf
        <3>3. QED BY <2>0, <2>a, <3>1, <3>2, BeginMoves
    <2>10. ASSUME NEW q \in Servers, CheckExists(q) \/ CheckUnlink(q) \/ WritePort(q) \/ RegOpen(q)
                  \/ RegWrite(q) \/ ExitReg(q) \/ ExitPort(q)
           PROVE  FALSE
        BY <2>4, <2>10 DEF CheckExists, CheckUnlink, WritePort, RegOpen, RegWrite, ExitReg, ExitPort
    <2>11. ASSUME NEW q \in Servers, Bind(q) \/ Shutdown(q) \/ Crash(q) \/ KillLands(q) \/ ExitPid(q)
           PROVE  FALSE
        BY <2>4, <2>5, <2>11 DEF Bind, Shutdown, Crash, KillLands, Die, ExitPid, Exit, End
    <2>12. ASSUME NEW q \in Servers, LaunchStep(q) \/ Reaped(q) \/ WorkersEnd(q) \/ ListRead(q) \/ ListDead(q)
           PROVE  FALSE
        BY <2>5, <2>6, <2>7, <2>12 DEF LaunchStep, LaunchAnswered, LaunchExited, LaunchTimesOut, End, Reaped,
            WorkersEnd, ListRead, ListDead
    <2>13. ASSUME StopKill PROVE FALSE
        <3>1. stopTarget \in Servers
            BY <2>0, <2>13 DEF StopKill, PlaceInv
        <3>2. srv'[p].pc = srv[p].pc
            BY <2>0, <2>13, <3>1, KillMoves
        <3>3. QED BY <3>2 DEF Starting, Checking
    <2>14. ASSUME StopBegin \/ StopRead \/ StopProbe \/ StopDenied \/ StopWait \/ StopConfirm \/ StopRmPid
                  \/ StopRmPort \/ ListPrune \/ UNCHANGED vars
           PROVE  FALSE
        BY <2>6, <2>7, <2>14 DEF StopBegin, StopRead, StopProbe, StopDenied, StopWait, StopConfirm, StopGone,
            StopRmPid, StopRmPort, ListPrune, vars
    <2>15. ASSUME NEW q \in Servers, StartStep(q)
           PROVE  \E r \in Servers \ {p} : Answers(p, r) \/ left[r] = srv[p].port
        BY <2>1, <2>2, <2>3, <2>8, <2>10, <2>11, <2>15 DEF StartStep
    <2>16. QED BY <2>9, <2>10, <2>11, <2>12, <2>13, <2>14, <2>15 DEF Next, ExitStep, StopStep
<1>2. QED BY Invariance, <1>1, PTL DEF Spec, OnlyProcessesRefuse
=============================================================================
