----------------------------- MODULE Parts_proofs -----------------------------
(***************************************************************************)
(* The two stores for any threads, processes, names and flags; the markers *)
(* for any processes and readers; dev(); and the rate limit for every set  *)
(* of clients, every rate and every window.                                *)
(***************************************************************************)
EXTENDS Stores, Markers, Dev, RateLimit, TLAPS

-----------------------------------------------------------------------------
(* The user store.                                                         *)

\* One thread of a process works at a time, and unless another process has saved
\* in between it works on what the file holds.
UsersInv ==
    /\ users \in Lists
    /\ work \in [Threads -> Work \cup {Idle}]
    /\ \A s, t \in Threads : work[s] # Idle /\ work[t] # Idle /\ ProcessOf[s] = ProcessOf[t]
          => s = t
    /\ \A t \in Threads : work[t] # Idle /\ ~Overtaken(t) =>
          /\ work[t].base = users
          /\ (work[t].op = "delete") = (work[t].name \in DOMAIN users)

LEMMA ListDomain == ASSUME NEW u \in Lists PROVE DOMAIN u \subseteq Names /\ u \in [DOMAIN u -> Threads]
BY DEF Lists

LEMMA UpdatedType ==
    ASSUME NEW t \in Threads, work[t] \in Work
    PROVE  Updated(t) \in Lists
<1> DEFINE w == work[t]
<1>1. w.base \in Lists /\ w.name \in Names
    BY DEF Work
<1>2. DOMAIN w.base \subseteq Names /\ w.base \in [DOMAIN w.base -> Threads]
    BY <1>1, ListDomain
<1>3. CASE w.op = "create"
    <2> DEFINE D == DOMAIN w.base \cup {w.name}
    <2>1. Updated(t) \in [D -> Threads]
        BY <1>2, <1>3 DEF Updated
    <2>2. D \in SUBSET Names
        BY <1>1, <1>2
    <2>3. QED BY <2>1, <2>2 DEF Lists
<1>4. CASE w.op # "create"
    <2> DEFINE D == DOMAIN w.base \ {w.name}
    <2>1. Updated(t) \in [D -> Threads]
        BY <1>2, <1>4 DEF Updated
    <2>2. D \in SUBSET Names
        BY <1>2
    <2>3. QED BY <2>1, <2>2 DEF Lists
<1>5. QED BY <1>3, <1>4

LEMMA UsersInitially == UsersInit => UsersInv
<1> SUFFICES ASSUME UsersInit PROVE UsersInv
    OBVIOUS
<1>1. users \in [{} -> Threads]
    BY DEF UsersInit
<1>2. users \in Lists
    BY <1>1 DEF Lists
<1>3. \A t \in Threads : work[t] = Idle
    BY DEF UsersInit
<1>4. QED BY <1>2, <1>3 DEF UsersInit, UsersInv

LEMMA UsersKeep == ASSUME UsersInv, [UsersNext]_userVars PROVE UsersInv'
<1>1. ASSUME NEW t \in Threads, Load(t) PROVE UsersInv'
    <2>1. PICK op \in {"create", "delete"}, n \in Names :
             /\ (op = "delete") = (n \in DOMAIN users)
             /\ work' = [work EXCEPT ![t] = [op |-> op, name |-> n,
                                             base |-> users, raced |-> {}]]
        BY <1>1 DEF Load
    <2> DEFINE w == [op |-> op, name |-> n, base |-> users, raced |-> {}]
    <2>2. w \in Work /\ w # Idle
        BY IdleAssumption DEF UsersInv, Work
    <2>3. /\ work' \in [Threads -> Work \cup {Idle}]
          /\ work'[t] = w /\ users' = users
          /\ \A s \in Threads : s # t => work'[s] = work[s]
        BY <1>1, <2>1, <2>2 DEF UsersInv, Load
    <2>4. \A s \in Threads : s # t /\ ProcessOf[s] = ProcessOf[t] => work'[s] = Idle
        BY <1>1, <2>3 DEF Load, UserLockFree
    <2>5. /\ w.base = users /\ w.op = op /\ w.name = n
        OBVIOUS
    <2>6. \A s, u \in Threads :
             work'[s] # Idle /\ work'[u] # Idle /\ ProcessOf[s] = ProcessOf[u] => s = u
        BY <2>3, <2>4 DEF UsersInv
    <2>7. \A s \in Threads : work'[s] # Idle /\ ~Overtaken(s)' =>
             /\ work'[s].base = users'
             /\ (work'[s].op = "delete") = (work'[s].name \in DOMAIN users')
        <3> SUFFICES ASSUME NEW s \in Threads, work'[s] # Idle, ~Overtaken(s)'
                     PROVE  /\ work'[s].base = users'
                            /\ (work'[s].op = "delete") = (work'[s].name \in DOMAIN users')
            OBVIOUS
        <3>1. CASE s = t
            BY <2>1, <2>3, <2>5, <3>1
        <3>2. CASE s # t
            BY <2>3, <3>2 DEF UsersInv, Overtaken
        <3>3. QED BY <3>1, <3>2
    <2>8. QED BY <2>3, <2>6, <2>7 DEF UsersInv
<1>2. ASSUME NEW t \in Threads, Save(t) PROVE UsersInv'
    <2>1. work[t] \in Work
        BY <1>2 DEF Save, UsersInv
    <2>2. users' \in Lists
        BY <1>2, <2>1, UpdatedType DEF Save
    <2>3. \A s \in Threads : work[s] # Idle =>
             [work[s] EXCEPT !.raced = @ \cup {ProcessOf[t]}] \in Work
        BY DEF UsersInv, Work, Processes
    <2>4. /\ work' \in [Threads -> Work \cup {Idle}]
          /\ work'[t] = Idle
          /\ \A s \in Threads : work[s] = Idle => work'[s] = Idle
          /\ \A s \in Threads : s # t /\ work[s] # Idle =>
                work'[s] = [work[s] EXCEPT !.raced = @ \cup {ProcessOf[t]}]
        BY <1>2, <2>3 DEF Save
    <2>5. \A s \in Threads : work'[s] # Idle => Overtaken(s)'
        <3> SUFFICES ASSUME NEW s \in Threads, work'[s] # Idle PROVE Overtaken(s)'
            OBVIOUS
        <3>1. s # t /\ work[s] # Idle
            BY <2>4
        <3>2. ProcessOf[t] # ProcessOf[s]
            BY <1>2, <3>1 DEF Save, UsersInv
        <3>3. work[s] \in Work
            BY <3>1 DEF UsersInv
        <3>4. ProcessOf[t] \in work'[s].raced
            BY <2>4, <3>1, <3>3 DEF Work
        <3>5. QED BY <3>2, <3>4 DEF Overtaken
    <2>6. \A s, u \in Threads :
             work'[s] # Idle /\ work'[u] # Idle /\ ProcessOf[s] = ProcessOf[u] => s = u
        BY <2>4 DEF UsersInv
    <2>7. QED BY <2>2, <2>4, <2>5, <2>6 DEF UsersInv
<1>3. ASSUME users' = users, work' \in [Threads -> Work \cup {Idle}],
             \A t \in Threads : work'[t] \in {work[t], Idle}
      PROVE  UsersInv'
    <2>1. \A t \in Threads : work'[t] # Idle => work'[t] = work[t]
        BY <1>3
    <2>2. \A s \in Threads : work'[s] # Idle /\ ~Overtaken(s)' => ~Overtaken(s)
        BY <2>1 DEF Overtaken
    <2>3. QED BY <1>3, <2>1, <2>2 DEF UsersInv
<1>4. ASSUME NEW t \in Threads, SaveFails(t) PROVE UsersInv'
    BY <1>3, <1>4 DEF SaveFails, UsersInv
<1>5. ASSUME NEW p \in Processes, UsersCrash(p) PROVE UsersInv'
    BY <1>3, <1>5 DEF UsersCrash, UsersInv
<1>6. CASE UNCHANGED userVars
    BY <1>6 DEF userVars, UsersInv, Overtaken
<1>7. QED BY <1>1, <1>2, <1>4, <1>5, <1>6 DEF UsersNext

\* Saving what a thread of one process worked out from the list that the file still
\* holds changes one user.
LEMMA SaveChangesOne ==
    ASSUME UsersInv, NEW t \in Threads, Save(t), ~Overtaken(t)
    PROVE  OneUserChanges
<1> DEFINE n == work[t].name
<1>1. /\ work[t] \in Work /\ work[t].base = users
      /\ (work[t].op = "delete") = (n \in DOMAIN users) /\ users' = Updated(t)
    BY DEF UsersInv, Save
<1>2. n \in Names /\ work[t].op \in {"create", "delete"}
    BY <1>1 DEF Work
<1>3. CASE work[t].op = "create"
    <2>1. users' = [m \in DOMAIN users \cup {n} |-> IF m = n THEN t ELSE users[m]]
        BY <1>1, <1>3 DEF Updated
    <2>2. n \notin DOMAIN users
        BY <1>1, <1>3
    <2>3. QED BY <1>2, <2>1, <2>2 DEF OneUserChanges
<1>4. CASE work[t].op = "delete"
    <2>1. users' = [m \in DOMAIN users \ {n} |-> users[m]]
        BY <1>1, <1>4 DEF Updated
    <2>2. n \in DOMAIN users
        BY <1>1, <1>4
    <2>3. QED BY <1>2, <2>1, <2>2 DEF OneUserChanges
<1>5. QED BY <1>2, <1>3, <1>4

\* create() and delete() of JSONFileUserStore: no update is lost by the threads of
\* one process, however many there are.
THEOREM UsersAreKept == UsersSpec => UpdatesAreKept
<1> DEFINE Step == OneUserChanges \/ \E t \in Threads : Overtaken(t) /\ Save(t)
<1>1. UsersInv /\ [UsersNext]_userVars => [Step]_users
    <2> SUFFICES ASSUME UsersInv, UsersNext, users' # users PROVE Step
        BY DEF userVars
    <2>1. PICK t \in Threads : Save(t)
        BY DEF UsersNext, Load, SaveFails, UsersCrash
    <2>2. QED BY <2>1, SaveChangesOne
<1>2. UsersInv /\ [UsersNext]_userVars => UsersInv'
    BY UsersKeep
<1>3. QED BY UsersInitially, <1>1, <1>2, PTL DEF UsersSpec, UpdatesAreKept

-----------------------------------------------------------------------------
(* The feature flags.                                                      *)

\* One thread of a process writes at a time, what it writes is what the process has
\* in memory, and the file holds what the last returned call has put there.
FlagsInv ==
    /\ disk \in Texts \cup {Torn}
    /\ overrides \in [Processes -> Texts]
    /\ setting \in [Threads -> Setting \cup {Idle}]
    /\ kept # Idle => kept \in Processes
    /\ \A s, t \in Threads : setting[s] # Idle /\ setting[t] # Idle /\ ProcessOf[s] = ProcessOf[t]
          => s = t
    /\ \A t \in Threads : setting[t] # Idle => overrides[ProcessOf[t]] = setting[t].text
    /\ OverridesSurvive

LEMMA NoneIsText == None \in Texts
<1>1. None \in [{} -> BOOLEAN]
    BY DEF None
<1>2. QED BY <1>1 DEF Texts

LEMMA OverrideType ==
    ASSUME FlagsInv, NEW p \in Processes, NEW f \in Flags, NEW v \in BOOLEAN
    PROVE  Override(p, f, v) \in Texts
<1>1. overrides[p] \in Texts
    BY DEF FlagsInv
<1>2. DOMAIN overrides[p] \subseteq Flags /\ overrides[p] \in [DOMAIN overrides[p] -> BOOLEAN]
    BY <1>1 DEF Texts
<1> DEFINE D == DOMAIN overrides[p] \cup {f}
<1>3. Override(p, f, v) \in [D -> BOOLEAN]
    BY <1>2 DEF Override
<1>4. D \in SUBSET Flags
    BY <1>2
<1>5. QED BY <1>3, <1>4 DEF Texts

LEMMA FlagsInitially == FlagsInit => FlagsInv
BY NoneIsText DEF FlagsInit, FlagsInv, OverridesSurvive

LEMMA FlagsKeep == ASSUME FlagsInv, [FlagsNext]_flagVars PROVE FlagsInv'
<1>0. \A t \in Threads : ProcessOf[t] \in Processes
    BY DEF Processes
<1>1. ASSUME NEW t \in Threads, SetOverride(t) PROVE FlagsInv'
    <2>1. PICK f \in Flags, v \in BOOLEAN :
             /\ overrides' = [overrides EXCEPT ![ProcessOf[t]] = Override(ProcessOf[t], f, v)]
             /\ setting' = [setting EXCEPT ![t] = [text |-> Override(ProcessOf[t], f, v),
                                                   mixed |-> FALSE]]
        BY <1>1 DEF SetOverride
    <2> DEFINE text == Override(ProcessOf[t], f, v)
               rec  == [text |-> text, mixed |-> FALSE]
    <2>2. text \in Texts
        BY <1>0, OverrideType
    <2> HIDE DEF text
    <2>3. rec \in Setting /\ rec # Idle /\ rec.text = text
        <3>1. rec \in Setting /\ rec.text = text
            BY <2>2 DEF Setting
        <3>2. QED BY <3>1, IdleAssumption
    <2>4. /\ overrides' \in [Processes -> Texts]
          /\ overrides'[ProcessOf[t]] = text
          /\ \A p \in Processes : p # ProcessOf[t] => overrides'[p] = overrides[p]
        BY <1>0, <2>1, <2>2 DEF FlagsInv, text
    <2>5. /\ setting' \in [Threads -> Setting \cup {Idle}]
          /\ setting'[t] = rec
          /\ \A s \in Threads : s # t => setting'[s] = setting[s]
        BY <2>1, <2>3 DEF FlagsInv, text
    <2>6. \A s \in Threads : s # t /\ ProcessOf[s] = ProcessOf[t] => setting'[s] = Idle
        BY <1>1, <2>5 DEF SetOverride, FlagLockFree
    <2>7. disk' = Torn /\ kept' = Idle
        BY <1>1 DEF SetOverride
    <2>8. \A s, u \in Threads : setting'[s] # Idle /\ setting'[u] # Idle
                /\ ProcessOf[s] = ProcessOf[u] => s = u
        BY <2>5, <2>6 DEF FlagsInv
    <2>9. \A s \in Threads : setting'[s] # Idle => overrides'[ProcessOf[s]] = setting'[s].text
        BY <1>0, <2>3, <2>4, <2>5, <2>6 DEF FlagsInv
    <2>10. QED BY <2>4, <2>5, <2>7, <2>8, <2>9 DEF FlagsInv, OverridesSurvive
<1>2. ASSUME NEW t \in Threads, OpenFails(t) PROVE FlagsInv'
    <2>1. PICK f \in Flags, v \in BOOLEAN :
             overrides' = [overrides EXCEPT ![ProcessOf[t]] = Override(ProcessOf[t], f, v)]
        BY <1>2 DEF OpenFails
    <2>2. Override(ProcessOf[t], f, v) \in Texts
        BY <1>0, OverrideType
    <2>3. /\ overrides' \in [Processes -> Texts]
          /\ \A p \in Processes : p # ProcessOf[t] => overrides'[p] = overrides[p]
        BY <1>0, <2>1, <2>2 DEF FlagsInv
    <2>4. \A s \in Threads : ProcessOf[s] = ProcessOf[t] => setting[s] = Idle
        BY <1>2 DEF OpenFails, FlagLockFree
    <2>5. kept' = Idle /\ disk' = disk /\ setting' = setting
        BY <1>2 DEF OpenFails
    <2>6. QED BY <1>0, <2>3, <2>4, <2>5 DEF FlagsInv, OverridesSurvive
<1>3. ASSUME NEW t \in Threads, Write(t) PROVE FlagsInv'
    <2>1. /\ setting[t] \in Setting /\ setting[t] # Idle /\ overrides' = overrides
          /\ overrides[ProcessOf[t]] = setting[t].text
        BY <1>3 DEF Write, FlagsInv
    <2>2. setting[t].text \in Texts /\ setting[t].text # Torn
        BY <2>1, TornAssumption DEF Setting
    <2>3. \A s \in Threads : setting[s] # Idle =>
             /\ [setting[s] EXCEPT !.mixed = TRUE] \in Setting
             /\ [setting[s] EXCEPT !.mixed = TRUE].text = setting[s].text
        BY DEF FlagsInv, Setting
    <2>4. /\ setting' \in [Threads -> Setting \cup {Idle}]
          /\ \A s \in Threads : setting'[s] # Idle =>
                setting[s] # Idle /\ setting'[s].text = setting[s].text
        BY <1>3, <2>3 DEF Write
    <2>5. \/ disk' = setting[t].text /\ kept' = ProcessOf[t]
          \/ disk' = Torn /\ kept' = Idle
        BY <1>3 DEF Write
    <2>6. /\ disk' \in Texts \cup {Torn}
          /\ kept' # Idle => kept' \in Processes /\ disk' # Torn /\ overrides'[kept'] = disk'
        BY <1>0, <2>1, <2>2, <2>5
    <2>7. /\ \A s, u \in Threads : setting'[s] # Idle /\ setting'[u] # Idle
                /\ ProcessOf[s] = ProcessOf[u] => s = u
          /\ \A s \in Threads : setting'[s] # Idle =>
                overrides'[ProcessOf[s]] = setting'[s].text
        BY <2>1, <2>4 DEF FlagsInv
    <2>8. QED BY <2>1, <2>4, <2>6, <2>7 DEF FlagsInv, OverridesSurvive
<1>4. ASSUME NEW t \in Threads, WriteFails(t) PROVE FlagsInv'
    <2>1. overrides' = overrides /\ setting' = [setting EXCEPT ![t] = Idle]
        BY <1>4 DEF WriteFails
    <2>2. /\ setting' \in [Threads -> Setting \cup {Idle}]
          /\ \A s \in Threads : setting'[s] # Idle => setting'[s] = setting[s]
        BY <2>1 DEF FlagsInv
    <2>3. \/ disk' = disk /\ kept' = kept
          \/ disk' = Torn /\ kept' = Idle
        BY <1>4 DEF WriteFails
    <2>4. QED BY <2>1, <2>2, <2>3 DEF FlagsInv, OverridesSurvive
<1>5. Loaded \in Texts /\ (disk # Torn => Loaded = disk)
    BY NoneIsText DEF FlagsInv, Loaded
<1>6. ASSUME NEW t \in Threads, Reload(t) PROVE FlagsInv'
    <2>1. /\ overrides' = [overrides EXCEPT ![ProcessOf[t]] = Loaded]
          /\ disk' = disk /\ setting' = setting /\ kept' = kept
        BY <1>6 DEF Reload
    <2>2. /\ overrides' \in [Processes -> Texts] /\ overrides'[ProcessOf[t]] = Loaded
          /\ \A p \in Processes : p # ProcessOf[t] => overrides'[p] = overrides[p]
        BY <1>0, <1>5, <2>1 DEF FlagsInv
    <2>3. \A s \in Threads : ProcessOf[s] = ProcessOf[t] => setting[s] = Idle
        BY <1>6 DEF Reload, FlagLockFree
    <2>4. OverridesSurvive'
        BY <1>0, <1>5, <2>1, <2>2 DEF FlagsInv, OverridesSurvive
    <2>5. QED BY <1>0, <2>1, <2>2, <2>3, <2>4 DEF FlagsInv
<1>7. ASSUME NEW p \in Processes, FlagsCrash(p) PROVE FlagsInv'
    <2>1. /\ overrides' = [overrides EXCEPT ![p] = Loaded]
          /\ disk' = disk /\ kept' = kept
        BY <1>7 DEF FlagsCrash
    <2>2. /\ overrides' \in [Processes -> Texts] /\ overrides'[p] = Loaded
          /\ \A q \in Processes : q # p => overrides'[q] = overrides[q]
        BY <1>5, <2>1 DEF FlagsInv
    <2>3. /\ setting' \in [Threads -> Setting \cup {Idle}]
          /\ \A s \in Threads : setting'[s] # Idle =>
                setting'[s] = setting[s] /\ ProcessOf[s] # p
        BY <1>7 DEF FlagsCrash, FlagsInv
    <2>4. OverridesSurvive'
        BY <1>5, <2>1, <2>2 DEF FlagsInv, OverridesSurvive
    <2>5. QED BY <1>0, <2>1, <2>2, <2>3, <2>4 DEF FlagsInv
<1>8. CASE UNCHANGED flagVars
    BY <1>8 DEF flagVars, FlagsInv, OverridesSurvive
<1>9. QED BY <1>1, <1>2, <1>3, <1>4, <1>6, <1>7, <1>8 DEF FlagsNext

\* FeatureFlags over LockedFileWriter: what a set_override that returned has put into
\* the file is what its process has, until another set_override begins.
THEOREM FlagsSurvive == FlagsSpec => []OverridesSurvive
<1>1. FlagsInv /\ [FlagsNext]_flagVars => FlagsInv'
    BY FlagsKeep
<1>2. FlagsInv => OverridesSurvive
    BY DEF FlagsInv
<1>3. QED BY FlagsInitially, <1>1, <1>2, PTL DEF FlagsSpec

-----------------------------------------------------------------------------
(* The presence markers.                                                   *)

Calls == [todo : SUBSET Marks, stale : Marks \cup {Nothing}, found : SUBSET Marks,
          prune : BOOLEAN]

\* A marker that a reader has to find is complete, its owner lives if that matters,
\* and the reader has found it or has still to read it.
MarksInv ==
    /\ reader \in [Readers -> Calls \cup {Nothing}]
    /\ due \in [Readers -> SUBSET Marks]
    /\ \A r \in Readers : \A m \in due[r] :
          /\ file[m] = "entry"
          /\ reader[r] # Nothing =>
                /\ reader[r].prune => OwnerOf[m] \in alive
                /\ m \in reader[r].todo \cup reader[r].found
                /\ reader[r].stale # m

LEMMA MarksInitially == MarksInit => MarksInv
BY DEF MarksInit, MarksInv

\* What MarksStep does to the readers' calls.
LEMMA ReaderMoves ==
    ASSUME MarksInv, MarksStep, NEW r \in Readers
    PROVE  /\ reader' \in [Readers -> Calls \cup {Nothing}]
           /\ reader[r] = Nothing /\ reader'[r] # Nothing =>
                 /\ reader'[r].todo = {m \in Marks : file[m] # "absent"}
                 /\ reader'[r].stale = Nothing
           /\ reader[r] # Nothing /\ reader'[r] # Nothing =>
                 /\ reader'[r].prune = reader[r].prune
                 /\ \A m \in due[r] : /\ m \in reader'[r].todo \cup reader'[r].found
                                      /\ reader'[r].stale # m
<1>1. CASE reader' = reader
    BY <1>1 DEF MarksInv
<1>2. ASSUME NEW s \in Readers, ListMarkers(s)
      PROVE  /\ reader' \in [Readers -> Calls \cup {Nothing}]
             /\ \A q \in Readers : q # s => reader'[q] = reader[q]
             /\ reader[s] = Nothing
             /\ reader'[s].todo = {m \in Marks : file[m] # "absent"}
             /\ reader'[s].stale = Nothing
    BY <1>2 DEF ListMarkers, MarksInv, Calls
<1>3. ASSUME NEW s \in Readers, NEW m \in Marks, ReadMark(s, m)
      PROVE  /\ reader' \in [Readers -> Calls \cup {Nothing}]
             /\ \A q \in Readers : q # s => reader'[q] = reader[q]
             /\ reader[s] # Nothing
             /\ reader'[s].prune = reader[s].prune
             /\ \A d \in due[s] : /\ d \in reader'[s].todo \cup reader'[s].found
                                  /\ reader'[s].stale # d
    <2> DEFINE c == reader[s]
               read   == [c EXCEPT !.todo = @ \ {m}]
               counts == [read EXCEPT !.found = @ \cup {m}]
               pruned == [read EXCEPT !.stale = m]
    <2>1. c \in Calls /\ c # Nothing /\ c.stale = Nothing
        BY <1>3 DEF ReadMark, MarksInv
    <2>2. /\ read \in Calls /\ read.todo = c.todo \ {m} /\ read.found = c.found
          /\ read.prune = c.prune /\ read.stale = Nothing
        BY <2>1 DEF Calls
    <2>3. /\ counts \in Calls /\ counts.todo = c.todo \ {m} /\ counts.found = c.found \cup {m}
          /\ counts.prune = c.prune /\ counts.stale = Nothing
        BY <2>2 DEF Calls
    <2>4. /\ pruned \in Calls /\ pruned.todo = c.todo \ {m} /\ pruned.found = c.found
          /\ pruned.prune = c.prune /\ pruned.stale = m
        BY <2>2 DEF Calls
    <2>5. m \in due[s] => MarkKept(m, read.prune)
        BY <2>1, <2>2 DEF MarksInv, MarkKept
    <2>6. reader' = [reader EXCEPT ![s] = IF MarkKept(m, read.prune) THEN counts ELSE pruned]
        BY <1>3, Zenon DEF ReadMark
    <2> HIDE DEF counts, pruned, read
    <2>7. /\ reader' \in [Readers -> Calls \cup {Nothing}]
          /\ \A q \in Readers : q # s => reader'[q] = reader[q]
          /\ reader'[s] = IF MarkKept(m, read.prune) THEN counts ELSE pruned
        BY <2>3, <2>4, <2>6 DEF MarksInv
    <2>8. \A d \in due[s] : d \in c.todo \cup c.found /\ d # Nothing
        BY <2>1, NothingAssumption DEF MarksInv
    <2>9. QED BY <2>1, <2>3, <2>4, <2>5, <2>7, <2>8
<1>4. ASSUME NEW s \in Readers, UnlinkMark(s)
      PROVE  /\ reader' \in [Readers -> Calls \cup {Nothing}]
             /\ \A q \in Readers : q # s => reader'[q] = reader[q]
             /\ reader[s] # Nothing
             /\ reader'[s].prune = reader[s].prune
             /\ \A d \in due[s] : /\ d \in reader'[s].todo \cup reader'[s].found
                                  /\ reader'[s].stale # d
    <2> DEFINE c == reader[s]
               next == [c EXCEPT !.stale = Nothing]
    <2>1. c \in Calls /\ c # Nothing
        BY <1>4 DEF UnlinkMark, MarksInv
    <2>2. /\ next \in Calls /\ next.todo = c.todo /\ next.found = c.found
          /\ next.prune = c.prune /\ next.stale = Nothing
        BY <2>1 DEF Calls
    <2>3. reader' = [reader EXCEPT ![s] = next]
        BY <1>4 DEF UnlinkMark
    <2> HIDE DEF next
    <2>4. /\ reader' \in [Readers -> Calls \cup {Nothing}]
          /\ \A q \in Readers : q # s => reader'[q] = reader[q]
          /\ reader'[s] = next
        BY <2>2, <2>3 DEF MarksInv
    <2>5. \A d \in due[s] : d \in c.todo \cup c.found /\ d # Nothing
        BY <2>1, NothingAssumption DEF MarksInv
    <2>6. QED BY <2>1, <2>2, <2>4, <2>5
<1>5. ASSUME NEW s \in Readers, ReturnMarks(s)
      PROVE  /\ reader' \in [Readers -> Calls \cup {Nothing}]
             /\ \A q \in Readers : q # s => reader'[q] = reader[q]
             /\ reader'[s] = Nothing
    BY <1>5 DEF ReturnMarks, MarksInv
<1>6. \A s \in Readers : reader[s] # Nothing => \A d \in due[s] :
          d \in reader[s].todo \cup reader[s].found /\ reader[s].stale # d
    BY DEF MarksInv
<1>7. QED
    <2>1. CASE \E m \in Marks : MarkOpen(m) \/ MarkWrite(m) \/ RemoveMarker(m)
        BY <1>1, <1>6, <2>1 DEF MarkOpen, MarkWrite, RemoveMarker
    <2>2. CASE \E o \in Owners : OwnerDies(o)
        BY <1>1, <1>6, <2>2 DEF OwnerDies
    <2>3. CASE \E s \in Readers : ListMarkers(s)
        BY <1>2, <1>6, <2>3
    <2>4. CASE \E s \in Readers, m \in Marks : ReadMark(s, m)
        BY <1>3, <1>6, <2>4
    <2>5. CASE \E s \in Readers : UnlinkMark(s)
        BY <1>4, <1>6, <2>5
    <2>6. CASE \E s \in Readers : ReturnMarks(s)
        BY <1>5, <1>6, <2>6
    <2>7. QED BY <2>1, <2>2, <2>3, <2>4, <2>5, <2>6 DEF MarksStep

LEMMA MarksKeep == ASSUME MarksInv, [MarksNext]_markVars PROVE MarksInv'
<1>1. CASE MarksNext
    <2>1. MarksStep /\ due' = [r \in Readers |-> {m \in Marks : StillDue(r, m)}]
        BY <1>1 DEF MarksNext
    <2>2. due' \in [Readers -> SUBSET Marks]
        BY <2>1
    <2>3. ASSUME NEW r \in Readers, NEW m \in due'[r]
          PROVE  /\ file'[m] = "entry"
                 /\ reader'[r] # Nothing =>
                       /\ reader'[r].prune => OwnerOf[m] \in alive'
                       /\ m \in reader'[r].todo \cup reader'[r].found
                       /\ reader'[r].stale # m
        <3>1. m \in Marks /\ StillDue(r, m)
            BY <2>1, <2>3
        <3>2. m \in due[r] => ~(reader[r] # Nothing /\ reader[r].stale = m)
            BY DEF MarksInv
        <3>3. file'[m] = "entry"
            BY <3>1, <3>2 DEF StillDue
        <3>4. CASE reader'[r] # Nothing /\ reader[r] = Nothing
            <4>1. m \in due[r]
                BY <3>1, <3>4 DEF StillDue
            <4>2. file[m] = "entry"
                BY <4>1 DEF MarksInv
            <4>3. m \in reader'[r].todo /\ reader'[r].stale = Nothing
                BY <2>1, <3>1, <3>4, <4>2, ReaderMoves
            <4>4. QED BY <3>1, <3>3, <3>4, <4>3, NothingAssumption DEF StillDue
        <3>5. CASE reader'[r] # Nothing /\ reader[r] # Nothing
            <4>1. m \in due[r]
                BY <3>1, <3>5 DEF StillDue
            <4>2. QED BY <2>1, <3>1, <3>3, <3>5, <4>1, ReaderMoves DEF StillDue
        <3>6. QED BY <3>3, <3>4, <3>5
    <2>4. reader' \in [Readers -> Calls \cup {Nothing}]
        <3>1. CASE Readers = {}
            BY <2>1, <3>1 DEF MarksStep, MarkOpen, MarkWrite, RemoveMarker, OwnerDies, MarksInv
        <3>2. CASE Readers # {}
            BY <2>1, <3>2, ReaderMoves
        <3>3. QED BY <3>1, <3>2
    <2>5. QED BY <2>2, <2>3, <2>4 DEF MarksInv
<1>2. CASE UNCHANGED markVars
    BY <1>2 DEF markVars, MarksInv
<1>3. QED BY <1>1, <1>2

\* list_markers, for any number of markers, owners and readers: the desktop layer
\* never misses a window whose marker stays.
THEOREM MarksAreCounted == MarksSpec => []WindowsAreCounted
<1>1. MarksInv /\ [MarksNext]_markVars => MarksInv'
    BY MarksKeep
<1>2. MarksInv => WindowsAreCounted
    BY DEF MarksInv, WindowsAreCounted, Listed
<1>3. QED BY MarksInitially, <1>1, <1>2, PTL DEF MarksSpec

-----------------------------------------------------------------------------
(* dev().                                                                  *)

DevInv ==
    /\ devPc \in {"spawn", "wait", "reading", "serving", "stopping", "waiting", "reaping",
                  "ended"}
    /\ devPc \in {"spawn", "wait", "reading"} => ~served
    /\ devPc # "spawn" => shell \in {"up", "dead"}
    /\ devPc = "reading" => shell = "dead"
    /\ ShellIsStopped

\* The finally clause of dev(): the shell that it started does not outlive a dev()
\* that served.
THEOREM ShellStopped == DevSpec => []ShellIsStopped
<1>1. DevInit => DevInv
    BY DEF DevInit, DevInv, ShellIsStopped
<1>2. DevInv /\ [DevNext]_devVars => DevInv'
    BY DEF DevInv, ShellIsStopped, DevNext, devVars, SpawnShell, ViteReady, ShellExited, StderrRead, ViteLate,
           ServeEnds, TerminateShell, ShellGone, KillShell, Interrupt, ShellDies, Send
<1>3. DevInv => ShellIsStopped
    BY DEF DevInv
<1>4. QED BY <1>1, <1>2, <1>3, PTL DEF DevSpec

-----------------------------------------------------------------------------
(* The rate limit.                                                         *)

\* Products of naturals are naturals and grow with their factors: the step that
\* the provers do not find in the middle of a larger goal.
LEMMA Products ==
    ASSUME NEW a \in Nat, NEW b \in Nat, NEW m \in Nat, a >= b
    PROVE  a * m \in Nat /\ a * m >= b * m
<1>1. \A d \in Nat : d * m \in Nat /\ d * m >= 0
    BY SMT
<1>2. a - b \in Nat
    OBVIOUS
<1>3. a * m = b * m + (a - b) * m
    BY SMT
<1>4. QED BY <1>1, <1>2, <1>3

\* A full bucket holds a natural number of units.
LEMMA FullType == Full \in Nat
BY RateAssumption, Products DEF Full

\* A bucket that has been idle for a window is full, whatever was left in it.
LEMMA IdleIsFull ==
    ASSUME NEW tokens \in Nat, NEW idle \in Nat, idle >= Window
    PROVE  Least(Full, tokens + idle * MaxTokens) = Full
<1>1. idle * MaxTokens \in Nat /\ idle * MaxTokens >= Window * MaxTokens
    BY Products, RateAssumption
<1>2. Window * MaxTokens = Full
    BY RateAssumption DEF Full
<1>3. QED BY <1>1, <1>2, FullType DEF Least

-----------------------------------------------------------------------------
\* Type correctness of the buckets (rate_limit): what a bucket holds never exceeds
\* the capacity and never falls below zero.
LEMMA LevelType ==
    ASSUME RateTypeOK, NEW c \in Clients
    PROVE  /\ Level(c) \in 0 .. Full
           /\ c \in DOMAIN buckets => /\ buckets[c].tokens \in 0 .. Full
                                      /\ buckets[c].idle \in Nat
<1>1. CASE c \in DOMAIN buckets
    <2>1. buckets[c].tokens \in 0 .. Full /\ buckets[c].idle \in Nat
        BY <1>1, RateAssumption DEF RateTypeOK, Ages
    <2>2. buckets[c].idle * MaxTokens \in Nat
        BY <2>1, Products, RateAssumption
    <2>3. QED BY <1>1, <2>1, <2>2, FullType DEF Level, Least
<1>2. CASE c \notin DOMAIN buckets
    BY <1>2, FullType DEF Level
<1>3. QED BY <1>1, <1>2

\* What a request finds in its bucket after the sweep is what the bucket held.
LEMMA SweepIsUnseen ==
    ASSUME RateTypeOK, NEW c \in Clients, c \notin Kept
    PROVE  Level(c) = Full
<1>1. CASE c \in DOMAIN buckets
    <2>1. buckets[c].idle >= Window
        BY <1>1 DEF Kept
    <2>2. buckets[c].tokens \in Nat /\ buckets[c].idle \in Nat
        BY <1>1, LevelType, FullType
    <2>3. QED BY <1>1, <2>1, <2>2, IdleIsFull DEF Level
<1>2. CASE c \notin DOMAIN buckets
    BY <1>2 DEF Level
<1>3. QED BY <1>1, <1>2

LEMMA RateTypeInit == RateInit => RateTypeOK
BY RateAssumption, FullType DEF RateInit, RateTypeOK, Ages

LEMMA RateTypeTick == RateTypeOK /\ Tick => RateTypeOK'
<1> SUFFICES ASSUME RateTypeOK, Tick PROVE RateTypeOK'
    OBVIOUS
<1>1. \A a \in Ages : Older(a) \in Ages
    BY RateAssumption DEF Ages, Older, Least
<1>2. unswept' \in Ages
    BY <1>1 DEF RateTypeOK, Tick
<1>3. DOMAIN buckets' = DOMAIN buckets
    BY DEF Tick
<1>4. \A c \in DOMAIN buckets : buckets'[c] \in [tokens : 0 .. Full, idle : Ages]
    BY <1>1 DEF RateTypeOK, Tick
<1>5. buckets' \in [DOMAIN buckets' -> [tokens : 0 .. Full, idle : Ages]]
    BY <1>3, <1>4 DEF Tick
<1>6. QED BY <1>2, <1>3, <1>5 DEF RateTypeOK, Ages, Full

LEMMA RateTypeRequest == ASSUME RateTypeOK, NEW c \in Clients, Request(c) PROVE RateTypeOK'
<1> DEFINE tokens == IF c \in Kept THEN Level(c) ELSE Full
<1>0. Window \in Nat \ {0} /\ Full \in Nat /\ 0 \in Ages
    BY RateAssumption, FullType DEF Ages
<1>1. tokens \in 0 .. Full
    BY LevelType, FullType
<1>2. unswept' \in Ages
    BY <1>0 DEF Request, RateTypeOK
<1>3. Kept \subseteq DOMAIN buckets /\ DOMAIN buckets \subseteq Clients
    BY DEF Kept, RateTypeOK
<1>4. \A x \in Kept : buckets[x] \in [tokens : 0 .. Full, idle : Ages]
    BY <1>3 DEF RateTypeOK
<1>5. CASE tokens >= Window
    <2>1. buckets' = [x \in Kept \cup {c} |->
                        IF x = c THEN [tokens |-> tokens - Window, idle |-> 0]
                        ELSE buckets[x]]
        BY <1>5 DEF Request
    <2>2. tokens - Window \in 0 .. Full
        BY <1>0, <1>1, <1>5
    <2>3. [tokens |-> tokens - Window, idle |-> 0] \in [tokens : 0 .. Full, idle : Ages]
        BY <2>2, <1>0
    <2>4. buckets' \in [Kept \cup {c} -> [tokens : 0 .. Full, idle : Ages]]
        BY <2>1, <2>3, <1>4
    <2>5. QED BY <2>1, <2>4, <1>2, <1>3 DEF RateTypeOK, Ages, Full
<1>6. CASE ~(tokens >= Window)
    <2>1. buckets' = [x \in Kept |-> buckets[x]]
        BY <1>6 DEF Request
    <2>2. buckets' \in [Kept -> [tokens : 0 .. Full, idle : Ages]]
        BY <2>1, <1>4
    <2>3. QED BY <2>1, <2>2, <1>2, <1>3 DEF RateTypeOK, Ages, Full
<1>7. QED BY <1>5, <1>6

THEOREM RateTypeCorrect == RateSpec => []RateTypeOK
<1>1. RateTypeOK /\ [RateNext]_rateVars => RateTypeOK'
    <2> SUFFICES ASSUME RateTypeOK, [RateNext]_rateVars PROVE RateTypeOK'
        OBVIOUS
    <2>1. CASE Tick
        BY <2>1, RateTypeTick
    <2>2. ASSUME NEW c \in Clients, Request(c) PROVE RateTypeOK'
        BY <2>2, RateTypeRequest
    <2>3. CASE UNCHANGED rateVars
        BY <2>3 DEF rateVars, RateTypeOK, Ages, Full
    <2>4. QED BY <2>1, <2>2, <2>3 DEF RateNext
<1>2. QED BY RateTypeInit, <1>1, PTL DEF RateSpec

-----------------------------------------------------------------------------
(* The refinement: the level of TokenBucket is what Level computes.        *)

LEMMA RefinesInit == RateInit => Eternal!Init
<1> SUFFICES ASSUME RateInit PROVE Eternal!Init
    OBVIOUS
<1>1. DOMAIN buckets = {}
    BY DEF RateInit
<1>2. \A c \in Clients : Level(c) = Full
    BY <1>1 DEF Level
<1>3. QED BY <1>2 DEF RateInit, Eternal!Init, Eternal!Full, Full

\* One tick refills MaxTokens units, whether or not the client has a bucket, and
\* whether or not its age is still counted.
LEMMA TickRefills ==
    ASSUME RateTypeOK, Tick, NEW c \in Clients
    PROVE  Level(c)' = Least(Full, Level(c) + MaxTokens)
<1>0. Window \in Nat \ {0} /\ MaxTokens \in Nat /\ Full \in Nat
    BY RateAssumption, FullType
<1>1. DOMAIN buckets' = DOMAIN buckets
    BY DEF Tick
<1>2. CASE c \notin DOMAIN buckets
    <2>1. Level(c) = Full /\ Level(c)' = Full
        BY <1>1, <1>2 DEF Level, Full
    <2>2. QED BY <2>1, <1>0 DEF Least
<1>3. CASE c \in DOMAIN buckets
    <2> DEFINE left == buckets[c].tokens
               idle == buckets[c].idle
    <2>1. left \in 0 .. Full /\ left \in Nat /\ idle \in Nat /\ idle \in Ages
        BY <1>0, <1>3, LevelType DEF RateTypeOK
    <2>2. /\ buckets[c]'.tokens = left
          /\ buckets[c]'.idle = Older(idle)
        BY <1>3 DEF Tick
    <2>3. Level(c) = Least(Full, left + idle * MaxTokens)
        BY <1>3 DEF Level
    <2>4. Level(c)' = Least(Full, left + Older(idle) * MaxTokens)
        BY <1>1, <1>3, <2>2 DEF Level, Full, Least
    <2>5. CASE idle < 2 * Window
        <3>1. Older(idle) = idle + 1
            BY <1>0, <2>1, <2>5 DEF Older, Least
        <3>2. idle * MaxTokens \in Nat
            BY <1>0, <2>1, Products
        <3>3. (idle + 1) * MaxTokens = idle * MaxTokens + MaxTokens
            BY <1>0, <2>1
        <3> DEFINE refill == idle * MaxTokens
        <3>4. Level(c)' = Least(Full, left + (refill + MaxTokens))
            BY <2>4, <3>1, <3>3
        <3>5. refill \in Nat /\ Level(c) = Least(Full, left + refill)
            BY <2>3, <3>2
        <3> HIDE DEF refill, left
        <3>6. QED BY <1>0, <2>1, <3>4, <3>5 DEF Least
    <2>6. CASE ~(idle < 2 * Window)
        <3>1. idle >= Window /\ Older(idle) \in Nat /\ Older(idle) >= Window
            BY <1>0, <2>1, <2>6 DEF Older, Least, Ages
        <3>2. Level(c) = Full /\ Level(c)' = Full
            BY <2>1, <2>3, <2>4, <3>1, IdleIsFull
        <3>3. QED BY <1>0, <3>2 DEF Least
    <2>7. QED BY <2>5, <2>6
<1>4. QED BY <1>2, <1>3

LEMMA RefinesTick == ASSUME RateTypeOK, Tick PROVE Eternal!Tick
<1>1. answer' = answer
    BY DEF Tick
<1>2. \A c \in Clients : Level(c)' = Least(Full, Level(c) + MaxTokens)
    BY TickRefills
<1>3. [c \in Clients |-> Level(c)]' =
        [c \in Clients |-> Least(Full, [d \in Clients |-> Level(d)][c] + MaxTokens)]
    BY <1>2
<1>4. QED BY <1>1, <1>3 DEF Eternal!Tick, Eternal!Least, Eternal!Full, Least, Full

\* A request changes what its own bucket holds, and of the others nothing, though
\* its sweep may have dropped them.
LEMMA RequestTakes ==
    ASSUME RateTypeOK, NEW c \in Clients, Request(c), NEW x \in Clients
    PROVE  Level(x)' = IF x = c /\ Level(c) >= Window THEN Level(c) - Window ELSE Level(x)
<1> DEFINE tokens == IF c \in Kept THEN Level(c) ELSE Full
<1>0. Window \in Nat \ {0} /\ MaxTokens \in Nat /\ Full \in Nat
    BY RateAssumption, FullType
<1>1. tokens = Level(c) /\ Level(c) \in 0 .. Full
    BY SweepIsUnseen, LevelType
<1>2. Kept \subseteq DOMAIN buckets
    BY DEF Kept
<1>3. CASE x = c /\ Level(c) >= Window
    <2>1. /\ x \in DOMAIN buckets'
          /\ buckets'[x] = [tokens |-> Level(c) - Window, idle |-> 0]
        BY <1>1, <1>3 DEF Request
    <2>2. Level(x)' = Least(Full, Level(c) - Window + 0 * MaxTokens)
        BY <2>1 DEF Level, Full, Least
    <2>3. QED BY <1>0, <1>1, <1>3, <2>2 DEF Least
<1>4. CASE ~(x = c /\ Level(c) >= Window) /\ x \in Kept
    <2>1. x \in DOMAIN buckets' /\ buckets'[x] = buckets[x]
        BY <1>1, <1>4 DEF Request
    <2>2. Level(x)' = Level(x)
        BY <1>2, <1>4, <2>1 DEF Level, Full, Least
    <2>3. QED BY <1>4, <2>2
<1>5. CASE ~(x = c /\ Level(c) >= Window) /\ x \notin Kept
    <2>1. x \notin DOMAIN buckets'
        BY <1>1, <1>5 DEF Request
    <2>2. Level(x)' = Full
        BY <2>1 DEF Level, Full
    <2>3. QED BY <1>5, <2>2, SweepIsUnseen
<1>6. QED BY <1>3, <1>4, <1>5

LEMMA RefinesRequest ==
    ASSUME RateTypeOK, NEW c \in Clients, Request(c)
    PROVE  Eternal!Admit(c) \/ Eternal!Reject(c)
<1> DEFINE level == [x \in Clients |-> Level(x)]
<1>1. answer' = [client |-> c, admitted |-> Level(c) >= Window]
    BY SweepIsUnseen DEF Request
<1>2. Level(c) \in 0 .. Full /\ Window \in Nat /\ Full \in Nat
    BY LevelType, FullType, RateAssumption
<1>3. \A x \in Clients :
        Level(x)' = IF x = c /\ Level(c) >= Window THEN Level(c) - Window ELSE Level(x)
    BY RequestTakes
<1>4. CASE Level(c) >= Window
    <2>1. level' = [level EXCEPT ![c] = @ - Window]
        BY <1>3, <1>4
    <2>2. answer' = [client |-> c, admitted |-> TRUE]
        BY <1>1, <1>4
    <2>3. QED BY <1>4, <2>1, <2>2 DEF Eternal!Admit
<1>5. CASE ~(Level(c) >= Window)
    <2>1. level' = level
        BY <1>3, <1>5
    <2>2. answer' = [client |-> c, admitted |-> FALSE]
        <3>1. (Level(c) >= Window) = FALSE
            BY <1>2, <1>5
        <3>2. QED BY <1>1, <3>1, Zenon
    <2>3. level[c] < Window
        BY <1>2, <1>5
    <2>4. QED BY <2>1, <2>2, <2>3 DEF Eternal!Reject
<1>6. QED BY <1>4, <1>5

\* rate_limit implements TokenBucket: creating buckets on demand, computing their
\* contents when asked and sweeping the idle ones is never noticed by a client.
THEOREM RateRefines == RateSpec => ImplementsTokenBucket
<1>1. RateTypeOK /\ [RateNext]_rateVars
        => [Eternal!Next]_<<[c \in Clients |-> Level(c)], answer>>
    <2> SUFFICES ASSUME RateTypeOK, [RateNext]_rateVars
                 PROVE  [Eternal!Next]_<<[c \in Clients |-> Level(c)], answer>>
        OBVIOUS
    <2>1. CASE Tick
        BY <2>1, RefinesTick DEF Eternal!Next
    <2>2. ASSUME NEW c \in Clients, Request(c) PROVE Eternal!Next
        BY <2>2, RefinesRequest DEF Eternal!Next
    <2>3. CASE UNCHANGED rateVars
        <3>1. buckets' = buckets /\ answer' = answer
            BY <2>3 DEF rateVars
        <3>2. \A c \in Clients : Level(c)' = Level(c)
            BY <3>1 DEF Level, Full, Least
        <3>3. QED BY <3>1, <3>2
    <2>4. QED BY <2>1, <2>2, <2>3 DEF RateNext
<1>2. QED BY RefinesInit, RateTypeCorrect, <1>1, PTL
          DEF RateSpec, ImplementsTokenBucket, Eternal!Spec

-----------------------------------------------------------------------------
(* How long a bucket stays.                                                *)

\* No bucket has been idle for a window longer than the last sweep is ago: a sweep
\* leaves what is younger than a window, and from then on both grow old together.
RecentInv == \A x \in DOMAIN buckets : buckets[x].idle < unswept + Window

LEMMA RecentTick == ASSUME RateTypeOK, RecentInv, Tick PROVE RecentInv'
<1>0. Window \in Nat \ {0} /\ unswept \in Ages
    BY RateAssumption DEF RateTypeOK
<1>1. DOMAIN buckets' = DOMAIN buckets /\ unswept' = Older(unswept)
    BY DEF Tick
<1> SUFFICES ASSUME NEW x \in DOMAIN buckets PROVE buckets'[x].idle < unswept' + Window
    BY <1>1 DEF RecentInv
<1>2. buckets'[x].idle = Older(buckets[x].idle)
    BY DEF Tick
<1>3. buckets[x].idle \in Ages /\ buckets[x].idle < unswept + Window
    BY DEF RateTypeOK, RecentInv
<1> DEFINE idle == buckets[x].idle
<1> HIDE DEF idle
<1>4. \A i \in Ages : i < unswept + Window => Older(i) < Older(unswept) + Window
    BY <1>0 DEF Older, Least, Ages
<1>5. QED BY <1>1, <1>2, <1>3, <1>4

\* What a request leaves: its own bucket, or what its sweep has kept.
LEMMA RequestLeaves ==
    ASSUME RateTypeOK, RecentInv, NEW c \in Clients, Request(c), NEW x \in DOMAIN buckets'
    PROVE  buckets'[x].idle < unswept' + Window /\ buckets'[x].idle < 2 * Window
<1>0. Window \in Nat \ {0} /\ unswept \in Nat
    BY RateAssumption DEF RateTypeOK, Ages
<1>1. unswept' = (IF unswept >= Window THEN 0 ELSE unswept)
    BY DEF Request
<1>2. \/ buckets'[x] = [tokens |-> (IF c \in Kept THEN Level(c) ELSE Full) - Window, idle |-> 0]
      \/ x \in Kept /\ buckets'[x] = buckets[x]
    BY DEF Request
<1>3. CASE buckets'[x].idle = 0
    BY <1>0, <1>1, <1>3
<1>4. CASE x \in Kept /\ buckets'[x] = buckets[x]
    <2> DEFINE idle == buckets[x].idle
    <2>1. idle \in Nat /\ idle < unswept + Window
        BY <1>4, RateAssumption DEF Kept, RateTypeOK, RecentInv, Ages
    <2>2. unswept >= Window => idle < Window
        BY <1>0, <1>4, <2>1 DEF Kept
    <2>3. buckets'[x].idle = idle
        BY <1>4
    <2> HIDE DEF idle
    <2>4. QED BY <1>0, <1>1, <2>1, <2>2, <2>3
<1>5. QED BY <1>2, <1>3, <1>4

\* Memory follows the clients of the last two windows (the sweep of rate_limit): no
\* request leaves behind a bucket that was idle for longer, for every rate and window.
THEOREM RateRecent == RateSpec => BucketsAreRecent
<1>1. RateInit => RecentInv
    BY DEF RateInit, RecentInv
<1>2. RateTypeOK /\ RecentInv /\ [RateNext]_rateVars => RecentInv'
    <2> SUFFICES ASSUME RateTypeOK, RecentInv, [RateNext]_rateVars PROVE RecentInv'
        OBVIOUS
    <2>1. CASE Tick
        BY <2>1, RecentTick
    <2>2. ASSUME NEW c \in Clients, Request(c) PROVE RecentInv'
        BY <2>2, RequestLeaves DEF RecentInv
    <2>3. CASE UNCHANGED rateVars
        BY <2>3 DEF rateVars, RecentInv
    <2>4. QED BY <2>1, <2>2, <2>3 DEF RateNext
<1>3. RateTypeOK /\ RecentInv /\ [RateNext]_rateVars
        => [\A c \in Clients : Request(c) =>
              \A x \in DOMAIN buckets' : buckets'[x].idle < 2 * Window]_rateVars
    BY RequestLeaves
<1>4. QED BY <1>1, <1>2, <1>3, RateTypeCorrect, PTL DEF RateSpec, BucketsAreRecent
=============================================================================
