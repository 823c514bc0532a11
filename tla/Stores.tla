------------------------------- MODULE Stores -------------------------------
(***************************************************************************)
(* The two stores that several processes share through a file:             *)
(* JSONFileUserStore of fastware.auth, and FeatureFlags of                 *)
(* fastware.features on top of LockedFileWriter of fastware._fswrite.      *)
(*                                                                         *)
(* Either has a lock for the threads that share the object and none        *)
(* between objects: a process of this module stands for one store object,  *)
(* and two stores of one process that name the same file are two processes *)
(* here.  The user store replaces its file; the flags truncate theirs and  *)
(* write it again.  A process may die at any step, and is started again.   *)
(***************************************************************************)
EXTENDS Integers

CONSTANTS
    Threads,
    ProcessOf,  \* the process of a thread, with its one store of either kind
    Names,      \* usernames
    Flags,      \* names of flags
    Idle, Torn  \* no operation; a flag file that is not JSON

Processes == {ProcessOf[t] : t \in Threads}

\* What the two files may hold, apart from Torn, and what an operation keeps.
Lists   == UNION {[N -> Threads] : N \in SUBSET Names}
Texts   == UNION {[F -> BOOLEAN] : F \in SUBSET Flags}
Work    == [op : {"create", "delete"}, name : Names, base : Lists, raced : SUBSET Processes]
Setting == [text : Texts, mixed : BOOLEAN]

ASSUME IdleAssumption == Idle \notin Work \cup Setting
ASSUME TornAssumption == Torn \notin Texts

-----------------------------------------------------------------------------
(* Users.                                                                  *)

VARIABLES
    users,  \* the file: for each user the thread that created it, which
            \* stands for password hash and role
    work    \* for each thread the operation between load and save: what it
            \* loaded, what it does, and the processes that saved meanwhile

userVars == <<users, work>>

UsersInit ==
    /\ users = [n \in {} |-> Idle]
    /\ work = [t \in Threads |-> Idle]

\* The lock of the thread's store object.
UserLockFree(t) == \A s \in Threads : ProcessOf[s] = ProcessOf[t] => work[s] = Idle

\* Mutated form of Load: without the lock.
LoadUnlocked(t) ==
    /\ work[t] = Idle
    /\ \E op \in {"create", "delete"}, n \in Names :
          /\ (op = "delete") = (n \in DOMAIN users)
          /\ work' = [work EXCEPT ![t] = [op |-> op, name |-> n,
                                          base |-> users, raced |-> {}]]
    /\ UNCHANGED users

\* A name that exists already, or does not, is an error that changes nothing.
Load(t) ==
    /\ UserLockFree(t)
    /\ \E op \in {"create", "delete"}, n \in Names :
          /\ (op = "delete") = (n \in DOMAIN users)
          /\ work' = [work EXCEPT ![t] = [op |-> op, name |-> n,
                                          base |-> users, raced |-> {}]]
    /\ UNCHANGED users

Updated(t) ==
    LET w == work[t]
    IN  IF w.op = "create"
        THEN [n \in DOMAIN w.base \cup {w.name} |-> IF n = w.name THEN t ELSE w.base[n]]
        ELSE [n \in DOMAIN w.base \ {w.name} |-> w.base[n]]

\* The temporary file is complete before it takes the place of the old one.
Save(t) ==
    /\ work[t] # Idle
    /\ users' = Updated(t)
    /\ work' = [s \in Threads |->
                  IF s = t \/ work[s] = Idle THEN Idle
                  ELSE [work[s] EXCEPT !.raced = @ \cup {ProcessOf[t]}]]

\* Hashing the password or writing the temporary file fails.
SaveFails(t) ==
    /\ work[t] # Idle
    /\ work' = [work EXCEPT ![t] = Idle]
    /\ UNCHANGED users

UsersCrash(p) ==
    /\ work' = [t \in Threads |-> IF ProcessOf[t] = p THEN Idle ELSE work[t]]
    /\ UNCHANGED users

UsersNext ==
    \/ \E t \in Threads : Load(t) \/ Save(t) \/ SaveFails(t)
    \/ \E p \in Processes : UsersCrash(p)

UsersSpec == UsersInit /\ [][UsersNext]_userVars

-----------------------------------------------------------------------------
(* Flags.                                                                  *)

VARIABLES
    disk,       \* the overrides in the file, or Torn
    overrides,  \* for each process those in its memory
    setting,    \* for each thread the text it is to write, and whether
                \* another process has written since the file was truncated
    kept        \* the process whose set_override was the last to return, and
                \* Idle once another one has begun

flagVars == <<disk, overrides, setting, kept>>

None == [f \in {} |-> FALSE]

FlagsInit ==
    /\ disk = None
    /\ overrides = [p \in Processes |-> None]
    /\ setting = [t \in Threads |-> Idle]
    /\ kept = Idle

\* _load_overrides: a missing or malformed file is no overrides.
Loaded == IF disk = Torn THEN None ELSE disk

FlagLockFree(t) == \A s \in Threads : ProcessOf[s] = ProcessOf[t] => setting[s] = Idle

Override(p, f, v) ==
    [g \in DOMAIN overrides[p] \cup {f} |-> IF g = f THEN v ELSE overrides[p][g]]

\* Mutated form of SetOverride: the file is written outside the lock.
SetOverrideUnlocked(t) ==
    /\ setting[t] = Idle
    /\ \E f \in Flags, v \in BOOLEAN :
          LET text == Override(ProcessOf[t], f, v)
          IN  /\ overrides' = [overrides EXCEPT ![ProcessOf[t]] = text]
              /\ setting' = [setting EXCEPT ![t] = [text |-> text, mixed |-> FALSE]]
    /\ disk' = Torn /\ kept' = Idle

\* set_override: memory first, then the file, truncated by its opening.
SetOverride(t) ==
    /\ FlagLockFree(t)
    /\ \E f \in Flags, v \in BOOLEAN :
          LET text == Override(ProcessOf[t], f, v)
          IN  /\ overrides' = [overrides EXCEPT ![ProcessOf[t]] = text]
              /\ setting' = [setting EXCEPT ![t] = [text |-> text, mixed |-> FALSE]]
    /\ disk' = Torn /\ kept' = Idle

\* The file cannot be opened: the override holds in memory, and the call raises.
OpenFails(t) ==
    /\ FlagLockFree(t)
    /\ \E f \in Flags, v \in BOOLEAN :
          overrides' = [overrides EXCEPT ![ProcessOf[t]] = Override(ProcessOf[t], f, v)]
    /\ kept' = Idle
    /\ UNCHANGED <<disk, setting>>

\* Two texts written over each other from the start of the file: the end of
\* the longer one may remain.
Write(t) ==
    /\ setting[t] # Idle
    /\ \/ disk' = setting[t].text /\ kept' = ProcessOf[t]
       \/ setting[t].mixed /\ disk' = Torn /\ kept' = Idle
    /\ setting' = [s \in Threads |->
                     IF s = t \/ setting[s] = Idle THEN Idle
                     ELSE [setting[s] EXCEPT !.mixed = TRUE]]
    /\ UNCHANGED overrides

\* The disk is full: the file stays truncated, or what another process has
\* written meanwhile is spoilt.
WriteFails(t) ==
    /\ setting[t] # Idle
    /\ setting' = [setting EXCEPT ![t] = Idle]
    /\ \/ UNCHANGED <<disk, kept>>
       \/ setting[t].mixed /\ disk' = Torn /\ kept' = Idle
    /\ UNCHANGED overrides

Reload(t) ==
    /\ FlagLockFree(t)
    /\ overrides' = [overrides EXCEPT ![ProcessOf[t]] = Loaded]
    /\ UNCHANGED <<disk, setting, kept>>

\* A process dies, in the middle of a write or not, and is started again.
FlagsCrash(p) ==
    /\ setting' = [t \in Threads |-> IF ProcessOf[t] = p THEN Idle ELSE setting[t]]
    /\ overrides' = [overrides EXCEPT ![p] = Loaded]
    /\ UNCHANGED <<disk, kept>>

FlagsNext ==
    \/ \E t \in Threads :
          SetOverride(t) \/ OpenFails(t) \/ Write(t) \/ WriteFails(t) \/ Reload(t)
    \/ \E p \in Processes : FlagsCrash(p)

FlagsSpec == FlagsInit /\ [][FlagsNext]_flagVars

-----------------------------------------------------------------------------
(* Properties.                                                             *)

\* Another process has saved between the load and the save of a thread.
Overtaken(t) == work[t] # Idle /\ work[t].raced \ {ProcessOf[t]} # {}

\* One user appears or one disappears, and the others keep what they have.
OneUserChanges ==
    \E n \in Names :
       /\ n \in DOMAIN users <=> n \notin DOMAIN users'
       /\ \A m \in Names \ {n} :
             /\ m \in DOMAIN users <=> m \in DOMAIN users'
             /\ m \in DOMAIN users => users'[m] = users[m]

\* Concurrent callers of one process, whatever fails or dies, cannot lose each
\* other's updates, nor create a user twice.  Another process can.
UpdatesAreKept ==
    [][OneUserChanges \/ \E t \in Threads : Overtaken(t) /\ Save(t)]_users

\* After a set_override that returned, and until another begins, a restart or
\* a reload of its process gives it the overrides it has.
OverridesSurvive ==
    kept # Idle => disk # Torn /\ overrides[kept] = disk
=============================================================================
