------------------------------- MODULE Markers -------------------------------
(***************************************************************************)
(* The presence markers of fastware.server, beside the instance registry:  *)
(* one file for each marker of a process, and readers that enumerate one   *)
(* kind of them while markers are written and removed and their owners     *)
(* die.  The desktop layer counts its windows with them: the server is     *)
(* stopped when a reader finds none.  A PID names one process for good.    *)
(***************************************************************************)
EXTENDS Naturals

CONSTANTS
    Marks,      \* the markers of one kind, each a process and an id
    OwnerOf,    \* the process of a marker
    Readers,    \* the callers of list_markers()
    Nothing     \* no call in progress; no marker

ASSUME NothingAssumption == Nothing \notin Marks

Owners == {OwnerOf[m] : m \in Marks}

VARIABLES
    alive,      \* the owners that live
    file,       \* each marker's file: "absent", "partial" or "entry"
    writing,    \* the markers between the opening of their file and its text
    reader,     \* each reader's call: the files it has still to read, the one
                \* it is about to unlink, its list so far, and prune_dead
    due         \* the markers that each reader has to find: complete ever since
                \* its call began, by whatever the others did

markVars == <<alive, file, writing, reader, due>>

MarksInit ==
    /\ alive = Owners
    /\ file = [m \in Marks |-> "absent"] /\ writing = {}
    /\ reader = [r \in Readers |-> Nothing]
    /\ due = [r \in Readers |-> {}]

-----------------------------------------------------------------------------
\* write_marker: write_bytes creates or truncates the file, then fills it.
MarkOpen(m) ==
    /\ OwnerOf[m] \in alive /\ m \notin writing
    /\ file' = [file EXCEPT ![m] = "partial"]
    /\ writing' = writing \cup {m}
    /\ UNCHANGED <<alive, reader>>

\* The text goes to the opened file, and is lost with it.
MarkWrite(m) ==
    /\ OwnerOf[m] \in alive /\ m \in writing
    /\ file' = [file EXCEPT ![m] = IF @ = "partial" THEN "entry" ELSE @]
    /\ writing' = writing \ {m}
    /\ UNCHANGED <<alive, reader>>

\* remove_marker, by the owner or by the consumer of a request.
RemoveMarker(m) ==
    /\ file' = [file EXCEPT ![m] = "absent"]
    /\ UNCHANGED <<alive, writing, reader>>

OwnerDies(o) ==
    /\ o \in alive
    /\ alive' = alive \ {o}
    /\ writing' = {m \in writing : OwnerOf[m] # o}
    /\ UNCHANGED <<file, reader>>

-----------------------------------------------------------------------------
(* list_markers.                                                           *)

ListMarkers(r) ==
    /\ reader[r] = Nothing
    /\ \E prune \in BOOLEAN :
          reader' = [reader EXCEPT ![r] = [todo |-> {m \in Marks : file[m] # "absent"},
                                           stale |-> Nothing,
                                           found |-> {}, prune |-> prune]]
    /\ UNCHANGED <<alive, file, writing>>

\* Mutated form of MarkKept: whose owner is dead is dropped in either mode.
MarkKeptStrictly(m, prune) == file[m] = "entry" /\ OwnerOf[m] \in alive

\* What the reader makes of a file: unreadable counts as stale.
MarkKept(m, prune) == file[m] = "entry" /\ (prune => OwnerOf[m] \in alive)

ReadMark(r, m) ==
    /\ reader[r] # Nothing /\ reader[r].stale = Nothing /\ m \in reader[r].todo
    /\ LET read == [reader[r] EXCEPT !.todo = @ \ {m}]
       IN  reader' = [reader EXCEPT ![r] =
             IF MarkKept(m, read.prune) THEN [read EXCEPT !.found = @ \cup {m}]
             ELSE [read EXCEPT !.stale = m]]
    /\ UNCHANGED <<alive, file, writing>>

UnlinkMark(r) ==
    /\ reader[r] # Nothing /\ reader[r].stale # Nothing
    /\ file' = [file EXCEPT ![reader[r].stale] = "absent"]
    /\ reader' = [reader EXCEPT ![r].stale = Nothing]
    /\ UNCHANGED <<alive, writing>>

Listed(r) == reader[r] # Nothing /\ reader[r].todo = {} /\ reader[r].stale = Nothing

ReturnMarks(r) ==
    /\ Listed(r)
    /\ reader' = [reader EXCEPT ![r] = Nothing]
    /\ UNCHANGED <<alive, file, writing>>

-----------------------------------------------------------------------------
\* The history variable: a reader that is about to begin has to find all that
\* is there, one that has begun no more than that.  Its own unlinking excuses
\* nothing.
StillDue(r, m) ==
    /\ reader'[r] = Nothing \/ m \in due[r]
    /\ file'[m] = "entry" \/ (m \in due[r] /\ reader[r] # Nothing /\ reader[r].stale = m)
    /\ reader'[r] # Nothing /\ reader'[r].prune => OwnerOf[m] \in alive'

MarksStep ==
    \/ \E m \in Marks : MarkOpen(m) \/ MarkWrite(m) \/ RemoveMarker(m)
    \/ \E o \in Owners : OwnerDies(o)
    \/ \E r \in Readers : ListMarkers(r) \/ UnlinkMark(r) \/ ReturnMarks(r)
                          \/ \E m \in Marks : ReadMark(r, m)

MarksNext ==
    /\ MarksStep
    /\ due' = [r \in Readers |-> {m \in Marks : StillDue(r, m)}]

MarksSpec == MarksInit /\ [][MarksNext]_markVars

-----------------------------------------------------------------------------
(* Properties.                                                             *)

\* A window whose marker is complete from before the call to its end, and that
\* nobody else takes away, is counted, also among files of dead owners and files
\* that other processes write, and in the mode without pruning also when its
\* owner is dead.  Another reader may take it away: it unlinks what it met
\* half written, by then complete.
WindowsAreCounted ==
    \A r \in Readers : Listed(r) => due[r] \subseteq reader[r].found
=============================================================================
