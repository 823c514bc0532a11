------------------------------ MODULE MCParts ------------------------------
(* The rate limit, the user store, the feature flags, the presence markers   *)
(* and dev() share no state: the run takes one of them at the start and      *)
(* leaves the others as they are.                                            *)
EXTENDS RateLimit, Stores, Markers, Dev

CONSTANTS t1, t2, t3, p, q, m1, m2

VARIABLE part

MCProcessOf == [t \in Threads |-> IF t = t3 THEN q ELSE p]
MCOwnerOf   == [m \in Marks |-> IF m = m1 THEN p ELSE q]

\* The variables of the other parts stand still.
Others(mine) == \A other \in {"limit", "users", "flags", "markers", "dev"} \ {mine} :
    CASE other = "limit"   -> UNCHANGED rateVars
      [] other = "users"   -> UNCHANGED userVars
      [] other = "flags"   -> UNCHANGED flagVars
      [] other = "markers" -> UNCHANGED markVars
      [] other = "dev"     -> UNCHANGED devVars

MCInit ==
    /\ RateInit /\ UsersInit /\ FlagsInit /\ MarksInit /\ DevInit
    /\ part \in {"limit", "users", "flags", "markers", "dev"}

MCNext ==
    /\ \/ part = "limit"   /\ RateNext
       \/ part = "users"   /\ UsersNext
       \/ part = "flags"   /\ FlagsNext
       \/ part = "markers" /\ MarksNext
       \/ part = "dev"     /\ DevNext
    /\ Others(part) /\ UNCHANGED part

MCSpec ==
    MCInit /\ [][MCNext]_<<part, rateVars, userVars, flagVars, markVars, devVars>>
=============================================================================
