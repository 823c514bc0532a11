----------------------------- MODULE RateLimit -----------------------------
(***************************************************************************)
(* rate_limit of fastware.auth: the buckets of one decorated handler.  A   *)
(* bucket exists from the first admitted request of its client until a     *)
(* sweep finds it idle for a window; what it holds is computed when it is  *)
(* asked.  Times are kept as the time since, counted in ticks up to two    *)
(* windows: nothing compares a longer one.  Rounding of floats is left     *)
(* out: a token is Window units, as in TokenBucket.                        *)
(***************************************************************************)
EXTENDS Integers

CONSTANTS Clients, MaxTokens, Window

ASSUME RateAssumption == MaxTokens \in Nat /\ Window \in Nat \ {0}

VARIABLES
    buckets,    \* for some clients: tokens left at the last admission, and
                \* the time since (idle)
    unswept,    \* the time since the last sweep
    answer      \* the last request: whose it was, and whether it was admitted

rateVars == <<buckets, unswept, answer>>

Full == MaxTokens * Window
Ages == 0 .. 2 * Window
Least(a, b) == IF a < b THEN a ELSE b

RateInit ==
    /\ buckets = [c \in {} |-> [tokens |-> 0, idle |-> 0]]
    /\ unswept = 0
    /\ answer = [client |-> "none", admitted |-> FALSE]

Older(age) == Least(age + 1, 2 * Window)

Tick ==
    /\ buckets' = [c \in DOMAIN buckets |-> [tokens |-> buckets[c].tokens,
                                             idle |-> Older(buckets[c].idle)]]
    /\ unswept' = Older(unswept)
    /\ UNCHANGED answer

\* Mutated forms of Kept: a sweep that evicts what is not refilled yet, and
\* one that never happens.
KeptBusy == {c \in DOMAIN buckets : ~(unswept >= Window /\ buckets[c].idle + 1 >= Window)}
KeptAll  == DOMAIN buckets

\* The buckets that the sweep of this request leaves.
Kept == {c \in DOMAIN buckets : ~(unswept >= Window /\ buckets[c].idle >= Window)}

\* What the bucket of a client holds now.
Level(c) ==
    IF c \in DOMAIN buckets
    THEN Least(Full, buckets[c].tokens + buckets[c].idle * MaxTokens)
    ELSE Full

\* The sweep comes first, and a rejected request leaves its bucket as it was.
Request(c) ==
    LET tokens == IF c \in Kept THEN Level(c) ELSE Full
    IN  /\ unswept' = IF unswept >= Window THEN 0 ELSE unswept
        /\ answer' = [client |-> c, admitted |-> tokens >= Window]
        /\ buckets' = IF tokens >= Window
                      THEN [x \in Kept \cup {c} |->
                              IF x = c THEN [tokens |-> tokens - Window, idle |-> 0]
                              ELSE buckets[x]]
                      ELSE [x \in Kept |-> buckets[x]]

RateNext == Tick \/ \E c \in Clients : Request(c)

RateSpec == RateInit /\ [][RateNext]_rateVars

-----------------------------------------------------------------------------
(* Properties.                                                             *)

RateTypeOK ==
    /\ DOMAIN buckets \subseteq Clients
    /\ buckets \in [DOMAIN buckets -> [tokens : 0 .. Full, idle : Ages]]
    /\ unswept \in Ages

\* Dropping a bucket is indistinguishable from keeping it: every request is
\* admitted or rejected as if no bucket were ever created or evicted.
Eternal == INSTANCE TokenBucket WITH level <- [c \in Clients |-> Level(c)]

ImplementsTokenBucket == Eternal!Spec

\* Memory follows the clients of the last two windows: no request leaves a
\* bucket behind that has been idle for longer.
BucketsAreRecent ==
    [][\A c \in Clients : Request(c) =>
          \A x \in DOMAIN buckets' : buckets'[x].idle < 2 * Window]_rateVars
=============================================================================
