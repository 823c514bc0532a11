---------------------------- MODULE TokenBucket ----------------------------
(***************************************************************************)
(* What rate_limit of fastware.auth promises: one bucket for every client  *)
(* there could ever be, kept forever.  A token is counted as Window units, *)
(* so that a tick of the clock refills MaxTokens units and no fraction is  *)
(* needed.                                                                 *)
(***************************************************************************)
EXTENDS Integers

CONSTANTS
    Clients,    \* the keys that key_func can return
    MaxTokens,  \* the N of "N/unit"
    Window      \* the unit, in ticks of the clock

VARIABLES
    level,      \* what each bucket holds
    answer      \* the last request: whose it was, and whether it was admitted

Full == MaxTokens * Window
Least(a, b) == IF a < b THEN a ELSE b

Init ==
    /\ level = [c \in Clients |-> Full]
    /\ answer = [client |-> "none", admitted |-> FALSE]

Tick ==
    /\ level' = [c \in Clients |-> Least(Full, level[c] + MaxTokens)]
    /\ UNCHANGED answer

Admit(c) ==
    /\ level[c] >= Window
    /\ level' = [level EXCEPT ![c] = @ - Window]
    /\ answer' = [client |-> c, admitted |-> TRUE]

Reject(c) ==
    /\ level[c] < Window
    /\ answer' = [client |-> c, admitted |-> FALSE]
    /\ UNCHANGED level

Next == Tick \/ \E c \in Clients : Admit(c) \/ Reject(c)

Spec == Init /\ [][Next]_<<level, answer>>
=============================================================================
