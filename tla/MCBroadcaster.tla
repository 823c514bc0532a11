--------------------------- MODULE MCBroadcaster ---------------------------
(* Two clients, one of which may fall behind while the other keeps up; four *)
(* events over a buffer of two, so that a pruned client misses at least one *)
(* and a later client joins after it.                                       *)
EXTENDS Broadcaster

CONSTANTS c1, c2, build
=============================================================================
