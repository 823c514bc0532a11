------------------------- MODULE MCServerInstances -------------------------
(* ServerInstances with two server processes, the first of which may be the  *)
(* parent of the second: enough for every race of two starts, for a start    *)
(* that meets the remains of a dead server, its own child's or another's,    *)
(* and for a stop() or a list_instances() in between.                        *)
EXTENDS ServerInstances

CONSTANTS p1, p2

MCParent == [p \in Servers |-> IF p = p2 THEN p1 ELSE None]
============================================================================
