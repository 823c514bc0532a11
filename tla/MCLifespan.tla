---------------------------- MODULE MCLifespan -----------------------------
(* Three mounts, so that a failing one may follow two that are rolled back  *)
(* in order; two messages of each app, as many as the protocol has, in any  *)
(* order, and then it may raise or return on top.                           *)
EXTENDS Lifespan
============================================================================
