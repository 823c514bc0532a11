---------------------------- MODULE MCErrorLog ----------------------------
(* ErrorLog with two caller threads: one to wait in flush() or close() while *)
(* the other appends, and two workers, so that a restart happens.            *)
EXTENDS ErrorLog

CONSTANTS t1, t2
===========================================================================
