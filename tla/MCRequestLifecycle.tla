------------------------ MODULE MCRequestLifecycle ------------------------
(* RequestLifecycle with two generator dependencies and one body chunk below *)
(* the cap: enough for a resolution that fails half way, a teardown with a   *)
(* remainder to abandon, and a body that goes over max_body_size.            *)
EXTENDS RequestLifecycle
===========================================================================
