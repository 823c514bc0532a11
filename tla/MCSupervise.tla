---------------------------- MODULE MCSupervise ----------------------------
(* Three components in both topologies: an aux service before the pair, so  *)
(* that a failure meets none, one or two components already started, and    *)
(* both forms of the backend.  Two signals from outside: one that is        *)
(* handled and one that meets the teardown.                                 *)
EXTENDS Supervise

MCOrders == {<<"aux", "vite", "app">>, <<"aux", "cmd", "vite">>}
============================================================================
