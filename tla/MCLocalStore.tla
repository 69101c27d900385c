---------------------------- MODULE MCLocalStore ----------------------------
(* A small instance of LocalStore for TLC. *)
EXTENDS LocalStore

CONSTANTS k1, bad, c1, c2, c3

OneKey    == {k1}
OneBadKey == {bad}
Calls3    == {c1, c2, c3}

AllFaults == {"disk", "crash"}
=============================================================================
