---------------------------- MODULE MCPasteShare ----------------------------
(* A small instance of PasteShare for TLC. *)
EXTENDS PasteShare

CONSTANTS s1, r1, r2, r3

OneSlug   == {s1}
Requests3 == {r1, r2, r3}

(* "never" and one preset of a second. *)
NeverOrOne == {0, 1}

AllFaults == {"dbRead", "dbWrite", "dbLost", "rand", "crash"}
=============================================================================
