---------------------------- MODULE MCFileShare ----------------------------
(* Small instances of FileShare for TLC. *)
EXTENDS FileShare, TLC

CONSTANTS s1, r1, r2, r3, r4

OneSlug   == {s1}
Requests3 == {r1, r2, r3}
Requests4 == {r1, r2, r3, r4}

(* "never" and one preset of a second: long enough to be used, short       *)
(* enough to pass.                                                         *)
NeverOrOne == {0, 1}

AllFaults  == {"dbRead", "dbWrite", "dbLost", "disk", "crash"}
AllButDisk == AllFaults \ {"disk"}
ReadFaults == {"dbRead"}

(* Requests are interchangeable. *)
Symmetry4 == Permutations(Requests4)
=============================================================================
