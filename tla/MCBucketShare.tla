--------------------------- MODULE MCBucketShare ---------------------------
(* Small instances of BucketShare for TLC. *)
EXTENDS BucketShare, TLC

CONSTANTS s1, k1, k2, r1, r2, r3

OneSlug   == {s1}
TwoKeys   == {k1, k2}
Requests2 == {r1, r2}
Requests3 == {r1, r2, r3}

NeverOrOne == {0, 1}

NoFaults   == {}
AllFaults  == {"dbRead", "dbWrite", "dbLost", "disk", "crash"}
AllButDisk == AllFaults \ {"disk"}

(* Storage keys and requests are interchangeable. *)
Symmetry == Permutations(TwoKeys) \cup Permutations(Requests3)
=============================================================================
