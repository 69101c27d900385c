---------------------------- MODULE MCShareLink ----------------------------
(* A small instance of ShareLink for TLC. *)
EXTENDS ShareLink, TLC

CONSTANTS l1, l2, v1, v2, v3

TwoLinks    == {l1, l2}
ThreeVisits == {v1, v2, v3}

(* Links and visits are interchangeable. *)
Symmetry == Permutations(TwoLinks) \cup Permutations(ThreeVisits)
=============================================================================
