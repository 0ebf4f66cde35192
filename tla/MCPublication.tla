---------------------------- MODULE MCPublication ----------------------------
(* Instances of Publication for TLC.                                       *)
EXTENDS Publication, TLC

CONSTANTS x1, v1, v2, p1, p2, u1

\* No definition tells two variants or two processes apart.
Symmetry == Permutations(Variant) \cup Permutations(Process)
=============================================================================
