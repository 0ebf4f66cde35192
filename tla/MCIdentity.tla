----------------------------- MODULE MCIdentity -----------------------------
(* Instances of Identity for TLC.                                          *)
EXTENDS Identity, TLC

CONSTANTS c1, c2, t1, t2, e1, e2, g1, g2, p1, p2

\* No definition tells two members of one of these sets apart.
Symmetry ==
    Permutations(Customer) \cup Permutations(Token) \cup Permutations(Email)
        \cup Permutations(Subject) \cup Permutations(Process)
=============================================================================
