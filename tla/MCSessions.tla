----------------------------- MODULE MCSessions -----------------------------
(* Instances of Sessions for TLC.                                          *)
EXTENDS Sessions, TLC

CONSTANTS c1, c2, s1, s2, s3, p1, p2

\* No definition tells one customer, one primary key or one web process from
\* another, so each kind may be permuted.
SessionSymmetry == Permutations(Session)
Symmetry ==
    Permutations(Customer) \cup Permutations(Process) \cup SessionSymmetry
=============================================================================
