---------------------------- MODULE MCStaffAdmin ----------------------------
(* Instances of StaffAdmin for TLC.                                        *)
EXTENDS StaffAdmin, TLC

CONSTANTS d1, d2, p1, p2, admin, colleague, customer, key

\* No definition tells one primary key or one web process from another.
Symmetry == Permutations({d1, d2}) \cup Permutations({p1, p2})
=============================================================================
