--------------------------- MODULE MCCategoryTree ---------------------------
(* Instances of CategoryTree for TLC.                                      *)
EXTENDS CategoryTree, TLC

CONSTANTS a, b, c, p1, p2
=============================================================================
