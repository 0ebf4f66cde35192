-------------------------- MODULE MCMediaPipeline --------------------------
(* Instances of MediaPipeline for TLC.                                     *)
EXTENDS MediaPipeline, TLC

CONSTANTS u1, u2, jpeg, png, virus, truncated, bomb, w1, w2

\* u1 declares the size of every content but png; u2 declares png's.
MCMatches ==
    {<<u1, jpeg>>, <<u1, truncated>>, <<u2, png>>} \cap (Upload \X Content)

\* Two contents that both match u1, for mixing derivatives of two readings.
MCMatchesBoth == ({u1} \X {jpeg, png, virus, truncated}) \cap (Upload \X Content)

\* Of u1's size and type, and refused by Pillow with an exception of its own.
MCUnreadable == ({u1} \X {bomb}) \cap (Upload \X Content)

Symmetry == Permutations({w1, w2})
=============================================================================
