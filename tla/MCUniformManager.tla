-------------------------- MODULE MCUniformManager --------------------------
(* UniformManager for TLC: two records of two units fill a segment. *)
EXTENDS UniformManager, TLC

MCSize == [r \in Records |-> 2]
MCSymmetry == Permutations(Records)
=============================================================================
