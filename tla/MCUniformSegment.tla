-------------------------- MODULE MCUniformSegment --------------------------
(* UniformSegment for TLC: every record takes two units. *)
EXTENDS UniformSegment

MCSize == [r \in Records |-> 2]
=============================================================================
