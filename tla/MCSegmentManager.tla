-------------------------- MODULE MCSegmentManager --------------------------
(* SegmentManager for TLC, with records of several sizes. *)
EXTENDS SegmentManager

CONSTANTS r1, r2, r3, r4

MCSize == [r \in Records |-> IF r = r1 THEN 3 ELSE IF r = r2 THEN 2 ELSE 1]
=============================================================================
