---------------------------- MODULE MCCompaction ----------------------------
(* Compaction for TLC: three appends to a segment of two slots; another segment *)
(* holds r4 already.                                                          *)
EXTENDS Compaction

CONSTANTS s1, s2, r4

MCCandidates == <<s1, s2>>
MCSegmentOf == [r \in Records |-> IF r = r4 THEN s2 ELSE s1]
MCTarget == [c \in Calls |-> s1]
=============================================================================
