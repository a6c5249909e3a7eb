----------------------------- MODULE MCPersistQ -----------------------------
(* PersistQ for TLC: two partitions, records of several sizes. *)
EXTENDS PersistQ

CONSTANTS r1, r2, r3, r4

\* r4 goes to the second partition; the others fill more than one segment
MCPartition == [r \in Records |-> IF r = r4 THEN 2 ELSE 1]
MCSize == [r \in Records |-> IF r = r1 THEN 2 ELSE 1]
=============================================================================
