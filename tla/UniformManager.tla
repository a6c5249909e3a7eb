--------------------------- MODULE UniformManager ---------------------------
(***************************************************************************)
(* Segment rotation when all records have one size.  A segment is then     *)
(* given up only when it is really full, although has_space may read a     *)
(* write_pos that includes bytes another call is about to give back.       *)
(***************************************************************************)
EXTENDS SegmentManager

ASSUME UniformAssumption == \A r, q \in Records : Size[r] = Size[q]

Unit == Size[CHOOSE r \in Records : TRUE]

PendingIn(s) == {r \in Records : pc[r] \in GivingBack /\ segment[r] = s}

Used(s) == Unit * Cardinality(PlacedIn(s))
Full(s) == Used(s) + Unit > SegmentSize

(* append_record rotates no segment that could take one more record: the   *)
(* segment count is the smallest that holds the records.  (A segment that  *)
(* is too small for any record counts as full.)                            *)
RolloverOnlyWhenFull == \A s \in 1..(Current - 1) : Full(s)

(* The strengthening that makes RolloverOnlyWhenFull inductive.            *)
ManagerInv ==
  /\ Current >= 1
  /\ \A s \in 1..Current :
       /\ write_pos[s] = Used(s) + Unit * Cardinality(PendingIn(s))
       /\ Used(s) <= SegmentSize
       /\ PendingIn(s) # {} => Full(s)
  /\ \A r \in Records :
       /\ pc[r] \in {"append"} \cup GivingBack => segment[r] \in 1..Current
       /\ pc[r] \in {"recheck", "create"} <=> lock = r
       /\ pc[r] = "create" => Full(Current)
       /\ placed[r] \in 0..Current
       /\ placed[r] # 0 <=> pc[r] = "ok"
  /\ RolloverOnlyWhenFull
=============================================================================
