--------------------------- MODULE UniformSegment ---------------------------
(***************************************************************************)
(* RecordSegment when all records have one size, as in the concurrency     *)
(* stress tests of the repository.  A rollback that is still outstanding   *)
(* then proves that the segment is full for every other call too, so no    *)
(* reservation can succeed between the fetch_add and the fetch_sub of a    *)
(* failed one.  With records of several sizes it can, and a later record   *)
(* may then overlap an earlier one.                                        *)
(***************************************************************************)
EXTENDS RecordSegment

ASSUME UniformAssumption ==
  /\ Records # {}
  /\ \A r, q \in Records : Size[r] = Size[q]

Unit == Size[CHOOSE r \in Records : TRUE]

(* The end of the records placed so far: write_pos without the bytes that  *)
(* outstanding rollbacks will give back.                                   *)
Frontier == write_pos - Unit * Cardinality(Pending)

(* The strengthening that makes ReservationsDisjoint inductive.            *)
FrontierInv ==
  /\ Frontier \in 0..MaxSize
  /\ Pending # {} => Frontier + Unit > MaxSize
  /\ \A r \in Records : pc[r] \in Reserved =>
       offset[r] >= 0 /\ offset[r] + Size[r] <= Frontier
  /\ ReservationsDisjoint

(* The append-only log that the segment implements: a record is in the log *)
(* from its fetch_add on, and refused from its fetch_add on.               *)
Log == INSTANCE AppendLog WITH
  status <- [r \in Records |->
               IF pc[r] \in Reserved THEN "in"
               ELSE IF pc[r] \in {"rollback", "full", "panicked"} THEN "full" ELSE "new"],
  place <- [r \in Records |-> IF pc[r] \in Reserved THEN offset[r] ELSE NoOffset],
  extent <- Frontier

(* The lock-free append of storage.rs implements the atomic bounded log:   *)
(* every record goes to the end of the log and is refused only when it     *)
(* does not fit there.                                                     *)
ImplementsLog == Log!LogSpec
=============================================================================
