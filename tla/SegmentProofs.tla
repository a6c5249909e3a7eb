--------------------------- MODULE SegmentProofs ---------------------------
(***************************************************************************)
(* Proofs about the lock-free segment with records of one size: the        *)
(* inductive invariant, that no record is overwritten, and that the        *)
(* segment implements AppendLog.                                           *)
(***************************************************************************)
EXTENDS UniformSegment, FiniteSetTheorems, TLAPS

(* Every record has the size Unit, a positive number.                      *)
LEMMA UnitSize ==
  /\ Unit \in Nat /\ Unit > 0
  /\ \A r \in Records : Size[r] = Unit
BY SegmentAssumption, UniformAssumption DEF Unit

(* The calls with an outstanding rollback are finitely many.               *)
LEMMA PendingFinite ==
  /\ IsFiniteSet(Pending)
  /\ Cardinality(Pending) \in Nat
  /\ Cardinality(Pending) = 0 <=> Pending = {}
<1>1. Pending \subseteq Records
  BY DEF Pending
<1>2. IsFiniteSet(Pending)
  BY <1>1, SegmentAssumption, FS_Subset
<1> QED
  BY <1>2, FS_CardinalityType, FS_EmptySet

-----------------------------------------------------------------------------
(* How the steps of a call change the set of outstanding rollbacks and,    *)
(* with it, the frontier.                                                  *)
LEMMA ReserveFrontier ==
  ASSUME TypeOK, NEW r \in Records, Reserve(r)
  PROVE  IF write_pos + Unit > MaxSize
         THEN /\ Cardinality(Pending') = Cardinality(Pending) + 1
              /\ Frontier' = Frontier
         ELSE /\ Pending' = Pending
              /\ Frontier' = Frontier + Unit
<1> USE UnitSize, PendingFinite
<1>1. CASE write_pos + Unit > MaxSize
  <2>1. Pending' = Pending \cup {r} /\ r \notin Pending
    BY <1>1 DEF Reserve, Pending, TypeOK
  <2>2. Cardinality(Pending') = Cardinality(Pending) + 1
    BY <2>1, FS_AddElement
  <2>3. write_pos' = write_pos + Unit /\ write_pos \in Nat
    BY DEF Reserve, TypeOK
  <2>4. Unit * (Cardinality(Pending) + 1) = Unit * Cardinality(Pending) + Unit
    OBVIOUS
  <2>5. Frontier' = write_pos' - Unit * Cardinality(Pending')
    BY DEF Frontier
  <2> QED
    BY <1>1, <2>2, <2>3, <2>4, <2>5 DEF Frontier
<1>2. CASE ~ (write_pos + Unit > MaxSize)
  <2>1. Pending' = Pending
    BY <1>2 DEF Reserve, Pending, TypeOK
  <2>2. write_pos' = write_pos + Unit /\ write_pos \in Nat
    BY DEF Reserve, TypeOK
  <2>3. Frontier' = write_pos' - Unit * Cardinality(Pending')
    BY DEF Frontier
  <2> QED
    BY <1>2, <2>1, <2>2, <2>3 DEF Frontier
<1> QED
  BY <1>1, <1>2

LEMMA RollbackFrontier ==
  ASSUME TypeOK, NEW r \in Records, Rollback(r)
  PROVE  /\ r \in Pending
         /\ Pending' = Pending \ {r}
         /\ Cardinality(Pending) \in Nat \ {0}
         /\ Frontier' = Frontier
<1> USE UnitSize, PendingFinite
<1>1. Pending' = Pending \ {r} /\ r \in Pending
  BY DEF Rollback, Pending, TypeOK
<1>2. Cardinality(Pending') = Cardinality(Pending) - 1
  BY <1>1, FS_RemoveElement
<1>3. Cardinality(Pending) \in Nat \ {0}
  BY <1>1
<1>4. write_pos' = write_pos - Unit /\ write_pos \in Nat
  BY DEF Rollback, TypeOK
<1>5. Unit * (Cardinality(Pending) - 1) = Unit * Cardinality(Pending) - Unit
  BY <1>3
<1>6. Frontier' = write_pos' - Unit * Cardinality(Pending')
  BY DEF Frontier
<1> QED
  BY <1>1, <1>2, <1>3, <1>4, <1>5, <1>6 DEF Frontier

(* write_pos is the frontier plus what outstanding rollbacks still hold.   *)
LEMMA FrontierBelow ==
  ASSUME TypeOK, FrontierInv
  PROVE  /\ Frontier \in Nat
         /\ Frontier <= write_pos
         /\ Pending = {} => Frontier = write_pos
         /\ Pending # {} => write_pos >= Frontier + Unit
<1> USE UnitSize, PendingFinite
<1>1. write_pos \in Nat /\ Frontier \in Nat
  BY SegmentAssumption DEF TypeOK, FrontierInv
<1>2. write_pos = Frontier + Unit * Cardinality(Pending)
  BY <1>1 DEF Frontier
<1>3. CASE Pending = {}
  <2>1. Unit * Cardinality(Pending) = 0
    BY <1>3
  <2> QED
    BY <1>1, <1>2, <1>3, <2>1
<1>4. CASE Pending # {}
  <2>1. Cardinality(Pending) >= 1
    BY <1>4
  <2>2. Unit * Cardinality(Pending) >= Unit
    BY <2>1
  <2> QED
    BY <1>1, <1>2, <1>4, <2>2
<1> QED
  BY <1>3, <1>4

LEMMA OtherStepsKeepFrontier ==
  ASSUME TypeOK, UNCHANGED write_pos,
         \A r \in Records : pc'[r] = "rollback" <=> pc[r] = "rollback"
  PROVE  Pending' = Pending /\ Frontier' = Frontier
<1>1. Pending' = Pending
  BY DEF Pending
<1> QED
  BY <1>1 DEF Frontier

-----------------------------------------------------------------------------
(* The type invariant, given that a rollback never takes write_pos below   *)
(* zero, which is what the frontier is for.                                *)
LEMMA TypeStep ==
  ASSUME TypeOK, FrontierInv, [Next]_vars
  PROVE  TypeOK'
<1> USE SegmentAssumption
<1>1. ASSUME NEW r \in Records, Reserve(r)  PROVE TypeOK'
  BY <1>1 DEF Reserve, TypeOK, PCs
<1>2. ASSUME NEW r \in Records, Rollback(r)  PROVE TypeOK'
  <2>1. write_pos' \in Nat
    <3>1. Pending # {}
      BY <1>2, RollbackFrontier
    <3>2. Frontier \in Nat /\ write_pos >= Frontier + Unit
      BY <3>1, FrontierBelow
    <3>3. write_pos' = write_pos - Unit /\ write_pos \in Nat
      BY <1>2, UnitSize DEF Rollback, TypeOK
    <3> QED
      BY <3>2, <3>3, UnitSize
  <2> QED
    BY <1>2, <2>1 DEF Rollback, TypeOK, PCs
<1>3. ASSUME NEW r \in Records, WriteFrame(r)  PROVE TypeOK'
  BY <1>3 DEF WriteFrame, TypeOK, PCs
<1>4. ASSUME NEW r \in Records, CountRecord(r)  PROVE TypeOK'
  BY <1>4 DEF CountRecord, TypeOK, PCs
<1>5. ASSUME NEW r \in Records, InsertIndex(r)  PROVE TypeOK'
  BY <1>5 DEF InsertIndex, TypeOK, PCs
<1>6. ASSUME NEW t \in Readers, NEW at \in Bytes, ReadLoad(t, at)  PROVE TypeOK'
  <2>1. AckedAt(at) \subseteq Records
    BY DEF AckedAt
  <2> HIDE DEF AckedAt
  <2> QED
    BY <1>6, <2>1 DEF ReadLoad, TypeOK, appendVars, Outcomes
<1>7. ASSUME NEW t \in Readers, ReadSlice(t)  PROVE TypeOK'
  <2> DEFINE at == read[t].at
             end == read[t].current_pos
             out == IF end > MaxSize THEN "panic" ELSE Deserialize(at, end)
  <2>1. at \in Bytes /\ read[t].acked \subseteq Records
    BY <1>7 DEF ReadSlice, TypeOK
  <2>2. Deserialize(at, end) \in Outcomes
    BY <2>1 DEF Deserialize, Decodes, Outcomes
  <2>3. out \in Outcomes
    BY <2>2 DEF Outcomes
  <2>4. read' = [read EXCEPT ![t] = [pc |-> "done", at |-> at,
                                     acked |-> read[t].acked, outcome |-> out]]
    BY <1>7 DEF ReadSlice
  <2> HIDE DEF at, out
  <2> QED
    BY <1>7, <2>1, <2>3, <2>4 DEF ReadSlice, TypeOK, appendVars
<1>8. ASSUME UNCHANGED vars  PROVE TypeOK'
  BY <1>8 DEF vars, TypeOK
<1> QED
  BY <1>1, <1>2, <1>3, <1>4, <1>5, <1>6, <1>7, <1>8
     DEF Next, AppendNext, ReadNext, ReadByNum

(* A step that moves no call into or out of a reservation keeps the        *)
(* invariant: only Reserve and Rollback have to be looked at.              *)
LEMMA QuietStep ==
  ASSUME TypeOK, FrontierInv, UNCHANGED <<write_pos, offset>>,
         \A r \in Records : pc'[r] = "rollback" <=> pc[r] = "rollback",
         \A r \in Records : pc'[r] \in Reserved <=> pc[r] \in Reserved
  PROVE  FrontierInv'
<1>1. Pending' = Pending /\ Frontier' = Frontier
  BY OtherStepsKeepFrontier
<1>2. ReservationsDisjoint'
  BY DEF FrontierInv, ReservationsDisjoint
<1> QED
  BY <1>1, <1>2 DEF FrontierInv

(* FrontierInv is preserved.  A reservation succeeds only when no rollback *)
(* is outstanding, and then it starts where the last record ends.          *)
LEMMA FrontierStep ==
  ASSUME TypeOK, FrontierInv, [Next]_vars
  PROVE  FrontierInv'
<1> USE SegmentAssumption, UnitSize
<1>1. ASSUME NEW r \in Records, Reserve(r)  PROVE FrontierInv'
  <2>1. CASE write_pos + Unit > MaxSize
    <3>1. Frontier' = Frontier /\ Cardinality(Pending') = Cardinality(Pending) + 1
      BY <1>1, <2>1, ReserveFrontier
    <3>2. \A q \in Records : pc'[q] \in Reserved => pc[q] \in Reserved /\ offset'[q] = offset[q]
      BY <1>1, <2>1 DEF Reserve, TypeOK, Reserved
    <3>3. Frontier + Unit > MaxSize
      BY <2>1, FrontierBelow DEF FrontierInv
    <3>4. ReservationsDisjoint'
      BY <3>2 DEF FrontierInv, ReservationsDisjoint
    <3> QED
      BY <3>1, <3>2, <3>3, <3>4 DEF FrontierInv
  <2>2. CASE ~ (write_pos + Unit > MaxSize)
    <3>1. Pending = {} /\ Frontier = write_pos /\ write_pos \in Nat
      BY <2>2, FrontierBelow DEF FrontierInv, TypeOK
    <3>2. Pending' = Pending /\ Frontier' = Frontier + Unit
      BY <1>1, <2>2, ReserveFrontier
    <3>3. /\ offset' = [offset EXCEPT ![r] = Frontier]
          /\ pc' = [pc EXCEPT ![r] = "write"]
      BY <1>1, <2>2, <3>1 DEF Reserve
    <3>4. \A q \in Records : pc'[q] \in Reserved =>
            \/ q = r /\ offset'[q] = Frontier
            \/ /\ q # r /\ pc[q] \in Reserved /\ offset'[q] = offset[q]
               /\ offset[q] \in Nat
               /\ offset[q] + Unit <= Frontier
      BY <1>1, <3>3 DEF FrontierInv, TypeOK, Reserve, Reserved, NoOffset
    <3>5. Frontier + Unit <= MaxSize
      BY <2>2, <3>1
    <3>6. ReservationsDisjoint'
      BY <3>1, <3>4, <3>5 DEF FrontierInv, ReservationsDisjoint
    <3> QED
      BY <3>1, <3>2, <3>4, <3>5, <3>6 DEF FrontierInv
  <2> QED
    BY <2>1, <2>2
<1>2. ASSUME NEW r \in Records, Rollback(r)  PROVE FrontierInv'
  <2>1. Frontier' = Frontier /\ Pending' \subseteq Pending
    BY <1>2, RollbackFrontier
  <2>2. \A q \in Records : pc'[q] \in Reserved => pc[q] \in Reserved /\ offset'[q] = offset[q]
    BY <1>2 DEF Rollback, TypeOK, Reserved
  <2>3. ReservationsDisjoint'
    BY <2>2 DEF FrontierInv, ReservationsDisjoint
  <2> QED
    BY <2>1, <2>2, <2>3 DEF FrontierInv
<1>3. ASSUME NEW r \in Records, WriteFrame(r) \/ CountRecord(r) \/ InsertIndex(r)
      PROVE  FrontierInv'
  BY <1>3, QuietStep DEF WriteFrame, CountRecord, InsertIndex, TypeOK, Reserved
<1>4. ASSUME NEW t \in Readers, ReadNext(t)  PROVE FrontierInv'
  BY <1>4, QuietStep DEF ReadNext, ReadLoad, ReadByNum, ReadSlice, appendVars
<1>5. ASSUME UNCHANGED vars  PROVE FrontierInv'
  BY <1>5, QuietStep DEF vars
<1> QED
  BY <1>1, <1>2, <1>3, <1>4, <1>5 DEF Next, AppendNext

(* Types and the frontier invariant hold in every reachable state, for     *)
(* any number of append calls and readers, any segment size, with or       *)
(* without the index.                                                      *)
THEOREM SegmentInvariant == Spec => [](TypeOK /\ FrontierInv)
<1>1. Init => TypeOK /\ FrontierInv
  <2> SUFFICES ASSUME Init  PROVE TypeOK /\ FrontierInv
    OBVIOUS
  <2> USE SegmentAssumption, UnitSize
  <2>1. TypeOK
    BY DEF Init, TypeOK, PCs
  <2>2. Pending = {} /\ \A r \in Records : pc[r] \notin Reserved
    BY DEF Init, Pending, Reserved
  <2>3. Frontier = 0
    BY <2>2, PendingFinite DEF Frontier, Init
  <2> QED
    BY <2>1, <2>2, <2>3 DEF FrontierInv, ReservationsDisjoint
<1>2. TypeOK /\ FrontierInv /\ [Next]_vars => (TypeOK /\ FrontierInv)'
  BY TypeStep, FrontierStep
<1> QED
  BY <1>1, <1>2, PTL DEF Spec

(* Concurrent calls of append_record never hand out overlapping bytes, nor *)
(* bytes beyond the segment, when all records have one size.               *)
THEOREM SegmentNoOverlap == Spec => []ReservationsDisjoint
<1>1. FrontierInv => ReservationsDisjoint
  BY DEF FrontierInv
<1> QED
  BY <1>1, SegmentInvariant, PTL

-----------------------------------------------------------------------------
(* The frames of the records that were written.                            *)
Written == {"count", "index", "ok"}

FramesIntact ==
  \A r \in Records : pc[r] \in Written => \A p \in Frame(r) : mmap[p] = r

(* A frame that is written lies in bytes reserved for it alone.            *)
LEMMA FramesStep ==
  ASSUME TypeOK, FrontierInv, FramesIntact, [Next]_vars
  PROVE  FramesIntact'
<1> USE SegmentAssumption
<1>1. ASSUME NEW r \in Records, WriteFrame(r)  PROVE FramesIntact'
  <2>1. Frame(r) \subseteq Bytes
    <3>1. pc[r] \in Reserved
      BY <1>1 DEF WriteFrame, Reserved
    <3>2. offset[r] \in Nat /\ offset[r] + Size[r] <= MaxSize
      BY <3>1 DEF TypeOK, FrontierInv, ReservationsDisjoint, NoOffset
    <3> QED
      BY <3>2 DEF Frame, Bytes
  <2> SUFFICES ASSUME NEW q \in Records, pc'[q] \in Written, NEW p \in Frame(q)'
               PROVE  mmap'[p] = q
    BY DEF FramesIntact
  <2>2. offset' = offset /\ Frame(q)' = Frame(q)
    BY <1>1 DEF WriteFrame, Frame
  <2>3. CASE q = r
    BY <1>1, <2>1, <2>2, <2>3 DEF WriteFrame
  <2>4. CASE q # r
    <3>1. pc[q] \in Written /\ pc[q] \in Reserved /\ pc[r] \in Reserved
      BY <1>1, <2>4 DEF WriteFrame, Written, Reserved, TypeOK
    <3>2. /\ offset[q] \in Nat /\ offset[r] \in Nat
          /\ offset[q] + Size[q] <= MaxSize
          /\ offset[q] + Size[q] <= offset[r] \/ offset[r] + Size[r] <= offset[q]
      BY <2>4, <3>1 DEF FrontierInv, ReservationsDisjoint, TypeOK, NoOffset
    <3>3. p \in Bytes /\ p \notin Frame(r)
      BY <2>2, <3>2 DEF Frame, Bytes
    <3>4. mmap[p] = q
      BY <2>2, <3>1 DEF FramesIntact
    <3> QED
      BY <1>1, <3>3, <3>4 DEF WriteFrame
  <2> QED
    BY <2>3, <2>4
<1>2. ASSUME NEW r \in Records, Reserve(r)  PROVE FramesIntact'
  <2>1. \A q \in Records : pc'[q] \in Written => pc[q] \in Written /\ offset'[q] = offset[q]
    BY <1>2 DEF Reserve, TypeOK, Written
  <2> QED
    BY <1>2, <2>1 DEF Reserve, FramesIntact, Frame
<1>3. ASSUME NEW r \in Records, Rollback(r) \/ CountRecord(r) \/ InsertIndex(r)
      PROVE  FramesIntact'
  BY <1>3 DEF Rollback, CountRecord, InsertIndex, TypeOK, FramesIntact, Frame, Written
<1>4. ASSUME NEW t \in Readers, ReadNext(t)  PROVE FramesIntact'
  BY <1>4 DEF ReadNext, ReadLoad, ReadByNum, ReadSlice, appendVars, FramesIntact, Frame
<1>5. ASSUME UNCHANGED vars  PROVE FramesIntact'
  BY <1>5 DEF vars, FramesIntact, Frame
<1> QED
  BY <1>1, <1>2, <1>3, <1>4, <1>5 DEF Next, AppendNext

LEMMA IntactDecodes ==
  ASSUME TypeOK, FrontierInv, FramesIntact
  PROVE  WrittenIntact
<1> SUFFICES ASSUME NEW r \in Records, pc[r] \in Written
             PROVE  Decodes(r, offset[r], write_pos)
  BY DEF WrittenIntact, Written
<1> USE SegmentAssumption
<1>1. pc[r] \in Reserved
  BY DEF Written, Reserved
<1>2. offset[r] \in Nat /\ offset[r] + Size[r] <= Frontier
  BY <1>1 DEF FrontierInv, TypeOK, NoOffset
<1>3. offset[r] + Size[r] <= write_pos
  BY <1>2, FrontierBelow DEF TypeOK
<1>4. offset[r] \in Frame(r)
  BY <1>2 DEF Frame
<1> QED
  BY <1>3, <1>4 DEF Decodes, FramesIntact

LEMMA FramesInvariant == Spec => [](TypeOK /\ FrontierInv /\ FramesIntact)
<1>1. Init => FramesIntact
  BY DEF Init, FramesIntact, Written
<1>2. TypeOK /\ FrontierInv /\ FramesIntact /\ [Next]_vars => FramesIntact'
  BY FramesStep
<1> QED
  BY <1>1, <1>2, SegmentInvariant, PTL DEF Spec

(* What append_record has written is never overwritten and stays below     *)
(* write_pos, where read_record finds it.                                  *)
THEOREM SegmentIntact == Spec => []WrittenIntact
<1>1. TypeOK /\ FrontierInv /\ FramesIntact => WrittenIntact
  BY IntactDecodes
<1> QED
  BY <1>1, FramesInvariant, PTL

-----------------------------------------------------------------------------
(* A read under way: the records it must find are still acknowledged and   *)
(* lie within the slice that it loaded.                                    *)
ReadsInRange ==
  \A t \in Readers : read[t].pc = "slice" =>
    \A r \in read[t].acked :
      pc[r] = "ok" /\ offset[r] = read[t].at /\ read[t].at + Size[r] <= read[t].current_pos

LEMMA ReadsStep ==
  ASSUME TypeOK, FrontierInv, FramesIntact, ReadsInRange, ReadAfterAck, [Next]_vars
  PROVE  ReadsInRange' /\ ReadAfterAck'
<1> USE SegmentAssumption
<1>1. ASSUME NEW r \in Records, AppendNext(r)  PROVE ReadsInRange' /\ ReadAfterAck'
  <2>1. \A q \in Records : pc[q] = "ok" => pc'[q] = "ok" /\ offset'[q] = offset[q]
    BY <1>1 DEF AppendNext, Reserve, Rollback, WriteFrame, CountRecord, InsertIndex, TypeOK
  <2>2. read' = read
    BY <1>1 DEF AppendNext, Reserve, Rollback, WriteFrame, CountRecord, InsertIndex
  <2>3. \A t \in Readers : read[t].pc = "slice" => read[t].acked \subseteq Records
    BY DEF TypeOK
  <2> QED
    BY <2>1, <2>2, <2>3 DEF ReadsInRange, ReadAfterAck
<1>2. ASSUME NEW t \in Readers, NEW at \in Bytes, ReadLoad(t, at)
      PROVE  ReadsInRange' /\ ReadAfterAck'
  <2>1. \A r \in AckedAt(at) : /\ pc[r] = "ok" /\ offset[r] = at
                               /\ at + Size[r] <= write_pos
    BY IntactDecodes DEF AckedAt, WrittenIntact, Decodes
  <2>2. at >= write_pos => AckedAt(at) = {}
    BY <2>1 DEF AckedAt, TypeOK, Bytes
  <2>3. UNCHANGED <<pc, offset>>
    BY <1>2 DEF ReadLoad, appendVars
  <2>4. \A u \in Readers \ {t} : read'[u] = read[u]
    BY <1>2 DEF ReadLoad, TypeOK
  <2>5. CASE at >= write_pos
    <3>1. read'[t] = [pc |-> "done", at |-> at, acked |-> {}, outcome |-> "out_of_bounds"]
      BY <1>2, <2>2, <2>5 DEF ReadLoad, TypeOK
    <3> QED
      BY <2>3, <2>4, <3>1 DEF ReadsInRange, ReadAfterAck
  <2>6. CASE ~ (at >= write_pos)
    <3>1. read'[t] = [pc |-> "slice", at |-> at, acked |-> AckedAt(at),
                      current_pos |-> write_pos]
      BY <1>2, <2>6 DEF ReadLoad, TypeOK
    <3> HIDE DEF AckedAt
    <3> QED
      BY <2>1, <2>3, <2>4, <3>1 DEF ReadsInRange, ReadAfterAck
  <2> QED
    BY <2>5, <2>6
<1>3. ASSUME NEW t \in Readers, ReadSlice(t)  PROVE ReadsInRange' /\ ReadAfterAck'
  <2> DEFINE at == read[t].at
             end == read[t].current_pos
             out == IF end > MaxSize THEN "panic" ELSE Deserialize(at, end)
  <2>1. UNCHANGED <<pc, offset>>
    BY <1>3 DEF ReadSlice, appendVars
  <2>2. read'[t] = [pc |-> "done", at |-> at, acked |-> read[t].acked, outcome |-> out]
    BY <1>3 DEF ReadSlice, TypeOK
  <2>3. \A u \in Readers \ {t} : read'[u] = read[u]
    BY <1>3 DEF ReadSlice, TypeOK
  <2>4. read[t].acked \subseteq Records /\ at \in Bytes
    BY <1>3 DEF ReadSlice, TypeOK
  <2>5. \A r \in read[t].acked : Decodes(r, at, end)
    <3> SUFFICES ASSUME NEW r \in read[t].acked  PROVE Decodes(r, at, end)
      OBVIOUS
    <3>1. r \in Records /\ pc[r] = "ok" /\ offset[r] = at /\ at + Size[r] <= end
      BY <1>3, <2>4 DEF ReadSlice, ReadsInRange
    <3>2. Decodes(r, offset[r], write_pos)
      BY <3>1, IntactDecodes DEF WrittenIntact
    <3> QED
      BY <3>1, <3>2 DEF Decodes
  <2>6. \A r \in read[t].acked : Deserialize(at, end) = r
    BY <2>4, <2>5 DEF Deserialize, Decodes
  <2>7. read[t].acked # {} => out = "panic" \/ read[t].acked = {out}
    BY <2>6
  <2> HIDE DEF at, end, out
  <2>8. ReadsInRange'
    BY <2>1, <2>2, <2>3 DEF ReadsInRange
  <2>9. ReadAfterAck'
    BY <2>2, <2>3, <2>7 DEF ReadAfterAck
  <2> QED
    BY <2>8, <2>9
<1>4. ASSUME UNCHANGED vars  PROVE ReadsInRange' /\ ReadAfterAck'
  BY <1>4 DEF vars, ReadsInRange, ReadAfterAck
<1> QED
  BY <1>1, <1>2, <1>3, <1>4 DEF Next, ReadNext, ReadByNum

(* A read that starts after the append at that offset was acknowledged     *)
(* returns exactly that record, whatever appends and rollbacks run         *)
(* meanwhile; the panic of an over-long slice is the only other outcome.   *)
THEOREM SegmentReadAfterAck == Spec => []ReadAfterAck
<1>1. Init => ReadsInRange /\ ReadAfterAck
  BY DEF Init, ReadsInRange, ReadAfterAck
<1>2. TypeOK /\ FrontierInv /\ FramesIntact /\ ReadsInRange /\ ReadAfterAck /\ [Next]_vars
        => (ReadsInRange /\ ReadAfterAck)'
  BY ReadsStep
<1> QED
  BY <1>1, <1>2, FramesInvariant, PTL DEF Spec

-----------------------------------------------------------------------------
(* A step that leaves every call on the same side of its reservation is a  *)
(* stuttering step of the log.                                             *)
LEMMA QuietLogStep ==
  ASSUME TypeOK, UNCHANGED <<write_pos, offset>>,
         \A r \in Records : pc'[r] = "rollback" <=> pc[r] = "rollback",
         \A r \in Records : pc'[r] \in {"full", "panicked"} <=> pc[r] \in {"full", "panicked"},
         \A r \in Records : pc'[r] \in Reserved <=> pc[r] \in Reserved
  PROVE  UNCHANGED Log!logVars
<1>1. Frontier' = Frontier
  BY OtherStepsKeepFrontier
<1> QED
  BY <1>1 DEF Log!logVars

LEMMA LogStep ==
  ASSUME TypeOK, FrontierInv, [Next]_vars
  PROVE  [Log!LogNext]_(Log!logVars)
<1> USE SegmentAssumption, UnitSize
<1>1. ASSUME NEW r \in Records, Reserve(r)  PROVE Log!LogNext
  <2>1. CASE write_pos + Unit > MaxSize
    <3>1. Frontier' = Frontier
      BY <1>1, <2>1, ReserveFrontier
    <3>2. Frontier + Size[r] > MaxSize
      BY <2>1, FrontierBelow DEF FrontierInv
    <3>3. Log!Refuse(r)
      BY <1>1, <2>1, <3>1, <3>2 DEF Log!Refuse, Reserve, TypeOK, Reserved
    <3> QED
      BY <3>3 DEF Log!LogNext
  <2>2. CASE ~ (write_pos + Unit > MaxSize)
    <3>1. Frontier = write_pos
      BY <2>2, FrontierBelow DEF FrontierInv, TypeOK
    <3>2. Frontier' = Frontier + Size[r]
      BY <1>1, <2>2, ReserveFrontier
    <3>3. Frontier + Size[r] <= MaxSize
      BY <2>2, <3>1 DEF TypeOK
    <3>4. Log!Place(r)
      BY <1>1, <2>2, <3>1, <3>2, <3>3 DEF Log!Place, Reserve, TypeOK, Reserved
    <3> QED
      BY <3>4 DEF Log!LogNext
  <2> QED
    BY <2>1, <2>2
<1>2. ASSUME NEW r \in Records, Rollback(r)  PROVE UNCHANGED Log!logVars
  <2>1. Frontier' = Frontier
    BY <1>2, RollbackFrontier
  <2> QED
    BY <1>2, <2>1 DEF Rollback, TypeOK, Reserved, Log!logVars
<1>3. ASSUME NEW r \in Records, WriteFrame(r) \/ CountRecord(r) \/ InsertIndex(r)
      PROVE  UNCHANGED Log!logVars
  BY <1>3, QuietLogStep DEF WriteFrame, CountRecord, InsertIndex, TypeOK, Reserved
<1>4. ASSUME NEW t \in Readers, ReadNext(t)  PROVE UNCHANGED Log!logVars
  BY <1>4, QuietLogStep DEF ReadNext, ReadLoad, ReadByNum, ReadSlice, appendVars
<1>5. ASSUME UNCHANGED vars  PROVE UNCHANGED Log!logVars
  BY <1>5, QuietLogStep DEF vars
<1> QED
  BY <1>1, <1>2, <1>3, <1>4, <1>5 DEF Next, AppendNext

(* With records of one size the lock-free append_record implements the     *)
(* atomic bounded log: no append is refused while its record would fit,    *)
(* although others roll back at the same time, and each one lands exactly  *)
(* at the end of the log.                                                  *)
THEOREM SegmentImplementsLog == Spec => ImplementsLog
<1>1. Init => Log!LogInit
  <2> SUFFICES ASSUME Init  PROVE Log!LogInit
    OBVIOUS
  <2>1. Pending = {} /\ \A r \in Records : pc[r] = "new"
    BY DEF Init, Pending
  <2>2. Frontier = 0
    BY <2>1, PendingFinite, UnitSize DEF Frontier, Init
  <2> QED
    BY <2>1, <2>2 DEF Log!LogInit, Log!NoOffset, NoOffset, Reserved
<1>2. TypeOK /\ FrontierInv /\ [Next]_vars => [Log!LogNext]_(Log!logVars)
  BY LogStep
<1> QED
  BY <1>1, <1>2, SegmentInvariant, PTL DEF Spec, ImplementsLog, Log!LogSpec

-----------------------------------------------------------------------------
(* Record numbers and the index.                                           *)
Counted == {r \in Records : pc[r] \in {"index", "ok"}}

(* The numbers given out are those below record_count, each to one record. *)
NumbersDense ==
  /\ \A r \in Counted : num[r] < record_count
  /\ \A n \in 0..(record_count - 1) : \E r \in Counted : num[r] = n
  /\ \A r, q \in Counted : num[r] = num[q] => r = q
  /\ Cardinality(Counted) = record_count

(* Index entries are those of acknowledged records, at their offsets.      *)
IndexOfAcked ==
  /\ \A at \in Bytes : index[at] # NotIndexed =>
       \E r \in Records : pc[r] = "ok" /\ offset[r] = at /\ num[r] = index[at]
  /\ IndexEnabled => \A r \in Records : pc[r] = "ok" => index[offset[r]] = num[r]

LEMMA NumbersStep ==
  ASSUME TypeOK, NumbersDense, [Next]_vars
  PROVE  NumbersDense'
<1>1. ASSUME Counted' = Counted, record_count' = record_count, num' = num  PROVE NumbersDense'
  BY <1>1 DEF NumbersDense
<1>2. ASSUME NEW r \in Records, Reserve(r) \/ Rollback(r) \/ WriteFrame(r) \/ InsertIndex(r)
      PROVE  NumbersDense'
  <2>1. Counted' = Counted
    BY <1>2 DEF Counted, Reserve, Rollback, WriteFrame, InsertIndex, TypeOK
  <2>2. record_count' = record_count /\ num' = num
    BY <1>2 DEF Reserve, Rollback, WriteFrame, InsertIndex
  <2> QED
    BY <1>1, <2>1, <2>2
<1>3. ASSUME NEW r \in Records, CountRecord(r)  PROVE NumbersDense'
  <2>1. /\ Counted' = Counted \cup {r} /\ r \notin Counted /\ Counted \subseteq Records
        /\ num' = [num EXCEPT ![r] = record_count] /\ record_count' = record_count + 1
    BY <1>3 DEF Counted, CountRecord, TypeOK
  <2>2. record_count \in Nat /\ num'[r] = record_count
        /\ \A q \in Counted : num'[q] = num[q] /\ num[q] \in Nat
    BY <2>1 DEF TypeOK
  <2>3. IsFiniteSet(Counted)
    BY <2>1, SegmentAssumption, FS_Subset
  <2>4. Cardinality(Counted') = record_count'
    BY <2>1, <2>3, FS_AddElement DEF NumbersDense
  <2>5. \A q \in Counted' : num'[q] < record_count'
    BY <2>1, <2>2 DEF NumbersDense
  <2>6. \A n \in 0..(record_count' - 1) : \E q \in Counted' : num'[q] = n
    <3> SUFFICES ASSUME NEW n \in 0..record_count  PROVE \E q \in Counted' : num'[q] = n
      BY <2>1, <2>2
    <3>1. CASE n = record_count
      BY <2>1, <2>2, <3>1
    <3>2. CASE n # record_count
      <4>1. n \in 0..(record_count - 1)
        BY <2>2, <3>2
      <4> QED
        BY <2>1, <2>2, <4>1 DEF NumbersDense
    <3> QED
      BY <3>1, <3>2
  <2>7. \A p, q \in Counted' : num'[p] = num'[q] => p = q
    BY <2>1, <2>2 DEF NumbersDense
  <2> QED
    BY <2>4, <2>5, <2>6, <2>7 DEF NumbersDense
<1>4. ASSUME NEW t \in Readers, ReadNext(t)  PROVE NumbersDense'
  BY <1>1, <1>4 DEF ReadNext, ReadLoad, ReadByNum, ReadSlice, appendVars, Counted
<1>5. ASSUME UNCHANGED vars  PROVE NumbersDense'
  BY <1>1, <1>5 DEF vars, Counted
<1> QED
  BY <1>2, <1>3, <1>4, <1>5 DEF Next, AppendNext

(* Reserved records lie at different bytes of the segment.                 *)
LEMMA OffsetsApart ==
  ASSUME TypeOK, FrontierInv, NEW r \in Records, pc[r] \in Reserved
  PROVE  /\ offset[r] \in Bytes
         /\ \A q \in Records : pc[q] \in Reserved /\ offset[q] = offset[r] => q = r
<1> USE SegmentAssumption
<1>1. /\ offset[r] \in Nat /\ Size[r] \in Nat \ {0} /\ offset[r] + Size[r] <= MaxSize
      /\ \A q \in Records : Size[q] \in Nat \ {0}
  BY DEF FrontierInv, ReservationsDisjoint, TypeOK, NoOffset
<1>2. \A q \in Records : pc[q] \in Reserved /\ q # r =>
        offset[r] + Size[r] <= offset[q] \/ offset[q] + Size[q] <= offset[r]
  BY DEF FrontierInv, ReservationsDisjoint
<1> QED
  BY <1>1, <1>2 DEF Bytes

LEMMA IndexStep ==
  ASSUME TypeOK, FrontierInv, IndexOfAcked, [Next]_vars
  PROVE  IndexOfAcked'
<1>1. ASSUME index' = index, \A q \in Records : pc[q] = "ok" <=> pc'[q] = "ok",
             \A q \in Records : pc[q] = "ok" => offset'[q] = offset[q] /\ num'[q] = num[q]
      PROVE  IndexOfAcked'
  BY <1>1 DEF IndexOfAcked
<1>2. ASSUME NEW r \in Records, Reserve(r) \/ Rollback(r) \/ WriteFrame(r)  PROVE IndexOfAcked'
  BY <1>1, <1>2 DEF Reserve, Rollback, WriteFrame, TypeOK
<1>3. ASSUME NEW r \in Records, CountRecord(r)  PROVE IndexOfAcked'
  <2>1. \A q \in Records : q # r => pc'[q] = pc[q] /\ num'[q] = num[q]
    BY <1>3 DEF CountRecord, TypeOK
  <2>2. index' = index /\ offset' = offset /\ pc[r] # "ok" /\ (IndexEnabled => pc'[r] # "ok")
    BY <1>3 DEF CountRecord, TypeOK
  <2> QED
    BY <2>1, <2>2 DEF IndexOfAcked
<1>4. ASSUME NEW r \in Records, InsertIndex(r)  PROVE IndexOfAcked'
  <2>1. /\ pc[r] = "index" /\ pc' = [pc EXCEPT ![r] = "ok"] /\ offset' = offset /\ num' = num
        /\ index' = [index EXCEPT ![offset[r]] = num[r]]
    BY <1>4 DEF InsertIndex
  <2>2. /\ offset[r] \in Bytes
        /\ \A q \in Records : pc[q] = "ok" => offset[q] \in Bytes /\ offset[q] # offset[r]
    BY <2>1, OffsetsApart DEF Reserved
  <2>3. /\ \A at \in Bytes : index'[at] = IF at = offset[r] THEN num[r] ELSE index[at]
        /\ \A q \in Records : pc'[q] = IF q = r THEN "ok" ELSE pc[q]
    BY <2>1, <2>2 DEF TypeOK
  <2> QED
    BY <2>1, <2>2, <2>3 DEF IndexOfAcked
<1>5. ASSUME NEW t \in Readers, ReadNext(t)  PROVE IndexOfAcked'
  BY <1>1, <1>5 DEF ReadNext, ReadLoad, ReadByNum, ReadSlice, appendVars
<1>6. ASSUME UNCHANGED vars  PROVE IndexOfAcked'
  BY <1>1, <1>6 DEF vars
<1> QED
  BY <1>2, <1>3, <1>4, <1>5, <1>6 DEF Next, AppendNext

(* record_count hands out the numbers 0, 1, 2, ... without gap or           *)
(* repetition to concurrent appends, and the index entry with the number of *)
(* an acknowledged record is the one at its offset.                         *)
THEOREM SegmentNumbersAndIndex == Spec => []NumbersAndIndexAgree
<1>1. Init => NumbersDense /\ IndexOfAcked
  <2> SUFFICES ASSUME Init  PROVE NumbersDense /\ IndexOfAcked
    OBVIOUS
  <2>1. Counted = {} /\ record_count = 0
    BY DEF Init, Counted
  <2> QED
    BY <2>1, FS_EmptySet DEF Init, NumbersDense, IndexOfAcked
<1>2. TypeOK /\ FrontierInv /\ NumbersDense /\ IndexOfAcked /\ [Next]_vars
        => (NumbersDense /\ IndexOfAcked)'
  BY NumbersStep, IndexStep
<1>3. TypeOK /\ FrontierInv /\ NumbersDense /\ IndexOfAcked => NumbersAndIndexAgree
  <2> SUFFICES ASSUME TypeOK, FrontierInv, NumbersDense, IndexOfAcked  PROVE NumbersAndIndexAgree
    OBVIOUS
  <2>1. {num[r] : r \in Counted} = 0..(record_count - 1)
    BY DEF NumbersDense, TypeOK, Counted
  <2>2. ASSUME IndexEnabled, NEW r \in Records, pc[r] = "ok"
        PROVE  {at \in Bytes : index[at] = num[r]} = {offset[r]}
    <3>1. offset[r] \in Bytes /\ index[offset[r]] = num[r]
      BY <2>2, OffsetsApart DEF Reserved, IndexOfAcked
    <3>2. ASSUME NEW at \in Bytes, index[at] = num[r]  PROVE at = offset[r]
      <4>1. index[at] # NotIndexed
        BY <3>2 DEF TypeOK, NotIndexed
      <4>2. PICK q \in Records : pc[q] = "ok" /\ offset[q] = at /\ num[q] = num[r]
        BY <3>2, <4>1 DEF IndexOfAcked
      <4> QED
        BY <2>2, <4>2 DEF NumbersDense, Counted
    <3> QED
      BY <3>1, <3>2
  <2> QED
    BY <2>1, <2>2 DEF NumbersAndIndexAgree, NumbersDense, Counted
<1> QED
  BY <1>1, <1>2, <1>3, SegmentInvariant, PTL DEF Spec
=============================================================================
