--------------------------- MODULE ManagerProofs ---------------------------
(***************************************************************************)
(* Proofs about segment rotation with records of one size: the inductive   *)
(* invariant and that a segment is given up only when it is full.          *)
(***************************************************************************)
EXTENDS UniformManager, FiniteSetTheorems, TLAPS

(* Every record has the size Unit, a positive number.                      *)
LEMMA UnitSize ==
  /\ Unit \in Nat /\ Unit > 0 /\ SegmentSize \in Nat
  /\ \A r \in Records : Size[r] = Unit
BY ManagerAssumption, UniformAssumption DEF Unit

(* The sets that the invariant counts are finite.                          *)
LEMMA Counts ==
  ASSUME NEW s
  PROVE  /\ IsFiniteSet(PlacedIn(s)) /\ Cardinality(PlacedIn(s)) \in Nat
         /\ IsFiniteSet(PendingIn(s)) /\ Cardinality(PendingIn(s)) \in Nat
         /\ Cardinality(PendingIn(s)) = 0 <=> PendingIn(s) = {}
         /\ Used(s) \in Nat
<1>1. IsFiniteSet(PlacedIn(s)) /\ IsFiniteSet(PendingIn(s))
  BY ManagerAssumption, FS_Subset DEF PlacedIn, PendingIn
<1>2. Cardinality(PlacedIn(s)) \in Nat
  BY <1>1, FS_CardinalityType
<1>3. Used(s) \in Nat
  BY <1>2, UnitSize DEF Used
<1> QED
  BY <1>1, <1>2, <1>3, FS_CardinalityType, FS_EmptySet

(* has_space is exact: write_pos may include bytes about to be given back, *)
(* but only in a segment that is full.                                     *)
LEMMA HasSpaceExact ==
  ASSUME ManagerInv, NEW s \in 1..Current, NEW r \in Records
  PROVE  /\ HasSpace(s, r) => PendingIn(s) = {} /\ ~ Full(s) /\ write_pos[s] = Used(s)
         /\ ~ HasSpace(s, r) => Full(s)
<1> USE UnitSize, Counts
<1>1. write_pos[s] = Used(s) + Unit * Cardinality(PendingIn(s))
  BY DEF ManagerInv
<1>2. CASE PendingIn(s) = {}
  <2>1. Unit * Cardinality(PendingIn(s)) = 0 /\ Used(s) \in Nat
    <3>1. Cardinality(PendingIn(s)) = 0
      BY <1>2
    <3> QED
      BY <3>1
  <2>2. write_pos[s] = Used(s)
    BY <1>1, <2>1
  <2> QED
    BY <1>2, <2>2 DEF HasSpace, Full
<1>3. CASE PendingIn(s) # {}
  <2>1. Full(s)
    BY <1>3 DEF ManagerInv
  <2>2. Unit * Cardinality(PendingIn(s)) >= Unit
    BY <1>3
  <2> QED
    BY <1>1, <2>1, <2>2 DEF HasSpace, Full
<1> QED
  BY <1>2, <1>3

-----------------------------------------------------------------------------
(* A step that neither places a record nor changes a segment keeps what    *)
(* the invariant says of the segments.                                     *)
LEMMA QuietSegments ==
  ASSUME ManagerInv, UNCHANGED <<write_pos, placed>>,
         \A s \in 1..Current : PendingIn(s)' = PendingIn(s)
  PROVE  /\ Current' = Current
         /\ \A s \in 1..Current :
              /\ Used(s)' = Used(s) /\ (Full(s)' <=> Full(s))
              /\ write_pos'[s] = Used(s)' + Unit * Cardinality(PendingIn(s)')
              /\ Used(s)' <= SegmentSize
              /\ PendingIn(s)' # {} => Full(s)'
         /\ RolloverOnlyWhenFull'
<1>1. Current' = Current
  BY DEF Current
<1>2. \A s : Used(s)' = Used(s) /\ (Full(s)' <=> Full(s))
  BY DEF Used, Full, PlacedIn
<1> QED
  BY <1>1, <1>2 DEF ManagerInv, RolloverOnlyWhenFull

LEMMA TypeStep ==
  ASSUME TypeOK, ManagerInv, [Next]_vars
  PROVE  TypeOK'
<1> USE ManagerAssumption
<1>1. ASSUME NEW r \in Records, Step(r)  PROVE TypeOK'
  <2>1. CASE Check(r)
    <3>1. Current \in Nat
      BY DEF Current, TypeOK
    <3>2. segment' \in [Records -> Nat]
      BY <2>1, <3>1 DEF Check, TypeOK
    <3> QED
      BY <2>1, <3>2 DEF Check, TypeOK, PCs
  <2>2. CASE TryAppend(r)
    <3>1. segment[r] \in 1..Len(write_pos)
      BY <2>2 DEF TryAppend, ManagerInv, Current
    <3>2. write_pos[segment[r]] + Size[r] \in Nat
      BY <3>1 DEF TypeOK
    <3>3. write_pos' \in Seq(Nat)
      BY <2>2, <3>1, <3>2 DEF TryAppend, TypeOK
    <3> QED
      BY <2>2, <3>1, <3>3 DEF TryAppend, TypeOK, PCs, GivingBack, Returned
  <2>3. CASE Rollback(r)
    <3> DEFINE s == segment[r]
    <3>1. s \in 1..Current /\ r \in PendingIn(s)
      BY <2>3 DEF Rollback, ManagerInv, PendingIn
    <3>2. write_pos[s] = Used(s) + Unit * Cardinality(PendingIn(s))
      BY <3>1 DEF ManagerInv
    <3>3. Cardinality(PendingIn(s)) \in Nat \ {0}
      BY <3>1, Counts
    <3>4. Unit * Cardinality(PendingIn(s)) >= Unit
      BY <3>3, UnitSize
    <3>5. write_pos[s] - Unit \in Nat
      <4>1. write_pos[s] \in Nat
        BY <3>1 DEF TypeOK, Current
      <4>2. Used(s) \in Nat /\ Unit * Cardinality(PendingIn(s)) \in Nat
        BY <3>3, Counts, UnitSize
      <4> QED
        BY <3>2, <3>4, <4>1, <4>2, UnitSize
    <3>6. s \in 1..Len(write_pos)
      BY <3>1 DEF Current
    <3>7. write_pos' \in Seq(Nat)
      BY <2>3, <3>5, <3>6, UnitSize DEF Rollback, TypeOK
    <3> QED
      BY <2>3, <3>7 DEF Rollback, TypeOK, PCs, GivingBack, Returned
  <2>4. CASE Lock(r)
    BY <2>4 DEF Lock, TypeOK, PCs, GivingBack, Returned
  <2>5. CASE Recheck(r)
    BY <2>5 DEF Recheck, TypeOK, PCs, GivingBack, Returned
  <2>6. CASE Create(r)
    BY <2>6 DEF Create, TypeOK, PCs, GivingBack, Returned
  <2>7. CASE CreateFails(r)
    BY <2>7 DEF CreateFails, TypeOK, PCs, GivingBack, Returned
  <2> QED
    BY <1>1, <2>1, <2>2, <2>3, <2>4, <2>5, <2>6, <2>7 DEF Step
<1>2. ASSUME UNCHANGED vars  PROVE TypeOK'
  BY <1>2 DEF vars, TypeOK
<1> QED
  BY <1>1, <1>2 DEF Next, AllReturned

(* Placing a record in a segment that has room.                            *)
LEMMA PlaceStep ==
  ASSUME TypeOK, ManagerInv, NEW r \in Records, TryAppend(r), HasSpace(segment[r], r)
  PROVE  ManagerInv'
<1> USE UnitSize, Counts
<1>0. PICK s \in 1..Current : s = segment[r]
  BY DEF TryAppend, ManagerInv
<1>1. placed[r] = 0 /\ s \in 1..Len(write_pos)
  BY DEF TryAppend, ManagerInv, Current
<1>2. /\ write_pos' = [write_pos EXCEPT ![s] = write_pos[s] + Unit]
      /\ placed' = [placed EXCEPT ![r] = s]
      /\ pc' = [pc EXCEPT ![r] = "ok"]
      /\ UNCHANGED <<lock, segment>>
  BY <1>0 DEF TryAppend
<1>3. Current' = Current
  BY <1>1, <1>2 DEF Current, TypeOK
<1>4. \A t : PendingIn(t)' = PendingIn(t)
  BY <1>2 DEF PendingIn, TypeOK, TryAppend, GivingBack
<1>5. PlacedIn(s)' = PlacedIn(s) \cup {r} /\ r \notin PlacedIn(s)
  BY <1>1, <1>2 DEF PlacedIn, TypeOK
<1>6. Used(s)' = Used(s) + Unit
  <2>1. Cardinality(PlacedIn(s)') = Cardinality(PlacedIn(s)) + 1
    BY <1>5, FS_AddElement
  <2>2. Unit * (Cardinality(PlacedIn(s)) + 1) = Unit * Cardinality(PlacedIn(s)) + Unit
    OBVIOUS
  <2> QED
    BY <2>1, <2>2 DEF Used
<1>7. \A t \in 1..Current : t # s => Used(t)' = Used(t) /\ (Full(t)' <=> Full(t))
  <2>1. \A t \in 1..Current : t # s => PlacedIn(t)' = PlacedIn(t)
    BY <1>1, <1>2 DEF PlacedIn, TypeOK
  <2> QED
    BY <2>1 DEF Used, Full
<1>8. Full(s) => Full(s)'
  BY <1>6 DEF Full
<1>9. PendingIn(s) = {} /\ write_pos[s] = Used(s) /\ Used(s) + Unit <= SegmentSize
  BY <1>0, HasSpaceExact DEF Full
<1>10. \A t \in 1..Current :
         /\ write_pos'[t] = Used(t)' + Unit * Cardinality(PendingIn(t)')
         /\ Used(t)' <= SegmentSize
         /\ PendingIn(t)' # {} => Full(t)'
  <2> TAKE t \in 1..Current
  <2>1. CASE t = s
    <3>1. write_pos'[s] = Used(s) + Unit
      BY <1>1, <1>2, <1>9 DEF TypeOK
    <3>2. PendingIn(s)' = {}
      BY <1>4, <1>9
    <3>3. Cardinality(PendingIn(s)') = 0 /\ Unit * Cardinality(PendingIn(s)') = 0
      BY <3>2, FS_EmptySet
    <3> QED
      BY <1>6, <1>9, <2>1, <3>1, <3>2, <3>3
  <2>2. CASE t # s
    <3>1. write_pos'[t] = write_pos[t]
      BY <1>2, <2>2 DEF TypeOK, Current
    <3> QED
      BY <1>4, <1>7, <2>2, <3>1 DEF ManagerInv
  <2> QED
    BY <2>1, <2>2
<1>11. RolloverOnlyWhenFull'
  <2>1. Current \in Nat /\ 1..(Current - 1) \subseteq 1..Current
    BY DEF Current, TypeOK
  <2>2. \A t \in 1..Current : Full(t) => Full(t)'
    BY <1>7, <1>8
  <2> QED
    BY <1>3, <2>1, <2>2 DEF RolloverOnlyWhenFull, ManagerInv
<1>12. \A q \in Records : pc'[q] = "create" => Full(Current)'
  <2>1. \A q \in Records : pc'[q] = "create" => Full(Current)
    BY <1>2 DEF ManagerInv, TypeOK
  <2>2. Current \in 1..Current
    BY DEF ManagerInv, Current, TypeOK
  <2>3. Full(Current) => Full(Current)'
    BY <1>3, <1>7, <1>8, <2>2
  <2> QED
    BY <2>1, <2>3
<1>13. \A q \in Records :
         /\ pc'[q] \in {"append"} \cup GivingBack => segment'[q] \in 1..Current
         /\ pc'[q] \in {"recheck", "create"} <=> lock' = q
         /\ placed'[q] \in 0..Current
         /\ placed'[q] # 0 <=> pc'[q] = "ok"
  <2> TAKE q \in Records
  <2>1. CASE q = r
    <3>1. pc[r] = "append" /\ pc'[r] = "ok" /\ placed'[r] = s
      BY <1>2 DEF TryAppend, TypeOK
    <3>2. lock' # r
      BY <1>2, <3>1 DEF ManagerInv
    <3> QED
      BY <1>0, <2>1, <3>1, <3>2 DEF GivingBack
  <2>2. CASE q # r
    <3>1. pc'[q] = pc[q] /\ segment'[q] = segment[q] /\ placed'[q] = placed[q] /\ lock' = lock
      BY <1>2, <2>2 DEF TypeOK
    <3> QED
      BY <3>1 DEF ManagerInv
  <2> QED
    BY <2>1, <2>2
<1> QED
  BY <1>3, <1>10, <1>11, <1>12, <1>13 DEF ManagerInv

(* The steps that move one call and touch no segment: what is left to show *)
(* for each is what the invariant says of the calls.                       *)
LEMMA QuietStep ==
  ASSUME TypeOK, ManagerInv, NEW r \in Records, UNCHANGED <<write_pos, placed>>,
         pc[r] \notin GivingBack \cup {"ok"}, NEW to \in PCs \ (GivingBack \cup {"ok"}),
         pc' = [pc EXCEPT ![r] = to],
         segment' = segment \/ segment' = [segment EXCEPT ![r] = Current],
         to = "append" => segment' = [segment EXCEPT ![r] = Current],
         to = "create" => Full(Current),
         \A q \in Records \ {r} : lock' = q <=> lock = q,
         lock' = r <=> to \in {"recheck", "create"}
  PROVE  ManagerInv'
<1>1. \A s \in 1..Current : PendingIn(s)' = PendingIn(s)
  BY DEF PendingIn, TypeOK
<1>2. Current \in 1..Current
  BY DEF ManagerInv, Current, TypeOK
<1>3. \A q \in Records :
        /\ pc'[q] \in {"append"} \cup GivingBack => segment'[q] \in 1..Current
        /\ pc'[q] \in {"recheck", "create"} <=> lock' = q
        /\ pc'[q] = "create" => Full(Current)
        /\ placed'[q] \in 0..Current
        /\ placed'[q] # 0 <=> pc'[q] = "ok"
  <2> TAKE q \in Records
  <2>1. CASE q = r
    BY <1>2, <2>1 DEF ManagerInv, TypeOK
  <2>2. CASE q # r
    <3>1. pc'[q] = pc[q] /\ segment'[q] = segment[q] /\ placed'[q] = placed[q]
      BY <2>2 DEF TypeOK
    <3> QED
      BY <2>2, <3>1 DEF ManagerInv
  <2> QED
    BY <2>1, <2>2
<1>4. /\ Current' = Current
      /\ \A s \in 1..Current :
           /\ Used(s)' = Used(s) /\ (Full(s)' <=> Full(s))
           /\ write_pos'[s] = Used(s)' + Unit * Cardinality(PendingIn(s)')
           /\ Used(s)' <= SegmentSize
           /\ PendingIn(s)' # {} => Full(s)'
      /\ RolloverOnlyWhenFull'
  BY <1>1, QuietSegments
<1>5. \A q \in Records : pc'[q] = "create" => Full(Current)'
  BY <1>2, <1>3, <1>4
<1> QED
  BY <1>3, <1>4, <1>5 DEF ManagerInv

(* A failed fetch_add and its fetch_sub add to and take from write_pos what *)
(* the set of outstanding rollbacks accounts for.                          *)
LEMMA PendingStep ==
  ASSUME TypeOK, ManagerInv, NEW r \in Records,
         (TryAppend(r) /\ ~ HasSpace(segment[r], r)) \/ Rollback(r)
  PROVE  ManagerInv'
<1> USE UnitSize, Counts
<1>0. PICK s \in 1..Current : s = segment[r]
  BY DEF TryAppend, Rollback, ManagerInv
<1>1. s \in 1..Len(write_pos) /\ write_pos[s] \in Nat
  BY DEF Current, TypeOK
<1>2. UNCHANGED <<lock, segment, placed>>
  BY DEF TryAppend, Rollback
<1>3. \A t : Used(t)' = Used(t) /\ (Full(t)' <=> Full(t))
  BY <1>2 DEF Used, Full, PlacedIn
<1>4. \A t \in 1..Current : t # s => PendingIn(t)' = PendingIn(t)
  BY <1>0, <1>2 DEF PendingIn, TryAppend, Rollback, TypeOK
<1>5. /\ write_pos'[s] = Used(s) + Unit * Cardinality(PendingIn(s)')
      /\ PendingIn(s)' # {} => Full(s)
      /\ Current' = Current
      /\ \A t \in 1..Current : t # s => write_pos'[t] = write_pos[t]
  <2>1. CASE TryAppend(r) /\ ~ HasSpace(segment[r], r)
    <3>1. write_pos' = [write_pos EXCEPT ![s] = write_pos[s] + Unit]
      BY <1>0, <2>1 DEF TryAppend
    <3>2. PendingIn(s)' = PendingIn(s) \cup {r} /\ r \notin PendingIn(s)
      BY <1>0, <2>1 DEF TryAppend, PendingIn, TypeOK, GivingBack
    <3>3. Cardinality(PendingIn(s)') = Cardinality(PendingIn(s)) + 1
      BY <3>2, FS_AddElement
    <3>4. Unit * (Cardinality(PendingIn(s)) + 1) = Unit * Cardinality(PendingIn(s)) + Unit
      OBVIOUS
    <3>5. Full(s)
      BY <1>0, <2>1, HasSpaceExact
    <3>6. write_pos[s] = Used(s) + Unit * Cardinality(PendingIn(s))
      BY DEF ManagerInv
    <3>7. write_pos'[s] = write_pos[s] + Unit
      BY <1>1, <3>1 DEF TypeOK
    <3>8. Current' = Current /\ \A t \in 1..Current : t # s => write_pos'[t] = write_pos[t]
      BY <1>1, <3>1 DEF TypeOK, Current
    <3> QED
      BY <3>3, <3>4, <3>5, <3>6, <3>7, <3>8
  <2>2. CASE Rollback(r)
    <3>1. write_pos' = [write_pos EXCEPT ![s] = write_pos[s] - Unit]
      BY <1>0, <2>2 DEF Rollback
    <3>2. PendingIn(s)' = PendingIn(s) \ {r} /\ r \in PendingIn(s)
      BY <1>0, <2>2 DEF Rollback, PendingIn, TypeOK, GivingBack
    <3>3. Cardinality(PendingIn(s)') = Cardinality(PendingIn(s)) - 1
      BY <3>2, FS_RemoveElement
    <3>4. Unit * (Cardinality(PendingIn(s)) - 1) = Unit * Cardinality(PendingIn(s)) - Unit
      OBVIOUS
    <3>5. Full(s)
      BY <3>2 DEF ManagerInv
    <3>6. write_pos[s] = Used(s) + Unit * Cardinality(PendingIn(s))
      BY DEF ManagerInv
    <3>7. write_pos'[s] = write_pos[s] - Unit
      BY <1>1, <3>1 DEF TypeOK
    <3>8. Current' = Current /\ \A t \in 1..Current : t # s => write_pos'[t] = write_pos[t]
      BY <1>1, <3>1 DEF TypeOK, Current
    <3> QED
      BY <3>3, <3>4, <3>5, <3>6, <3>7, <3>8
  <2> QED
    BY <2>1, <2>2
<1>6. \A t \in 1..Current :
        /\ write_pos'[t] = Used(t)' + Unit * Cardinality(PendingIn(t)')
        /\ Used(t)' <= SegmentSize
        /\ PendingIn(t)' # {} => Full(t)'
  BY <1>3, <1>4, <1>5 DEF ManagerInv
<1>7. \A q \in Records :
        /\ pc'[q] \in {"append"} \cup GivingBack => segment'[q] \in 1..Current
        /\ pc'[q] \in {"recheck", "create"} <=> lock' = q
        /\ pc'[q] = "create" => Full(Current)
        /\ placed'[q] \in 0..Current
        /\ placed'[q] # 0 <=> pc'[q] = "ok"
  <2> TAKE q \in Records
  <2>1. CASE q = r
    <3>1. pc[r] \in {"append"} \cup GivingBack /\ pc'[r] \in GivingBack \cup {"lock", "panicked"}
      BY DEF TryAppend, Rollback, TypeOK, GivingBack
    <3>2. lock # r /\ placed[r] = 0
      BY <3>1 DEF ManagerInv, GivingBack
    <3> QED
      BY <1>0, <1>2, <2>1, <3>1, <3>2 DEF ManagerInv, GivingBack
  <2>2. CASE q # r
    <3>1. pc'[q] = pc[q]
      BY <2>2 DEF TryAppend, Rollback, TypeOK
    <3> QED
      BY <1>2, <3>1 DEF ManagerInv
  <2> QED
    BY <2>1, <2>2
<1>8. RolloverOnlyWhenFull' /\ (Full(Current) => Full(Current)')
  BY <1>3, <1>5 DEF ManagerInv, RolloverOnlyWhenFull
<1> QED
  BY <1>5, <1>6, <1>7, <1>8 DEF ManagerInv

(* The new segment is empty, and the one it replaces is full.              *)
LEMMA CreateStep ==
  ASSUME TypeOK, ManagerInv, NEW r \in Records, Create(r)
  PROVE  ManagerInv'
<1> USE UnitSize, Counts
<1>1. /\ write_pos' = Append(write_pos, 0) /\ lock' = NoOne
      /\ pc[r] = "create" /\ pc' = [pc EXCEPT ![r] = "check"]
      /\ UNCHANGED <<segment, placed>>
  BY DEF Create
<1>2. Current \in Nat /\ Current' = Current + 1 /\ lock = r /\ Full(Current)
  BY <1>1 DEF Current, TypeOK, ManagerInv
<1>3. \A s : PendingIn(s)' = PendingIn(s)
  BY <1>1 DEF PendingIn, TypeOK, GivingBack
<1>4. \A s : Used(s)' = Used(s) /\ (Full(s)' <=> Full(s))
  BY <1>1 DEF Used, Full, PlacedIn
<1>5. \A s \in 1..Current : write_pos'[s] = write_pos[s]
  BY <1>1 DEF Current, TypeOK
<1>6. write_pos'[Current + 1] = 0 /\ PendingIn(Current + 1) = {} /\ Used(Current + 1) = 0
  <2>1. write_pos'[Current + 1] = 0
    BY <1>1 DEF Current, TypeOK
  <2>2. PlacedIn(Current + 1) = {} /\ PendingIn(Current + 1) = {}
    BY <1>2 DEF PlacedIn, PendingIn, ManagerInv
  <2>3. Used(Current + 1) = 0
    BY <2>2, FS_EmptySet DEF Used
  <2> QED
    BY <2>1, <2>2, <2>3
<1>7. \A s \in 1..Current' :
        /\ write_pos'[s] = Used(s)' + Unit * Cardinality(PendingIn(s)')
        /\ Used(s)' <= SegmentSize
        /\ PendingIn(s)' # {} => Full(s)'
  <2> TAKE s \in 1..Current'
  <2>1. CASE s \in 1..Current
    BY <1>3, <1>4, <1>5, <2>1 DEF ManagerInv
  <2>2. CASE s = Current + 1
    <3>1. Unit * Cardinality(PendingIn(s)') = 0 /\ PendingIn(s)' = {}
      BY <1>3, <1>6, <2>2, FS_EmptySet
    <3> QED
      BY <1>4, <1>6, <2>2, <3>1
  <2> QED
    BY <1>2, <2>1, <2>2
<1>8. \A q \in Records :
        /\ pc'[q] \in {"append"} \cup GivingBack => segment'[q] \in 1..Current'
        /\ pc'[q] \notin {"recheck", "create"} /\ lock' # q
        /\ placed'[q] \in 0..Current'
        /\ placed'[q] # 0 <=> pc'[q] = "ok"
  <2> TAKE q \in Records
  <2>1. pc'[q] \notin {"recheck", "create"} /\ lock' # q
    BY <1>1, <1>2, ManagerAssumption DEF ManagerInv, TypeOK
  <2>2. placed'[q] # 0 <=> pc'[q] = "ok"
    BY <1>1 DEF ManagerInv, TypeOK
  <2>3. /\ pc'[q] \in {"append"} \cup GivingBack => segment'[q] \in 1..Current
        /\ placed'[q] \in 0..Current
    BY <1>1 DEF ManagerInv, TypeOK, GivingBack
  <2> QED
    BY <1>2, <2>1, <2>2, <2>3
<1>9. RolloverOnlyWhenFull'
  <2>1. \A s \in 1..(Current - 1) : Full(s)
    BY DEF ManagerInv, RolloverOnlyWhenFull
  <2>2. \A s \in 1..(Current' - 1) : s = Current \/ s \in 1..(Current - 1)
    BY <1>2
  <2> QED
    BY <1>2, <1>4, <2>1, <2>2 DEF RolloverOnlyWhenFull
<1> QED
  BY <1>2, <1>7, <1>8, <1>9 DEF ManagerInv

LEMMA ManagerStep ==
  ASSUME TypeOK, ManagerInv, [Next]_vars
  PROVE  ManagerInv'
<1>1. ASSUME NEW r \in Records, Step(r)  PROVE ManagerInv'
  <2>0. Current \in 1..Current
    BY DEF ManagerInv, Current, TypeOK
  <2>1. CASE Check(r)
    <3>1. pc[r] = "check" /\ lock # r
      BY <2>1 DEF Check, ManagerInv
    <3> QED
      BY <2>1, <3>1, QuietStep DEF Check, PCs, GivingBack, Returned
  <2>2. CASE TryAppend(r)
    BY <2>2, PlaceStep, PendingStep
  <2>3. CASE Rollback(r)
    BY <2>3, PendingStep
  <2>4. CASE Lock(r)
    <3>1. lock = NoOne /\ NoOne \notin Records
      BY <2>4, ManagerAssumption DEF Lock
    <3> QED
      BY <2>4, <3>1, QuietStep DEF Lock, PCs, GivingBack, Returned
  <2>5. CASE Recheck(r)
    <3>1. lock = r /\ NoOne \notin Records
      BY <2>5, ManagerAssumption DEF Recheck, ManagerInv
    <3>2. ~ HasSpace(Current, r) => Full(Current)
      BY <2>0, HasSpaceExact
    <3> QED
      BY <2>5, <3>1, <3>2, QuietStep DEF Recheck, PCs, GivingBack, Returned
  <2>6. CASE Create(r)
    BY <2>6, CreateStep
  <2>7. CASE CreateFails(r)
    <3>1. lock = r /\ NoOne \notin Records
      BY <2>7, ManagerAssumption DEF CreateFails, ManagerInv
    <3> QED
      BY <2>7, <3>1, QuietStep DEF CreateFails, PCs, GivingBack, Returned
  <2> QED
    BY <1>1, <2>1, <2>2, <2>3, <2>4, <2>5, <2>6, <2>7 DEF Step
<1>2. ASSUME UNCHANGED vars  PROVE ManagerInv'
  <2>1. \A s \in 1..Current : PendingIn(s)' = PendingIn(s)
    BY <1>2 DEF vars, PendingIn
  <2> QED
    BY <1>2, <2>1, QuietSegments DEF vars, ManagerInv, Full, Used, PlacedIn, Current
<1> QED
  BY <1>1, <1>2 DEF Next, AllReturned

(* Types and the rotation invariant hold in every reachable state, for any *)
(* number of concurrent append_record calls and any segment and record size. *)
THEOREM ManagerInvariant == Spec => [](TypeOK /\ ManagerInv)
<1>1. Init => TypeOK /\ ManagerInv
  <2> SUFFICES ASSUME Init  PROVE TypeOK /\ ManagerInv
    OBVIOUS
  <2> USE ManagerAssumption, UnitSize
  <2>1. TypeOK
    BY DEF Init, TypeOK, PCs, GivingBack, Returned
  <2>2. Current = 1 /\ write_pos[1] = 0
    BY DEF Init, Current
  <2>3. PlacedIn(1) = {} /\ PendingIn(1) = {}
    BY DEF Init, PlacedIn, PendingIn
  <2>4. Used(1) = 0 /\ Cardinality(PendingIn(1)) = 0
    <3>1. Cardinality(PlacedIn(1)) = 0 /\ Cardinality(PendingIn(1)) = 0
      BY <2>3, FS_EmptySet
    <3> QED
      BY <3>1 DEF Used
  <2>5. \A s \in 1..Current :
          /\ write_pos[s] = Used(s) + Unit * Cardinality(PendingIn(s))
          /\ Used(s) <= SegmentSize
          /\ PendingIn(s) # {} => Full(s)
    BY <2>2, <2>3, <2>4
  <2>6. \A r \in Records : pc[r] = "check" /\ placed[r] = 0 /\ lock # r
    BY DEF Init
  <2>7. RolloverOnlyWhenFull
    BY <2>2 DEF RolloverOnlyWhenFull
  <2> QED
    BY <2>1, <2>2, <2>5, <2>6, <2>7 DEF ManagerInv, GivingBack
<1>2. TypeOK /\ ManagerInv /\ [Next]_vars => (TypeOK /\ ManagerInv)'
  BY TypeStep, ManagerStep
<1> QED
  BY <1>1, <1>2, PTL DEF Spec

(* With records of one size, append_record never gives up a segment that   *)
(* could take another record, so the segment count is minimal: the failed  *)
(* reservations that has_space may count never make it rotate too early,   *)
(* and double-checked locking never creates a segment twice.               *)
THEOREM ManagerRollover == Spec => []RolloverOnlyWhenFull
<1>1. ManagerInv => RolloverOnlyWhenFull
  BY DEF ManagerInv
<1> QED
  BY <1>1, ManagerInvariant, PTL

-----------------------------------------------------------------------------
(* NoSegmentWasted, for records of several sizes that fit a segment: from  *)
(* here on nothing uses UniformAssumption.  A write_pos that is not zero stands for a record in *)
(* the segment, whoever else is about to roll back: the append that failed *)
(* found the segment in use.                                               *)
UsedSegments ==
  /\ write_pos \in Seq(Int)
  /\ pc \in [Records -> PCs] /\ placed \in [Records -> Nat] /\ segment \in [Records -> Nat]
  /\ Current >= 1 /\ Current <= Cardinality(Records)
  /\ \A s \in 1..Current : write_pos[s] > 0 => PlacedIn(s) # {}
  /\ \A s \in 1..(Current - 1) : PlacedIn(s) # {}

CallsInOrder ==
  \A r \in Records :
    /\ pc[r] \in {"append"} \cup GivingBack => segment[r] \in 1..Current
    /\ pc[r] \in {"recheck", "create"} <=> lock = r
    /\ pc[r] = "create" => PlacedIn(Current) # {}
    /\ placed[r] # 0 => pc[r] = "ok"

(* A segment without room for a record that an empty one would hold is in use. *)
LEMMA NoSpaceMeansUsed ==
  ASSUME RecordsFit, UsedSegments, NEW s \in 1..Current, NEW r \in Records, ~ HasSpace(s, r)
  PROVE  PlacedIn(s) # {}
<1>1. write_pos[s] \in Int /\ Size[r] <= SegmentSize /\ Size[r] \in Int /\ SegmentSize \in Int
  BY ManagerAssumption DEF UsedSegments, Current, RecordsFit
<1>2. write_pos[s] > 0
  BY <1>1 DEF HasSpace
<1> QED
  BY <1>2 DEF UsedSegments

(* Every segment holds a record other than r: there is a record for one more. *)
LEMMA SegmentsCounted ==
  ASSUME UsedSegments, NEW r \in Records, placed[r] = 0, \A s \in 1..Current : PlacedIn(s) # {}
  PROVE  Current + 1 <= Cardinality(Records)
<1> DEFINE S == {q \in Records : placed[q] \in 1..Current}
           f == [q \in S |-> placed[q]]
<1>0. Current \in Nat /\ IsFiniteSet(Records)
  BY ManagerAssumption DEF UsedSegments, Current
<1>1. f \in Surjection(S, 1..Current)
  <2>1. f \in [S -> 1..Current]
    OBVIOUS
  <2>2. \A s \in 1..Current : \E q \in S : f[q] = s
    BY DEF PlacedIn
  <2> QED
    BY <2>1, <2>2 DEF Surjection
<1>2. IsFiniteSet(S) /\ S \subseteq Records \ {r}
  BY <1>0, FS_Subset
<1>3. Cardinality(1..Current) <= Cardinality(S)
  BY <1>1, <1>2, FS_Surjection
<1>4. Cardinality(1..Current) = Current
  BY <1>0, FS_Interval
<1>5. /\ IsFiniteSet(Records \ {r})
      /\ Cardinality(Records \ {r}) = Cardinality(Records) - 1
  BY <1>0, FS_RemoveElement
<1>6. Cardinality(S) <= Cardinality(Records \ {r})
  BY <1>2, <1>5, FS_Subset
<1>7. Cardinality(S) \in Nat /\ Cardinality(Records) \in Nat
  BY <1>0, <1>2, FS_CardinalityType
<1> QED
  BY <1>0, <1>3, <1>4, <1>5, <1>6, <1>7

LEMMA WasteStep ==
  ASSUME RecordsFit, UsedSegments, CallsInOrder, [Next]_vars
  PROVE  UsedSegments' /\ CallsInOrder'
<1> USE ManagerAssumption
<1>0. /\ write_pos \in Seq(Int) /\ pc \in [Records -> PCs] /\ placed \in [Records -> Nat]
      /\ segment \in [Records -> Nat] /\ Current \in Nat /\ Current \in 1..Current
      /\ Current = Len(write_pos) /\ DOMAIN write_pos = 1..Current
      /\ \A q \in Records : Size[q] \in Int
  BY DEF UsedSegments, Current
(* The steps that place nothing and touch no segment *)
<1>1. ASSUME NEW r \in Records, UNCHANGED <<write_pos, placed>>, NEW to \in PCs \ (GivingBack \cup {"ok"}),
             pc' = [pc EXCEPT ![r] = to], pc[r] # "ok",
             segment' = segment \/ segment' = [segment EXCEPT ![r] = Current],
             to = "append" => segment' = [segment EXCEPT ![r] = Current],
             to = "create" => PlacedIn(Current) # {},
             \A q \in Records \ {r} : lock' = q <=> lock = q,
             lock' = r <=> to \in {"recheck", "create"}
      PROVE  UsedSegments' /\ CallsInOrder'
  <2>1. Current' = Current /\ \A s : PlacedIn(s)' = PlacedIn(s)
    BY <1>1 DEF Current, PlacedIn
  <2>2. PlacedIn(Current)' = PlacedIn(Current)
    BY <1>1, <2>1 DEF PlacedIn
  <2>3. UsedSegments'
    <3>0. to \in PCs /\ pc' = [pc EXCEPT ![r] = to] /\ pc \in [Records -> PCs]
          /\ segment \in [Records -> Nat] /\ Current \in Nat
      BY <1>0, <1>1
    <3>1. pc' \in [Records -> PCs]
      BY <3>0
    <3>2. segment' \in [Records -> Nat]
      BY <1>1, <3>0
    <3> QED
      BY <1>1, <2>1, <3>1, <3>2 DEF UsedSegments
  <2>4. \A q \in Records : q # r => pc'[q] = pc[q] /\ segment'[q] = segment[q]
    BY <1>0, <1>1
  <2>5. pc'[r] = to /\ (to = "append" => segment'[r] = Current)
    BY <1>0, <1>1
  <2>6. ASSUME NEW q \in Records
        PROVE  /\ pc'[q] \in {"append"} \cup GivingBack => segment'[q] \in 1..Current
               /\ pc'[q] \in {"recheck", "create"} <=> lock' = q
               /\ pc'[q] = "create" => PlacedIn(Current) # {}
               /\ placed[q] # 0 => pc'[q] = "ok"
    <3>1. CASE q = r
      BY <1>0, <1>1, <2>5, <3>1 DEF CallsInOrder
    <3>2. CASE q # r
      BY <1>1, <2>4, <3>2 DEF CallsInOrder
    <3> QED
      BY <3>1, <3>2
  <2>7. CallsInOrder'
    BY <1>1, <2>1, <2>2, <2>6 DEF CallsInOrder
  <2> QED
    BY <2>3, <2>7
<1>2. ASSUME NEW r \in Records, Check(r)  PROVE UsedSegments' /\ CallsInOrder'
  <2>1. lock # r /\ lock' = lock
    BY <1>2 DEF Check, CallsInOrder
  <2> QED
    BY <1>1, <1>2, <2>1 DEF Check, PCs, GivingBack, Returned
<1>3. ASSUME NEW r \in Records, Lock(r)  PROVE UsedSegments' /\ CallsInOrder'
  BY <1>1, <1>3 DEF Lock, PCs, GivingBack, Returned
<1>4. ASSUME NEW r \in Records, Recheck(r)  PROVE UsedSegments' /\ CallsInOrder'
  <2>1. lock = r
    BY <1>4 DEF Recheck, CallsInOrder
  <2>2. ~ HasSpace(Current, r) => PlacedIn(Current) # {}
    BY <1>0, NoSpaceMeansUsed
  <2> QED
    BY <1>1, <1>4, <2>1, <2>2 DEF Recheck, PCs, GivingBack, Returned
<1>5. ASSUME NEW r \in Records, CreateFails(r)  PROVE UsedSegments' /\ CallsInOrder'
  <2>1. lock = r
    BY <1>5 DEF CreateFails, CallsInOrder
  <2> QED
    BY <1>1, <1>5, <2>1 DEF CreateFails, PCs, GivingBack, Returned
<1>6. ASSUME NEW r \in Records, TryAppend(r) \/ Rollback(r)  PROVE UsedSegments' /\ CallsInOrder'
  <2>1. PICK s \in 1..Current : s = segment[r]
    BY <1>6 DEF TryAppend, Rollback, CallsInOrder
  <2>2. /\ pc[r] \in {"append"} \cup GivingBack /\ placed[r] = 0 /\ lock # r
        /\ UNCHANGED <<lock, segment>> /\ pc'[r] \in GivingBack \cup {"ok", "lock", "panicked"}
        /\ \A q \in Records : q # r => pc'[q] = pc[q] /\ placed'[q] = placed[q]
    <3>1. /\ pc[r] \in {"append"} \cup GivingBack /\ placed[r] = 0 /\ lock # r
      BY <1>0, <1>6 DEF TryAppend, Rollback, CallsInOrder, GivingBack
    <3>2. PICK p \in GivingBack \cup {"ok", "lock", "panicked"} : pc' = [pc EXCEPT ![r] = p]
      BY <1>6 DEF TryAppend, Rollback, GivingBack
    <3>3. /\ UNCHANGED <<lock, segment>>
          /\ \A q \in Records : q # r => placed'[q] = placed[q]
      BY <1>0, <1>6 DEF TryAppend, Rollback
    <3> QED
      BY <1>0, <3>1, <3>2, <3>3
  <2>3. /\ write_pos' \in Seq(Int) /\ Current' = Current
        /\ \A t \in 1..Current : t # s => write_pos'[t] = write_pos[t]
    <3>1. PICK n \in Int : write_pos' = [write_pos EXCEPT ![s] = n]
      BY <1>0, <1>6, <2>1 DEF TryAppend, Rollback
    <3> QED
      BY <1>0, <3>1 DEF Current
  <2>4. \A t \in 1..Current : PlacedIn(t) # {} => PlacedIn(t)' # {}
    BY <2>2 DEF PlacedIn
  <2>5. /\ pc' \in [Records -> PCs] /\ placed' \in [Records -> Nat]
        /\ placed'[r] # 0 => pc'[r] = "ok"
        /\ write_pos'[s] > 0 => PlacedIn(s)' # {}
    <3>1. CASE TryAppend(r) /\ HasSpace(s, r)
      <4>1. placed' = [placed EXCEPT ![r] = s] /\ pc' = [pc EXCEPT ![r] = "ok"]
        BY <2>1, <3>1 DEF TryAppend
      <4> QED
        BY <1>0, <4>1 DEF PlacedIn, PCs, GivingBack, Returned
    <3>2. CASE TryAppend(r) /\ ~ HasSpace(s, r)
      <4>1. placed' = placed /\ \E p \in GivingBack : pc' = [pc EXCEPT ![r] = p]
        BY <2>1, <3>2 DEF TryAppend, GivingBack
      <4>2. PlacedIn(s) # {}
        BY <3>2, NoSpaceMeansUsed
      <4> QED
        BY <1>0, <2>2, <2>4, <4>1, <4>2 DEF PCs, GivingBack, Returned
    <3>3. CASE Rollback(r)
      <4>1. /\ placed' = placed /\ \E p \in {"lock", "panicked"} : pc' = [pc EXCEPT ![r] = p]
            /\ write_pos' = [write_pos EXCEPT ![s] = write_pos[s] - Size[r]]
        BY <2>1, <3>3 DEF Rollback
      <4>2. write_pos'[s] > 0 => write_pos[s] > 0
        <5>1. write_pos'[s] = write_pos[s] - Size[r] /\ write_pos[s] \in Int /\ Size[r] \in Nat
          BY <1>0, <4>1
        <5> QED
          BY <5>1
      <4> QED
        BY <1>0, <2>2, <2>4, <4>1, <4>2 DEF PCs, GivingBack, Returned, UsedSegments
    <3> QED
      BY <1>6, <3>1, <3>2, <3>3
  <2>6. UsedSegments'
    <3>1. \A t \in 1..(Current - 1) : t \in 1..Current
      BY <1>0
    <3>2. \A t \in 1..Current : write_pos'[t] > 0 => PlacedIn(t)' # {}
      BY <2>3, <2>4, <2>5 DEF UsedSegments
    <3> QED
      BY <2>2, <2>3, <2>4, <2>5, <3>1, <3>2 DEF UsedSegments
  <2>7. PlacedIn(Current) # {} => PlacedIn(Current)' # {}
    BY <2>2, <2>3 DEF PlacedIn
  <2>8. ASSUME NEW q \in Records
        PROVE  /\ pc'[q] \in {"append"} \cup GivingBack => segment'[q] \in 1..Current
               /\ pc'[q] \in {"recheck", "create"} <=> lock' = q
               /\ pc'[q] = "create" => PlacedIn(Current)' # {}
               /\ placed'[q] # 0 => pc'[q] = "ok"
    <3>1. CASE q = r
      BY <2>1, <2>2, <2>5, <3>1 DEF GivingBack
    <3>2. CASE q # r
      BY <2>2, <2>7, <3>2 DEF CallsInOrder
    <3> QED
      BY <3>1, <3>2
  <2>9. CallsInOrder'
    BY <2>3, <2>8 DEF CallsInOrder
  <2> QED
    BY <2>6, <2>9
<1>7. ASSUME NEW r \in Records, Create(r)  PROVE UsedSegments' /\ CallsInOrder'
  <2>1. /\ pc[r] = "create" /\ lock = r /\ placed[r] = 0 /\ PlacedIn(Current) # {}
        /\ write_pos' = Append(write_pos, 0) /\ lock' = NoOne /\ pc' = [pc EXCEPT ![r] = "check"]
        /\ UNCHANGED <<segment, placed>>
    BY <1>7 DEF Create, CallsInOrder
  <2>2. /\ write_pos' \in Seq(Int) /\ Current' = Current + 1 /\ write_pos'[Current + 1] = 0
        /\ \A s \in 1..Current : write_pos'[s] = write_pos[s]
    BY <1>0, <2>1 DEF Current
  <2>3. \A s : PlacedIn(s)' = PlacedIn(s)
    BY <2>1 DEF PlacedIn
  <2>4. \A s \in 1..Current : PlacedIn(s) # {}
    <3>1. \A s \in 1..Current : s = Current \/ s \in 1..(Current - 1)
      BY <1>0
    <3> QED
      BY <2>1, <3>1 DEF UsedSegments
  <2>5. Current + 1 <= Cardinality(Records)
    BY <2>1, <2>4, SegmentsCounted
  <2>6. \A s \in 1..(Current + 1) : write_pos'[s] > 0 => PlacedIn(s)' # {}
    <3>1. \A s \in 1..(Current + 1) : s = Current + 1 \/ s \in 1..Current
      BY <1>0
    <3> QED
      BY <2>2, <2>3, <2>4, <3>1
  <2>7. UsedSegments'
    <3>1. (Current + 1) - 1 = Current /\ Current + 1 >= 1
      BY <1>0
    <3> QED
      BY <1>0, <2>1, <2>2, <2>3, <2>4, <2>5, <2>6, <3>1 DEF UsedSegments, PCs, GivingBack, Returned
  <2>8. CallsInOrder'
    <3>1. \A q \in Records : q # r => pc'[q] = pc[q] /\ lock # q /\ pc[q] # "create" /\ pc[q] # "recheck"
      BY <1>0, <2>1 DEF CallsInOrder
    <3>2. pc'[r] = "check"
      BY <1>0, <2>1
    <3>3. \A n \in 1..Current : n \in 1..(Current + 1)
      BY <1>0
    <3> QED
      BY <2>1, <2>2, <3>1, <3>2, <3>3 DEF CallsInOrder, GivingBack
  <2> QED
    BY <2>7, <2>8
<1>8. CASE UNCHANGED vars
  BY <1>8 DEF vars, UsedSegments, CallsInOrder, Current, PlacedIn
<1> QED
  BY <1>2, <1>3, <1>4, <1>5, <1>6, <1>7, <1>8 DEF Next, Step, AllReturned

(* When every record fits into an empty segment, however their sizes differ *)
(* and however many calls of append_record find the current segment full at *)
(* the same time, double-checked locking leaves no segment empty behind and *)
(* creates at most one segment for each record.  Without RecordsFit this is *)
(* false: append_record then creates empty segments without end.            *)
THEOREM ManagerNoWaste ==
  ASSUME RecordsFit
  PROVE  Spec => []NoSegmentWasted
<1>1. Init => UsedSegments /\ CallsInOrder
  <2> SUFFICES ASSUME Init  PROVE UsedSegments /\ CallsInOrder
    OBVIOUS
  <2>1. Current = 1 /\ write_pos \in Seq(Int) /\ write_pos[1] = 0
    BY DEF Init, Current
  <2>2. Cardinality(Records) \in Nat /\ Cardinality(Records) # 0
    BY ManagerAssumption, FS_CardinalityType, FS_EmptySet
  <2>3. UsedSegments
    BY <2>1, <2>2 DEF Init, UsedSegments, PCs, GivingBack, Returned
  <2>4. CallsInOrder
    BY ManagerAssumption DEF Init, CallsInOrder, GivingBack
  <2> QED
    BY <2>3, <2>4
<1>2. UsedSegments /\ CallsInOrder /\ [Next]_vars => (UsedSegments /\ CallsInOrder)'
  BY WasteStep
<1>3. UsedSegments => NoSegmentWasted
  BY DEF UsedSegments, NoSegmentWasted
<1> QED
  BY <1>1, <1>2, <1>3, PTL DEF Spec
=============================================================================
