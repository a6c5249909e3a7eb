---------------------------- MODULE QueueProofs ----------------------------
(***************************************************************************)
(* Proofs about PersistQ, for records of any sizes, any number of          *)
(* partitions and concurrent appends, and with restarts: what was stored   *)
(* since the last restart stays intact, and global offsets are unique,     *)
(* dense and correctly mapped.                                             *)
(***************************************************************************)
EXTENDS PersistQ, TLAPS

(* StoredIntact is inductive together with the types and with the fact     *)
(* that a call only ever works on a segment that exists.                   *)
PlacesOK ==
  /\ \A p \in Partitions : Current(p) \in 1..MaxSegs
  /\ \A r \in Records : pc[r] = "append" => segment[r] \in 1..Current(Partition[r])

QueueInv == TypeOK /\ PlacesOK /\ StoredIntact

(* The state of one append that stores its record.                         *)
LEMMA StoreStep ==
  ASSUME QueueInv, NEW r \in Records, TryAppend(r),
         HasSpace(Partition[r], segment[r], r)
  PROVE  QueueInv'
<1> USE QueueAssumption
<1>0. PICK p \in Partitions : p = Partition[r]
  OBVIOUS
<1>1. PICK s \in 1..Current(p) : s = segment[r]
  BY <1>0 DEF QueueInv, PlacesOK, TryAppend
<1>2. PICK at \in 0..SegmentSize : at = write_pos[p][s]
  BY <1>1 DEF QueueInv, TypeOK, Current
<1>3. at + Size[r] <= SegmentSize /\ pc[r] = "append"
  BY <1>0, <1>1, <1>2 DEF HasSpace, TryAppend
<1>4. /\ write_pos' = [write_pos EXCEPT ![p] = [write_pos[p] EXCEPT ![s] = at + Size[r]]]
      /\ file' = [file EXCEPT ![p] = [file[p] EXCEPT ![s] =
           [b \in Bytes |-> IF b \in at..(at + Size[r] - 1) THEN r ELSE file[p][s][b]]]]
      /\ local' = [local EXCEPT ![r] = at]
      /\ pc' = [pc EXCEPT ![r] = "offset"]
      /\ UNCHANGED <<lock, segment, global_offset, offset_map, global, restarts>>
  BY <1>0, <1>1, <1>2 DEF TryAppend, queueVars
<1>5. s \in 1..MaxSegs /\ s \in 1..Len(write_pos[p])
  BY <1>1 DEF QueueInv, PlacesOK, Current, TypeOK
<1>6. /\ write_pos'[p] \in Seq(0..SegmentSize) /\ Len(write_pos'[p]) = Len(write_pos[p])
      /\ write_pos'[p][s] = at + Size[r]
      /\ \A t \in 1..Len(write_pos[p]) : t # s => write_pos'[p][t] = write_pos[p][t]
  <2>1. write_pos[p] \in Seq(0..SegmentSize) /\ at + Size[r] \in 0..SegmentSize
    BY <1>3 DEF QueueInv, TypeOK
  <2>2. write_pos'[p] = [write_pos[p] EXCEPT ![s] = at + Size[r]]
    BY <1>4 DEF QueueInv, TypeOK
  <2> QED
    BY <1>5, <2>1, <2>2
<1>7. \A o \in Partitions : o # p => write_pos'[o] = write_pos[o] /\ file'[o] = file[o]
  BY <1>4 DEF QueueInv, TypeOK
<1>8. /\ file'[p] \in [1..MaxSegs -> [Bytes -> Records \cup {Zero}]]
      /\ \A b \in Bytes : file'[p][s][b] =
           IF b \in at..(at + Size[r] - 1) THEN r ELSE file[p][s][b]
      /\ \A t \in 1..MaxSegs : t # s => file'[p][t] = file[p][t]
  BY <1>4, <1>5 DEF QueueInv, TypeOK
<1>9. TypeOK'
  <2>1. write_pos' \in [Partitions -> Seq(0..SegmentSize)]
    BY <1>4, <1>6, <1>7 DEF QueueInv, TypeOK
  <2>2. file' \in [Partitions -> [1..MaxSegs -> [Bytes -> Records \cup {Zero}]]]
    BY <1>4, <1>7, <1>8 DEF QueueInv, TypeOK
  <2>3. /\ lock' \in [Partitions -> Records \cup {NoOne}]
        /\ global_offset' \in Nat /\ restarts' \in 0..MaxRestarts
        /\ segment' \in [Records -> Nat] /\ global' \in [Records -> Nat]
    BY <1>4 DEF QueueInv, TypeOK
  <2>4. pc' \in [Records -> PCs] /\ local' \in [Records -> Nat]
    BY <1>4 DEF QueueInv, TypeOK, PCs
  <2>5. \A g \in DOMAIN offset_map' :
          g \in Nat /\ offset_map'[g] \in [partition_id : Partitions, local_offset : Nat]
    BY <1>4 DEF QueueInv, TypeOK
  <2> QED
    BY <2>1, <2>2, <2>3, <2>4, <2>5 DEF TypeOK
<1>10. \A o \in Partitions : Current(o)' = Current(o)
  BY <1>6, <1>7 DEF Current
<1>11. PlacesOK'
  BY <1>4, <1>10 DEF QueueInv, PlacesOK, TypeOK
<1>12. StoredIntact'
  <2> SUFFICES ASSUME NEW q \in Records, pc'[q] \in Stored
               PROVE  LET o == Partition[q]
                          t == segment'[q]
                      IN  /\ t \in 1..Current(o)'
                          /\ local'[q] + Size[q] <= write_pos'[o][t]
                          /\ \A b \in local'[q]..(local'[q] + Size[q] - 1) : file'[o][t][b] = q
    BY DEF StoredIntact, Span
  <2>1. CASE q = r
    <3>1. local'[r] = at /\ segment'[r] = s
      BY <1>1, <1>4 DEF QueueInv, TypeOK
    <3>2. \A b \in at..(at + Size[r] - 1) : b \in Bytes
      BY <1>3 DEF Bytes
    <3>3. s \in 1..Current(p)' /\ local'[r] + Size[r] <= write_pos'[p][s]
      BY <1>6, <1>10, <3>1
    <3>4. \A b \in local'[r]..(local'[r] + Size[r] - 1) : file'[p][s][b] = r
      BY <1>8, <3>1, <3>2
    <3> QED
      BY <1>0, <2>1, <3>1, <3>3, <3>4
  <2>2. CASE q # r
    <3>1. /\ pc[q] \in Stored /\ local'[q] = local[q] /\ segment'[q] = segment[q]
          /\ local[q] \in Nat
      BY <1>4, <2>2 DEF QueueInv, TypeOK
    <3> DEFINE o == Partition[q]
               t == segment[q]
    <3>2. /\ t \in 1..Current(o)
          /\ local[q] + Size[q] <= write_pos[o][t]
          /\ \A b \in local[q]..(local[q] + Size[q] - 1) : file[o][t][b] = q
      BY <3>1 DEF QueueInv, StoredIntact, Span
    <3>3. CASE o = p /\ t = s
      <4>1. local[q] + Size[q] <= at
        BY <1>2, <3>2, <3>3
      <4>2. \A b \in local[q]..(local[q] + Size[q] - 1) :
              b \in Bytes /\ b \notin at..(at + Size[r] - 1)
        BY <1>3, <3>1, <4>1 DEF Bytes
      <4>3. \A b \in local[q]..(local[q] + Size[q] - 1) : file'[p][s][b] = q
        BY <1>8, <3>2, <3>3, <4>2
      <4>4. local[q] + Size[q] <= write_pos'[p][s]
        BY <1>6, <3>1, <4>1
      <4> QED
        BY <1>10, <3>1, <3>2, <3>3, <4>3, <4>4
    <3>4. CASE o = p /\ t # s
      <4>1. t \in 1..MaxSegs /\ t \in 1..Len(write_pos[p])
        BY <3>2, <3>4 DEF QueueInv, PlacesOK, Current
      <4>2. write_pos'[p][t] = write_pos[p][t] /\ file'[p][t] = file[p][t]
        BY <1>6, <1>8, <3>4, <4>1
      <4> QED
        BY <1>10, <3>1, <3>2, <3>4, <4>2
    <3>5. CASE o # p
      BY <1>7, <1>10, <3>1, <3>2, <3>5
    <3> QED
      BY <3>3, <3>4, <3>5
  <2> QED
    BY <2>1, <2>2
<1> QED
  BY <1>9, <1>11, <1>12 DEF QueueInv

(* The steps of an append that leave the files and write positions alone.  *)
LEMMA QuietStep ==
  ASSUME QueueInv, TypeOK', UNCHANGED <<write_pos, file, local>>,
         \A r \in Records : pc'[r] \in Stored => pc[r] \in Stored /\ segment'[r] = segment[r],
         \A r \in Records : pc'[r] = "append" =>
           \/ pc[r] = "append" /\ segment'[r] = segment[r]
           \/ segment'[r] = Current(Partition[r])
  PROVE  QueueInv'
<1>1. \A p \in Partitions : Current(p)' = Current(p)
  BY DEF Current
<1>2. PlacesOK'
  BY <1>1, QueueAssumption DEF QueueInv, PlacesOK
<1>3. StoredIntact'
  BY <1>1, QueueAssumption DEF QueueInv, StoredIntact, Span
<1> QED
  BY <1>2, <1>3 DEF QueueInv

LEMMA CreateStep ==
  ASSUME QueueInv, NEW r \in Records, Create(r)
  PROVE  QueueInv'
<1> USE QueueAssumption
<1>0. PICK p \in Partitions : p = Partition[r]
  OBVIOUS
<1>1. /\ write_pos' = [write_pos EXCEPT ![p] = Append(write_pos[p], 0)]
      /\ lock' = [lock EXCEPT ![p] = NoOne]
      /\ pc' = [pc EXCEPT ![r] = "check"] /\ Current(p) < MaxSegs
      /\ UNCHANGED <<file, segment, local, global_offset, offset_map, global, restarts>>
  BY <1>0 DEF Create, Unlock, queueVars
<1>2. /\ write_pos'[p] = Append(write_pos[p], 0) /\ write_pos[p] \in Seq(0..SegmentSize)
      /\ \A o \in Partitions : o # p => write_pos'[o] = write_pos[o]
  BY <1>1 DEF QueueInv, TypeOK
<1>3. /\ write_pos'[p] \in Seq(0..SegmentSize) /\ Current(p)' = Current(p) + 1
      /\ \A t \in 1..Current(p) : write_pos'[p][t] = write_pos[p][t]
  BY <1>2 DEF Current
<1>4. \A o \in Partitions :
        /\ Current(o)' \in 1..MaxSegs
        /\ 1..Current(o) \subseteq 1..Current(o)'
        /\ \A t \in 1..Current(o) : write_pos'[o][t] = write_pos[o][t]
  <2> TAKE o \in Partitions
  <2>1. Current(o) \in 1..MaxSegs
    BY DEF QueueInv, PlacesOK
  <2>2. CASE o = p
    <3>1. Current(p) + 1 \in 1..MaxSegs /\ 1..Current(p) \subseteq 1..(Current(p) + 1)
      BY <1>1, <2>1, <2>2
    <3> QED
      BY <1>3, <2>2, <3>1
  <2>3. CASE o # p
    <3>1. write_pos'[o] = write_pos[o]
      BY <1>2, <2>3
    <3> QED
      BY <2>1, <3>1 DEF Current
  <2> QED
    BY <2>2, <2>3
<1>5. TypeOK'
  <2>1. write_pos' \in [Partitions -> Seq(0..SegmentSize)]
    BY <1>1, <1>2, <1>3 DEF QueueInv, TypeOK
  <2>2. pc' \in [Records -> PCs] /\ lock' \in [Partitions -> Records \cup {NoOne}]
    BY <1>1 DEF QueueInv, TypeOK, PCs
  <2> QED
    BY <1>1, <2>1, <2>2 DEF QueueInv, TypeOK
<1>6. \A q \in Records : pc'[q] \in Stored \cup {"append"} => pc'[q] = pc[q]
  BY <1>1 DEF QueueInv, TypeOK, Stored
<1>7. PlacesOK'
  BY <1>1, <1>4, <1>6 DEF QueueInv, PlacesOK
<1>8. StoredIntact'
  <2> SUFFICES ASSUME NEW q \in Records, pc'[q] \in Stored
               PROVE  /\ segment[q] \in 1..Current(Partition[q])'
                      /\ local[q] + Size[q] <= write_pos'[Partition[q]][segment[q]]
                      /\ \A b \in Span(q) : file[Partition[q]][segment[q]][b] = q
    BY <1>1 DEF StoredIntact, Span
  <2>1. /\ segment[q] \in 1..Current(Partition[q])
        /\ local[q] + Size[q] <= write_pos[Partition[q]][segment[q]]
        /\ \A b \in Span(q) : file[Partition[q]][segment[q]][b] = q
    BY <1>6 DEF QueueInv, StoredIntact
  <2> QED
    BY <1>4, <2>1
<1> QED
  BY <1>5, <1>7, <1>8 DEF QueueInv

LEMMA RestartStep ==
  ASSUME QueueInv, Restart
  PROVE  QueueInv'
<1> USE QueueAssumption
<1>1. \A r \in Records : pc'[r] \in PCs /\ pc'[r] \notin Stored \cup {"append"}
  BY DEF Restart, QueueInv, TypeOK, PCs, Stored
<1>2. pc' \in [Records -> PCs]
  BY <1>1 DEF Restart
<1>3. /\ write_pos' \in [Partitions -> Seq(0..SegmentSize)]
      /\ \A p \in Partitions : Current(p)' = 1
  BY DEF Restart, Current
<1>4. DOMAIN offset_map' = {}
  BY DEF Restart, NoMappings
<1>5. TypeOK'
  BY <1>2, <1>3, <1>4 DEF Restart, QueueInv, TypeOK
<1>6. PlacesOK' /\ StoredIntact'
  BY <1>1, <1>3 DEF PlacesOK, StoredIntact
<1> QED
  BY <1>5, <1>6 DEF QueueInv

LEMMA QueueStep ==
  ASSUME QueueInv, [Next]_vars
  PROVE  QueueInv'
<1> USE QueueAssumption
<1>1. ASSUME NEW r \in Records, Step(r)  PROVE QueueInv'
  <2>0. Partition[r] \in Partitions /\ Current(Partition[r]) \in Nat
    BY DEF QueueInv, PlacesOK
  <2>1. CASE Check(r)
    <3>1. /\ \/ /\ segment' = [segment EXCEPT ![r] = Current(Partition[r])]
                /\ pc' = [pc EXCEPT ![r] = "append"]
             \/ segment' = segment /\ pc' = [pc EXCEPT ![r] = "lock"]
          /\ UNCHANGED <<write_pos, file, lock, local, global_offset, offset_map, global, restarts>>
      BY <2>1 DEF Check, queueVars
    <3>2. segment' \in [Records -> Nat] /\ pc' \in [Records -> PCs]
      <4>1. segment \in [Records -> Nat] /\ pc \in [Records -> PCs]
        BY DEF QueueInv, TypeOK
      <4>2. "append" \in PCs /\ "lock" \in PCs
        BY DEF PCs
      <4> QED
        BY <2>0, <3>1, <4>1, <4>2
    <3>3. TypeOK'
      BY <3>1, <3>2 DEF QueueInv, TypeOK
    <3>4. \A q \in Records : pc'[q] \in Stored => pc[q] \in Stored /\ segment'[q] = segment[q]
      BY <3>1 DEF QueueInv, TypeOK, Stored
    <3>5. \A q \in Records : pc'[q] = "append" =>
            \/ pc[q] = "append" /\ segment'[q] = segment[q]
            \/ segment'[q] = Current(Partition[q])
      BY <3>1 DEF QueueInv, TypeOK
    <3> QED
      BY <3>1, <3>3, <3>4, <3>5, QuietStep
  <2>2. CASE TryAppend(r) /\ HasSpace(Partition[r], segment[r], r)
    BY <2>2, StoreStep
  <2>3. CASE TryAppend(r) /\ ~ HasSpace(Partition[r], segment[r], r)
    <3>1. pc' = [pc EXCEPT ![r] = "lock"]
          /\ UNCHANGED <<write_pos, file, lock, segment, local, queueVars>>
      BY <2>3 DEF TryAppend
    <3>2. TypeOK'
      BY <3>1 DEF queueVars, QueueInv, TypeOK, PCs
    <3> QED
      BY <3>1, <3>2, QuietStep DEF QueueInv, TypeOK, Stored
  <2>4. CASE Lock(r)
    <3>1. TypeOK'
      BY <2>4 DEF Lock, queueVars, QueueInv, TypeOK, PCs
    <3> QED
      BY <2>4, <3>1, QuietStep DEF Lock, QueueInv, TypeOK, Stored
  <2>5. CASE Recheck(r)
    <3>1. TypeOK'
      BY <2>5 DEF Recheck, Unlock, queueVars, QueueInv, TypeOK, PCs
    <3> QED
      BY <2>5, <3>1, QuietStep DEF Recheck, QueueInv, TypeOK, Stored
  <2>6. CASE Create(r)
    BY <2>6, CreateStep
  <2>7. CASE CreateFails(r)
    <3>1. TypeOK'
      BY <2>7 DEF CreateFails, Unlock, queueVars, QueueInv, TypeOK, PCs
    <3> QED
      BY <2>7, <3>1, QuietStep DEF CreateFails, QueueInv, TypeOK, Stored
  <2>8. CASE AssignOffset(r)
    <3>1. TypeOK'
      BY <2>8 DEF AssignOffset, QueueInv, TypeOK, PCs
    <3> QED
      BY <2>8, <3>1, QuietStep DEF AssignOffset, QueueInv, TypeOK, Stored
  <2>9. CASE InsertMapping(r)
    <3>1. \A g \in DOMAIN offset_map' :
            g \in Nat /\ offset_map'[g] \in [partition_id : Partitions, local_offset : Nat]
      BY <2>0, <2>9 DEF InsertMapping, Mapping, QueueInv, TypeOK
    <3>2. TypeOK'
      BY <2>9, <3>1 DEF InsertMapping, QueueInv, TypeOK, PCs
    <3> QED
      BY <2>9, <3>2, QuietStep DEF InsertMapping, QueueInv, TypeOK, Stored
  <2> QED
    BY <1>1, <2>1, <2>2, <2>3, <2>4, <2>5, <2>6, <2>7, <2>8, <2>9 DEF Step
<1>2. ASSUME UNCHANGED vars  PROVE QueueInv'
  <2>1. TypeOK'
    BY <1>2 DEF vars, QueueInv, TypeOK
  <2> QED
    BY <1>2, <2>1, QuietStep DEF vars
<1> QED
  BY <1>1, <1>2, RestartStep DEF Next, AllReturned

LEMMA QueueInvariant == Spec => []QueueInv
<1>1. Init => QueueInv
  <2> SUFFICES ASSUME Init  PROVE QueueInv
    OBVIOUS
  <2> USE QueueAssumption
  <2>1. \A p \in Partitions : Current(p) = 1
    BY DEF Init, Current
  <2>2. DOMAIN offset_map = {}
    BY DEF Init, NoMappings
  <2>3. TypeOK
    BY <2>2 DEF Init, TypeOK, PCs
  <2>4. PlacesOK /\ StoredIntact
    BY <2>1 DEF Init, PlacesOK, StoredIntact, Stored
  <2> QED
    BY <2>3, <2>4 DEF QueueInv
<1>2. QueueInv /\ [Next]_vars => QueueInv'
  BY QueueStep
<1> QED
  BY <1>1, <1>2, PTL DEF Spec

(* For records of any sizes: what an append stored since the last restart  *)
(* is never overwritten and never shares a byte with another record, since *)
(* has_space and Segment::append run under one hold of the segment mutex.  *)
THEOREM QueueStoredIntact == Spec => []StoredIntact
<1>1. QueueInv => StoredIntact
  BY DEF QueueInv
<1> QED
  BY <1>1, QueueInvariant, PTL

(* Types hold in every reachable state.                                    *)
THEOREM QueueTypes == Spec => []TypeOK
<1>1. QueueInv => TypeOK
  BY DEF QueueInv
<1> QED
  BY <1>1, QueueInvariant, PTL

-----------------------------------------------------------------------------
(* Offsets change in AssignOffset, InsertMapping and Restart only.         *)
LEMMA QuietOffsets ==
  ASSUME OffsetsDense, UNCHANGED <<global_offset, offset_map, global>>,
         \A r \in Records : pc'[r] \in Assigned <=> pc[r] \in Assigned,
         \A r \in Records : pc'[r] = "ok" <=> pc[r] = "ok",
         \A r \in Records : pc[r] = "ok" => local'[r] = local[r]
  PROVE  OffsetsDense'
BY DEF OffsetsDense, Mapping

LEMMA OffsetsStep ==
  ASSUME TypeOK, OffsetsDense, [Next]_vars
  PROVE  OffsetsDense'
<1>1. ASSUME NEW r \in Records, AssignOffset(r)  PROVE OffsetsDense'
  <2>1. /\ pc[r] = "offset" /\ pc' = [pc EXCEPT ![r] = "map"]
        /\ global' = [global EXCEPT ![r] = global_offset]
        /\ global_offset' = global_offset + 1 /\ global_offset \in Nat
        /\ UNCHANGED <<local, offset_map>>
    BY <1>1 DEF AssignOffset, TypeOK
  <2>2. \A q \in Records : pc'[q] \in Assigned <=> q = r \/ pc[q] \in Assigned
    BY <2>1 DEF TypeOK, Assigned
  <2>3. \A q \in Records : global'[q] = IF q = r THEN global_offset ELSE global[q]
    BY <2>1 DEF TypeOK
  <2>4. pc[r] \notin Assigned /\ \A q \in Records : pc'[q] = "ok" <=> pc[q] = "ok"
    BY <2>1 DEF TypeOK, Assigned
  <2>5. \A q \in Records : pc'[q] \in Assigned => global'[q] < global_offset'
    <3>1. \A q \in Records : pc[q] \in Assigned => global[q] < global_offset /\ global[q] \in Nat
      BY DEF OffsetsDense, TypeOK
    <3> QED
      BY <2>1, <2>2, <2>3, <3>1
  <2>6. \A q, t \in Records :
          pc'[q] \in Assigned /\ pc'[t] \in Assigned /\ global'[q] = global'[t] => q = t
    <3>1. \A q \in Records : pc[q] \in Assigned => global[q] < global_offset /\ global[q] \in Nat
      BY DEF OffsetsDense, TypeOK
    <3>2. \A q, t \in Records :
            pc[q] \in Assigned /\ pc[t] \in Assigned /\ global[q] = global[t] => q = t
      BY DEF OffsetsDense
    <3>3. \A q \in Records : pc[q] \in Assigned => global[q] # global_offset
      BY <2>1, <3>1
    <3> QED
      BY <2>2, <2>3, <3>2, <3>3
  <2>7. \A g \in 0..(global_offset' - 1) :
          \E q \in Records : pc'[q] \in Assigned /\ global'[q] = g
    <3> TAKE g \in 0..(global_offset' - 1)
    <3>1. CASE g = global_offset
      BY <2>2, <2>3, <3>1
    <3>2. CASE g # global_offset
      <4>1. g \in 0..(global_offset - 1)
        BY <2>1, <3>2
      <4>2. PICK q \in Records : pc[q] \in Assigned /\ global[q] = g
        BY <4>1 DEF OffsetsDense
      <4> QED
        BY <2>2, <2>3, <2>4, <4>2
    <3> QED
      BY <3>1, <3>2
  <2>8. /\ \A q \in Records : pc'[q] = "ok" =>
             global'[q] \in DOMAIN offset_map' /\ offset_map'[global'[q]] = Mapping(q)'
        /\ \A g \in DOMAIN offset_map' : \E q \in Records : pc'[q] = "ok" /\ global'[q] = g
    <3>1. \A q \in Records : pc[q] = "ok" => global'[q] = global[q] /\ Mapping(q)' = Mapping(q)
      BY <2>1, <2>3 DEF Mapping
    <3> QED
      BY <2>1, <2>4, <3>1 DEF OffsetsDense
  <2> QED
    BY <2>5, <2>6, <2>7, <2>8 DEF OffsetsDense
<1>2. ASSUME NEW r \in Records, InsertMapping(r)  PROVE OffsetsDense'
  <2>1. /\ pc[r] = "map" /\ pc' = [pc EXCEPT ![r] = "ok"]
        /\ UNCHANGED <<global_offset, global, local>>
    BY <1>2 DEF InsertMapping
  <2>2. /\ DOMAIN offset_map' = DOMAIN offset_map \cup {global[r]}
        /\ offset_map'[global[r]] = Mapping(r)
        /\ \A g \in DOMAIN offset_map : g # global[r] => offset_map'[g] = offset_map[g]
    BY <1>2 DEF InsertMapping
  <2>3. \A q \in Records :
          /\ pc'[q] \in Assigned <=> pc[q] \in Assigned
          /\ pc'[q] = "ok" <=> q = r \/ pc[q] = "ok"
    BY <2>1 DEF TypeOK, Assigned
  <2>4. \A q \in Records : pc[q] = "ok" => q = r \/ global[q] # global[r]
    BY <2>1 DEF OffsetsDense, Assigned
  <2>5. \A q \in Records : Mapping(q)' = Mapping(q)
    BY <2>1 DEF Mapping
  <2>6. \A q \in Records : pc'[q] = "ok" =>
          global'[q] \in DOMAIN offset_map' /\ offset_map'[global'[q]] = Mapping(q)'
    BY <2>1, <2>2, <2>3, <2>4, <2>5 DEF OffsetsDense
  <2>7. \A g \in DOMAIN offset_map' : \E q \in Records : pc'[q] = "ok" /\ global'[q] = g
    BY <2>1, <2>2, <2>3 DEF OffsetsDense
  <2> QED
    BY <2>1, <2>3, <2>6, <2>7 DEF OffsetsDense
<1>3. ASSUME Restart  PROVE OffsetsDense'
  <2>1. \A r \in Records : pc'[r] \notin Assigned /\ pc'[r] # "ok"
    BY <1>3 DEF Restart, TypeOK, PCs, Assigned
  <2>2. global_offset' = 0 /\ DOMAIN offset_map' = {}
    BY <1>3 DEF Restart, NoMappings
  <2> QED
    BY <2>1, <2>2 DEF OffsetsDense
<1>4. ASSUME NEW r \in Records,
             \/ Check(r) \/ TryAppend(r) \/ Lock(r) \/ Recheck(r) \/ Create(r) \/ CreateFails(r)
      PROVE  OffsetsDense'
  <2>1. UNCHANGED <<global_offset, offset_map, global>>
    BY <1>4 DEF Check, TryAppend, Lock, Recheck, Create, CreateFails, queueVars
  <2>2. \E to \in PCs \ Assigned : pc' = [pc EXCEPT ![r] = to]
    BY <1>4 DEF Check, TryAppend, Lock, Recheck, Create, CreateFails, PCs, Assigned
  <2>3. pc[r] \notin Assigned
    BY <1>4 DEF Check, TryAppend, Lock, Recheck, Create, CreateFails, Assigned
  <2>4. \A q \in Records : q # r => local'[q] = local[q]
    BY <1>4 DEF Check, TryAppend, Lock, Recheck, Create, CreateFails, TypeOK
  <2>5. \A q \in Records :
          /\ pc'[q] \in Assigned <=> pc[q] \in Assigned
          /\ pc'[q] = "ok" <=> pc[q] = "ok"
    BY <2>2, <2>3 DEF TypeOK, Assigned
  <2> QED
    BY <2>1, <2>3, <2>4, <2>5, QuietOffsets DEF Assigned
<1>5. ASSUME UNCHANGED vars  PROVE OffsetsDense'
  BY <1>5, QuietOffsets DEF vars
<1> QED
  BY <1>1, <1>2, <1>3, <1>4, <1>5 DEF Next, Step, AllReturned

(* Global offsets are handed out exactly once and without gap, and an      *)
(* acknowledged offset is mapped to its own record, for any number of      *)
(* concurrent appends, segment creation failures and restarts.             *)
THEOREM QueueOffsetsDense == Spec => []OffsetsDense
<1>1. Init => OffsetsDense
  <2> SUFFICES ASSUME Init  PROVE OffsetsDense
    OBVIOUS
  <2>1. \A r \in Records : pc[r] \notin Assigned /\ pc[r] # "ok"
    BY DEF Init, Assigned
  <2>2. global_offset = 0 /\ DOMAIN offset_map = {}
    BY DEF Init, NoMappings
  <2> QED
    BY <2>1, <2>2 DEF OffsetsDense
<1>2. TypeOK /\ OffsetsDense /\ [Next]_vars => OffsetsDense'
  BY OffsetsStep
<1> QED
  BY <1>1, <1>2, QueueTypes, PTL DEF Spec

(* A record of the first segment reads back from its global offset, behind *)
(* any interleaving of appends, rollovers and restarts since.              *)
THEOREM QueueReadsBack == Spec => []FirstSegmentReadsBack
<1>1. QueueInv /\ OffsetsDense => FirstSegmentReadsBack
  <2> SUFFICES ASSUME QueueInv, OffsetsDense,
                      NEW r \in Records, pc[r] = "ok", segment[r] = 1
               PROVE  ReadsBack(r)
    BY DEF FirstSegmentReadsBack
  <2> USE QueueAssumption
  <2> DEFINE p == Partition[r]
             at == local[r]
             end == write_pos[p][1]
             g == global[r]
  <2>1. /\ g \in DOMAIN offset_map
        /\ offset_map[g].partition_id = p /\ offset_map[g].local_offset = at
    <3>1. g \in DOMAIN offset_map /\ offset_map[g] = Mapping(r)
      BY DEF OffsetsDense
    <3> QED
      BY <3>1 DEF Mapping
  <2>2. at \in Nat /\ at + Size[r] <= end /\ \A b \in Span(r) : file[p][1][b] = r
    BY DEF QueueInv, StoredIntact, Stored, TypeOK
  <2>3. end \in Nat
    BY DEF QueueInv, PlacesOK, TypeOK, Current
  <2>4. Read(g) = [i \in 1..(end - at) |-> file[p][1][at + i - 1]]
    BY <2>1 DEF Read, SegmentRead
  <2>5. end - at \in Nat /\ Size[r] <= end - at /\ Size[r] \in Nat
    BY <2>2, <2>3
  <2>6. \A i \in 1..Size[r] : at + i - 1 \in Span(r) /\ i \in 1..(end - at)
    BY <2>2, <2>5 DEF Span
  <2>7. \A i \in 1..Size[r] : Read(g)[i] = r
    BY <2>2, <2>4, <2>6
  <2>8. Len(Read(g)) = end - at
    BY <2>4, <2>5
  <2> QED
    BY <2>1, <2>5, <2>7, <2>8 DEF ReadsBack
<1> QED
  BY <1>1, QueueInvariant, QueueOffsetsDense, PTL

-----------------------------------------------------------------------------
(* Rotation.  The call that is about to create a segment holds the creation *)
(* lock of its partition and has seen the current segment in use.           *)
RecordsFit == \A r \in Records : Size[r] <= SegmentSize

LockHeld == \A r \in Records : pc[r] \in {"recheck", "create"} <=> lock[Partition[r]] = r

CreateWhenUsed ==
  \A r \in Records : pc[r] = "create" => write_pos[Partition[r]][Current(Partition[r])] > 0

LEMMA LockStep ==
  ASSUME QueueInv, LockHeld, [Next]_vars
  PROVE  LockHeld'
<1> USE QueueAssumption
<1>0. pc \in [Records -> PCs] /\ lock \in [Partitions -> Records \cup {NoOne}]
  BY DEF QueueInv, TypeOK
<1>1. ASSUME NEW r \in Records, UNCHANGED lock, NEW to,
             pc' = [pc EXCEPT ![r] = to], pc[r] \in {"recheck", "create"} <=> to \in {"recheck", "create"}
      PROVE  LockHeld'
  BY <1>0, <1>1 DEF LockHeld
<1>2. ASSUME NEW r \in Records, Unlock(r), pc[r] \in {"recheck", "create"}, NEW to,
             pc' = [pc EXCEPT ![r] = to], to \notin {"recheck", "create"}
      PROVE  LockHeld'
  BY <1>0, <1>2 DEF LockHeld, Unlock
<1>3. ASSUME NEW r \in Records, Lock(r)  PROVE LockHeld'
  BY <1>0, <1>3 DEF LockHeld, Lock
<1>4. ASSUME NEW r \in Records, Step(r)  PROVE LockHeld'
  <2>1. CASE Check(r)
    BY <1>1, <2>1 DEF Check
  <2>2. CASE TryAppend(r)
    BY <1>1, <2>2 DEF TryAppend
  <2>3. CASE Recheck(r)
    BY <1>1, <1>2, <2>3 DEF Recheck
  <2>4. ASSUME pc[r] = "create", Unlock(r), NEW to \in {"check", "err"}, pc' = [pc EXCEPT ![r] = to]
        PROVE  LockHeld'
    BY <1>2, <2>4
  <2>4a. CASE Create(r)
    BY <2>4, <2>4a DEF Create
  <2>4b. CASE CreateFails(r)
    BY <2>4, <2>4b DEF CreateFails
  <2>5. CASE AssignOffset(r) \/ InsertMapping(r)
    BY <1>1, <2>5 DEF AssignOffset, InsertMapping
  <2> QED
    BY <1>3, <1>4, <2>1, <2>2, <2>3, <2>4a, <2>4b, <2>5 DEF Step
<1>5. CASE Restart
  <2>1. \A r \in Records : pc'[r] \notin {"recheck", "create"}
    BY <1>0, <1>5 DEF Restart, PCs
  <2>2. \A r \in Records : lock'[Partition[r]] = NoOne
    BY <1>5 DEF Restart
  <2> QED
    BY <2>1, <2>2 DEF LockHeld
<1>6. CASE UNCHANGED vars
  BY <1>6 DEF vars, LockHeld
<1> QED
  BY <1>4, <1>5, <1>6 DEF Next, AllReturned

LEMMA UsedStep ==
  ASSUME RecordsFit, QueueInv, LockHeld, SegmentsAreUsed, CreateWhenUsed, [Next]_vars
  PROVE  SegmentsAreUsed' /\ CreateWhenUsed'
<1> USE QueueAssumption
<1>0. /\ pc \in [Records -> PCs] /\ write_pos \in [Partitions -> Seq(0..SegmentSize)]
      /\ \A p \in Partitions : Current(p) \in Nat /\ Current(p) \in 1..Current(p)
      /\ \A p \in Partitions, s \in Nat : s \in 1..Current(p) => write_pos[p][s] \in Nat
      /\ \A r \in Records : Partition[r] \in Partitions /\ Size[r] \in Nat \ {0}
  BY DEF QueueInv, TypeOK, PlacesOK, Current
(* The steps that create no segment: no segment is emptied. *)
<1>1. ASSUME \A p \in Partitions : Current(p)' = Current(p),
             \A p \in Partitions : \A s \in 1..Current(p) : write_pos[p][s] > 0 => write_pos'[p][s] > 0,
             \A r \in Records : pc'[r] = "create" =>
               pc[r] = "create" \/ write_pos[Partition[r]][Current(Partition[r])] > 0
      PROVE  SegmentsAreUsed' /\ CreateWhenUsed'
  <2>1. SegmentsAreUsed'
    <3> SUFFICES ASSUME NEW p \in Partitions, NEW s \in 1..(Current(p) - 1)  PROVE write_pos'[p][s] > 0
      BY <1>1 DEF SegmentsAreUsed
    <3>1. s \in 1..Current(p)
      BY <1>0
    <3> QED
      BY <1>1, <3>1 DEF SegmentsAreUsed
  <2>2. CreateWhenUsed'
    <3> SUFFICES ASSUME NEW r \in Records, pc'[r] = "create"
                 PROVE  write_pos'[Partition[r]][Current(Partition[r])'] > 0
      BY DEF CreateWhenUsed
    <3>1. write_pos[Partition[r]][Current(Partition[r])] > 0
      BY <1>1 DEF CreateWhenUsed
    <3> QED
      BY <1>0, <1>1, <3>1
  <2> QED
    BY <2>1, <2>2
<1>2. ASSUME NEW r \in Records, UNCHANGED write_pos, NEW to, pc' = [pc EXCEPT ![r] = to],
             to = "create" => write_pos[Partition[r]][Current(Partition[r])] > 0
      PROVE  SegmentsAreUsed' /\ CreateWhenUsed'
  <2>1. \A p \in Partitions : Current(p)' = Current(p)
    BY <1>2 DEF Current
  <2> QED
    BY <1>0, <1>1, <1>2, <2>1
<1>3. ASSUME NEW r \in Records, Recheck(r)  PROVE SegmentsAreUsed' /\ CreateWhenUsed'
  <2>1. CASE HasSpace(Partition[r], Current(Partition[r]), r)
    BY <1>2, <1>3, <2>1 DEF Recheck
  <2>2. CASE ~ HasSpace(Partition[r], Current(Partition[r]), r)
    <3>1. write_pos[Partition[r]][Current(Partition[r])] > 0
      <4>1. /\ write_pos[Partition[r]][Current(Partition[r])] \in Nat /\ Size[r] \in Nat
            /\ Size[r] <= SegmentSize /\ SegmentSize \in Nat
        BY <1>0 DEF RecordsFit
      <4> QED
        BY <2>2, <4>1 DEF HasSpace
    <3> QED
      BY <1>2, <1>3, <2>2, <3>1 DEF Recheck
  <2> QED
    BY <2>1, <2>2
<1>4. ASSUME NEW r \in Records,
             Check(r) \/ Lock(r) \/ CreateFails(r) \/ AssignOffset(r) \/ InsertMapping(r)
      PROVE  SegmentsAreUsed' /\ CreateWhenUsed'
  BY <1>2, <1>4 DEF Check, Lock, CreateFails, AssignOffset, InsertMapping
<1>5. ASSUME NEW r \in Records, TryAppend(r)  PROVE SegmentsAreUsed' /\ CreateWhenUsed'
  <2>1. CASE ~ HasSpace(Partition[r], segment[r], r)
    BY <1>2, <1>5, <2>1 DEF TryAppend
  <2>2. CASE HasSpace(Partition[r], segment[r], r)
    <3>1. PICK p \in Partitions : p = Partition[r]
      BY <1>0
    <3>2. PICK s \in 1..Current(p) : s = segment[r]
      BY <1>5, <3>1 DEF TryAppend, QueueInv, PlacesOK
    <3>3. /\ write_pos' = [write_pos EXCEPT ![p] = [write_pos[p] EXCEPT ![s] = write_pos[p][s] + Size[r]]]
          /\ pc' = [pc EXCEPT ![r] = "offset"]
      BY <1>5, <2>2, <3>1, <3>2 DEF TryAppend
    <3>4. /\ write_pos'[p] = [write_pos[p] EXCEPT ![s] = write_pos[p][s] + Size[r]]
          /\ \A o \in Partitions : o # p => write_pos'[o] = write_pos[o]
      BY <1>0, <3>3
    <3>5. /\ Current(p)' = Current(p) /\ write_pos'[p][s] = write_pos[p][s] + Size[r]
          /\ \A t \in 1..Current(p) : t # s => write_pos'[p][t] = write_pos[p][t]
      BY <1>0, <3>2, <3>4 DEF Current
    <3>6. \A o \in Partitions : Current(o)' = Current(o)
      BY <3>4, <3>5 DEF Current
    <3>7. write_pos'[p][s] > 0
      <4>1. write_pos[p][s] \in Nat /\ Size[r] \in Nat \ {0}
        BY <1>0, <3>2
      <4> QED
        BY <3>5, <4>1
    <3>8. \A o \in Partitions : \A t \in 1..Current(o) : write_pos[o][t] > 0 => write_pos'[o][t] > 0
      BY <3>4, <3>5, <3>7
    <3>9. \A q \in Records : pc'[q] = "create" => pc[q] = "create"
      BY <1>0, <3>3
    <3> QED
      BY <1>1, <3>6, <3>8, <3>9
  <2> QED
    BY <2>1, <2>2
<1>6. ASSUME NEW r \in Records, Create(r)  PROVE SegmentsAreUsed' /\ CreateWhenUsed'
  <2>1. PICK p \in Partitions : p = Partition[r]
    BY <1>0
  <2>2. /\ pc[r] = "create" /\ pc' = [pc EXCEPT ![r] = "check"]
        /\ write_pos' = [write_pos EXCEPT ![p] = Append(write_pos[p], 0)]
        /\ write_pos[p][Current(p)] > 0 /\ lock[p] = r
    BY <1>6, <2>1 DEF Create, CreateWhenUsed, LockHeld
  <2>3. /\ write_pos'[p] = Append(write_pos[p], 0)
        /\ \A o \in Partitions : o # p => write_pos'[o] = write_pos[o]
    BY <1>0, <2>2
  <2>4. Current(p)' = Current(p) + 1 /\ \A t \in 1..Current(p) : write_pos'[p][t] = write_pos[p][t]
    BY <1>0, <2>3 DEF Current
  <2>5. \A o \in Partitions : o # p => Current(o)' = Current(o)
    BY <2>3 DEF Current
  <2>6. SegmentsAreUsed'
    <3> SUFFICES ASSUME NEW o \in Partitions, NEW t \in 1..(Current(o)' - 1)  PROVE write_pos'[o][t] > 0
      BY DEF SegmentsAreUsed
    <3>1. CASE o # p
      BY <2>3, <2>5, <3>1 DEF SegmentsAreUsed
    <3>2. CASE o = p
      <4>1. t \in 1..Current(p) /\ (t = Current(p) \/ t \in 1..(Current(p) - 1))
        BY <1>0, <2>4, <3>2
      <4>2. write_pos[p][t] > 0
        BY <2>2, <4>1 DEF SegmentsAreUsed
      <4> QED
        BY <2>4, <3>2, <4>1, <4>2
    <3> QED
      BY <3>1, <3>2
  <2>7. CreateWhenUsed'
    <3> SUFFICES ASSUME NEW q \in Records, pc'[q] = "create"
                 PROVE  write_pos'[Partition[q]][Current(Partition[q])'] > 0
      BY DEF CreateWhenUsed
    <3>1. q # r /\ pc[q] = "create"
      BY <1>0, <2>2
    <3>2. Partition[q] # p
      BY <2>2, <3>1 DEF LockHeld
    <3> QED
      BY <1>0, <2>3, <2>5, <3>1, <3>2 DEF CreateWhenUsed
  <2> QED
    BY <2>6, <2>7
<1>7. CASE Restart
  <2>1. \A r \in Records : pc'[r] # "create"
    BY <1>0, <1>7 DEF Restart, PCs
  <2>2. \A p \in Partitions : Current(p)' = 1
    BY <1>7 DEF Restart, Current
  <2> QED
    BY <2>1, <2>2 DEF SegmentsAreUsed, CreateWhenUsed
<1>8. CASE UNCHANGED vars
  BY <1>8 DEF vars, SegmentsAreUsed, CreateWhenUsed, Current
<1> QED
  BY <1>3, <1>4, <1>5, <1>6, <1>7, <1>8 DEF Next, Step, AllReturned

(* When every record fits a segment, concurrent appends that find the      *)
(* current segment of a partition full create one segment between them:    *)
(* none is left behind empty, whatever fails and whenever the process is   *)
(* restarted.                                                              *)
THEOREM QueueSegmentsUsed ==
  ASSUME RecordsFit
  PROVE  Spec => []SegmentsAreUsed
<1>1. Init => LockHeld /\ SegmentsAreUsed /\ CreateWhenUsed
  <2> SUFFICES ASSUME Init  PROVE LockHeld /\ SegmentsAreUsed /\ CreateWhenUsed
    OBVIOUS
  <2>1. \A p \in Partitions : Current(p) = 1
    BY DEF Init, Current
  <2> QED
    BY <2>1, QueueAssumption DEF Init, LockHeld, SegmentsAreUsed, CreateWhenUsed
<1>2. QueueInv /\ LockHeld /\ SegmentsAreUsed /\ CreateWhenUsed /\ [Next]_vars
        => (LockHeld /\ SegmentsAreUsed /\ CreateWhenUsed)'
  BY LockStep, UsedStep
<1> QED
  BY <1>1, <1>2, QueueInvariant, PTL DEF Spec
=============================================================================
