------------------------------ MODULE PersistQ ------------------------------
(***************************************************************************)
(* The partitioned persistent queue (src/src/persistq.rs): PersistQ, its   *)
(* SegmentManager, one per partition, and its mutex-protected Segments.    *)
(*                                                                         *)
(* An append is routed to a partition, stored in that partition's current  *)
(* segment, given the next global offset, and entered in offset_map.  Each *)
(* of these holds its own lock, so calls interleave between them.  A read  *)
(* looks the global offset up and returns bytes of the FIRST segment of    *)
(* the partition, from the local offset to the write position.             *)
(*                                                                         *)
(* Restart models a process that ends and is started again on the same     *)
(* storage directory: Segment::new opens the existing file, keeps its      *)
(* content and starts writing at 0; global_offset and offset_map live in   *)
(* memory only.                                                            *)
(***************************************************************************)
EXTENDS Integers, Sequences, FiniteSets

CONSTANTS Records,      \* the calls of append, one record each
          Size,         \* data.len() of each record
          Partitions,   \* 1..num_partitions
          Partition,    \* crc32(data) % num_partitions + 1
          SegmentSize,  \* segment_size
          MaxSegs,      \* bound on the segments of a partition
          MaxRestarts,  \* bound on the restarts
          Zero,         \* content of a byte that was never written
          NoOne         \* a creation lock is free

ASSUME QueueAssumption ==
  /\ IsFiniteSet(Records)
  /\ SegmentSize \in Nat \ {0}
  /\ Size \in [Records -> Nat \ {0}]
  /\ Partition \in [Records -> Partitions]
  /\ MaxSegs \in Nat \ {0}
  /\ MaxRestarts \in Nat
  /\ Zero \notin Records
  /\ NoOne \notin Records

VARIABLES
  write_pos,      \* write_pos[p]: the write_pos of each segment of p
  file,           \* file[p][s]: the bytes of file partition_p_segment_s
  lock,           \* lock[p]: holder of segment_creation_lock
  global_offset,  \* RwLock<u64>
  offset_map,     \* DashMap: global offset -> OffsetMapping
  pc,             \* pc[r]: where the append call of r is
  segment,        \* segment[r]: the segment the call of r works on
  local,          \* local[r]: local_offset
  global,         \* global[r]: global_offset of the call
  restarts

vars == <<write_pos, file, lock, global_offset, offset_map, pc, segment, local,
          global, restarts>>

PCs == {"new", "check", "append", "lock", "recheck", "create", "offset", "map",
        "ok", "err", "lost", "old"}
Stored == {"offset", "map", "ok"}      \* in a segment since the last restart
Assigned == {"map", "ok"}              \* has a global offset since then
Bytes == 0..(SegmentSize - 1)
Span(r) == local[r]..(local[r] + Size[r] - 1)
Current(p) == Len(write_pos[p])
HasSpace(p, s, r) == write_pos[p][s] + Size[r] <= SegmentSize
NoMappings == [g \in {} |-> 0]
Mapping(r) == [partition_id |-> Partition[r], local_offset |-> local[r]]

TypeOK ==
  /\ write_pos \in [Partitions -> Seq(0..SegmentSize)]
  /\ file \in [Partitions -> [1..MaxSegs -> [Bytes -> Records \cup {Zero}]]]
  /\ lock \in [Partitions -> Records \cup {NoOne}]
  /\ global_offset \in Nat
  /\ \A g \in DOMAIN offset_map :
       g \in Nat /\ offset_map[g] \in [partition_id : Partitions, local_offset : Nat]
  /\ pc \in [Records -> PCs]
  /\ segment \in [Records -> Nat]
  /\ local \in [Records -> Nat]
  /\ global \in [Records -> Nat]
  /\ restarts \in 0..MaxRestarts

(* PersistQ::new on an empty directory, every partition with one segment *)
Init ==
  /\ write_pos = [p \in Partitions |-> <<0>>]
  /\ file = [p \in Partitions |-> [s \in 1..MaxSegs |-> [b \in Bytes |-> Zero]]]
  /\ lock = [p \in Partitions |-> NoOne]
  /\ global_offset = 0
  /\ offset_map = NoMappings
  /\ pc = [r \in Records |-> "new"]
  /\ segment = [r \in Records |-> 0]
  /\ local = [r \in Records |-> 0]
  /\ global = [r \in Records |-> 0]
  /\ restarts = 0

-----------------------------------------------------------------------------
queueVars == <<global_offset, offset_map, global, restarts>>

(* Routing, and has_space under the read lock of current_segment *)
Check(r) ==
  LET p == Partition[r]
  IN  /\ pc[r] \in {"new", "check"}
      /\ IF HasSpace(p, Current(p), r)
         THEN /\ segment' = [segment EXCEPT ![r] = Current(p)]
              /\ pc' = [pc EXCEPT ![r] = "append"]
         ELSE /\ pc' = [pc EXCEPT ![r] = "lock"]
              /\ UNCHANGED segment
      /\ UNCHANGED <<write_pos, file, lock, local, queueVars>>

(* Mutant: write_pos counts records instead of bytes *)
TryAppendByOne(r) ==
  LET p == Partition[r]
      s == segment[r]
      at == write_pos[p][s]
  IN  /\ pc[r] = "append"
      /\ IF HasSpace(p, s, r)
         THEN /\ write_pos' = [write_pos EXCEPT ![p][s] = at + 1]
              /\ file' = [file EXCEPT ![p][s] =
                   [b \in Bytes |-> IF b \in at..(at + Size[r] - 1) THEN r ELSE file[p][s][b]]]
              /\ local' = [local EXCEPT ![r] = at]
              /\ pc' = [pc EXCEPT ![r] = "offset"]
         ELSE /\ pc' = [pc EXCEPT ![r] = "lock"]
              /\ UNCHANGED <<write_pos, file, local>>
      /\ UNCHANGED <<lock, segment, queueVars>>

(* One hold of the segment's mutex: has_space again, then Segment::append *)
TryAppend(r) ==
  LET p == Partition[r]
      s == segment[r]
      at == write_pos[p][s]
  IN  /\ pc[r] = "append"
      /\ IF HasSpace(p, s, r)
         THEN /\ write_pos' = [write_pos EXCEPT ![p][s] = at + Size[r]]
              /\ file' = [file EXCEPT ![p][s] =
                   [b \in Bytes |-> IF b \in at..(at + Size[r] - 1) THEN r ELSE file[p][s][b]]]
              /\ local' = [local EXCEPT ![r] = at]
              /\ pc' = [pc EXCEPT ![r] = "offset"]
         ELSE /\ pc' = [pc EXCEPT ![r] = "lock"]
              /\ UNCHANGED <<write_pos, file, local>>
      /\ UNCHANGED <<lock, segment, queueVars>>

(* segment_creation_lock.lock().await *)
Lock(r) ==
  /\ pc[r] = "lock"
  /\ lock[Partition[r]] = NoOne
  /\ lock' = [lock EXCEPT ![Partition[r]] = r]
  /\ pc' = [pc EXCEPT ![r] = "recheck"]
  /\ UNCHANGED <<write_pos, file, segment, local, queueVars>>

Unlock(r) == lock' = [lock EXCEPT ![Partition[r]] = NoOne]

(* Mutant: no second look under the lock *)
RecheckSkipped(r) ==
  /\ pc[r] = "recheck"
  /\ pc' = [pc EXCEPT ![r] = "create"]
  /\ UNCHANGED <<write_pos, file, lock, segment, local, queueVars>>

(* Mutant: the second look takes it for granted that another call created *)
RecheckTrusting(r) ==
  /\ pc[r] = "recheck"
  /\ Unlock(r)
  /\ pc' = [pc EXCEPT ![r] = "check"]
  /\ UNCHANGED <<write_pos, file, segment, local, queueVars>>

(* Double-check under the creation lock *)
Recheck(r) ==
  LET p == Partition[r]
  IN  /\ pc[r] = "recheck"
      /\ IF HasSpace(p, Current(p), r)
         THEN Unlock(r) /\ pc' = [pc EXCEPT ![r] = "check"]
         ELSE pc' = [pc EXCEPT ![r] = "create"] /\ UNCHANGED lock
      /\ UNCHANGED <<write_pos, file, segment, local, queueVars>>

(* create_new_segment: the file may exist already and keeps its content *)
Create(r) ==
  LET p == Partition[r]
  IN  /\ pc[r] = "create"
      /\ Current(p) < MaxSegs
      /\ write_pos' = [write_pos EXCEPT ![p] = Append(@, 0)]
      /\ Unlock(r)
      /\ pc' = [pc EXCEPT ![r] = "check"]
      /\ UNCHANGED <<file, segment, local, queueVars>>

(* Segment::new fails: append returns the error *)
CreateFails(r) ==
  /\ pc[r] = "create"
  /\ Unlock(r)
  /\ pc' = [pc EXCEPT ![r] = "err"]
  /\ UNCHANGED <<write_pos, file, segment, local, queueVars>>

(* Mutant: global_offset is read and never advanced *)
AssignOffsetStuck(r) ==
  /\ pc[r] = "offset"
  /\ global' = [global EXCEPT ![r] = global_offset]
  /\ pc' = [pc EXCEPT ![r] = "map"]
  /\ UNCHANGED <<write_pos, file, lock, segment, local, global_offset, offset_map, restarts>>

(* The next global offset, under the write lock of global_offset *)
AssignOffset(r) ==
  /\ pc[r] = "offset"
  /\ global' = [global EXCEPT ![r] = global_offset]
  /\ global_offset' = global_offset + 1
  /\ pc' = [pc EXCEPT ![r] = "map"]
  /\ UNCHANGED <<write_pos, file, lock, segment, local, offset_map, restarts>>

(* Mutant: the mapping takes the global offset for the local one *)
InsertMappingMixedUp(r) ==
  /\ pc[r] = "map"
  /\ offset_map' = [g \in DOMAIN offset_map \cup {global[r]} |->
                      IF g = global[r]
                      THEN [partition_id |-> Partition[r], local_offset |-> global[r]]
                      ELSE offset_map[g]]
  /\ pc' = [pc EXCEPT ![r] = "ok"]
  /\ UNCHANGED <<write_pos, file, lock, segment, local, global, global_offset, restarts>>

(* offset_map.insert, and Ok *)
InsertMapping(r) ==
  /\ pc[r] = "map"
  /\ offset_map' = [g \in DOMAIN offset_map \cup {global[r]} |->
                      IF g = global[r] THEN Mapping(r) ELSE offset_map[g]]
  /\ pc' = [pc EXCEPT ![r] = "ok"]
  /\ UNCHANGED <<write_pos, file, lock, segment, local, global, global_offset, restarts>>

(* The process ends between any two steps and PersistQ::new runs again *)
Restart ==
  /\ restarts < MaxRestarts
  /\ restarts' = restarts + 1
  /\ write_pos' = [p \in Partitions |-> <<0>>]
  /\ lock' = [p \in Partitions |-> NoOne]
  /\ global_offset' = 0
  /\ offset_map' = NoMappings
  /\ pc' = [r \in Records |-> CASE pc[r] = "ok" -> "old"
                                [] pc[r] \in {"new", "err", "old"} -> pc[r]
                                [] OTHER -> "lost"]
  /\ UNCHANGED <<file, segment, local, global>>

Step(r) ==
  \/ Check(r) \/ TryAppend(r) \/ Lock(r) \/ Recheck(r) \/ Create(r)
  \/ CreateFails(r) \/ AssignOffset(r) \/ InsertMapping(r)

Returned == {"ok", "err", "lost", "old"}
AllReturned == (\A r \in Records : pc[r] \in Returned) /\ UNCHANGED vars

Next == (\E r \in Records : Step(r)) \/ Restart \/ AllReturned

(* Every call is a task that the runtime keeps polling. *)
Spec == Init /\ [][Next]_vars /\ \A r \in Records : WF_vars(Step(r))

-----------------------------------------------------------------------------
(* The bytes from a local offset to the write position of the partition's  *)
(* first segment; none when the offset is out of bounds                    *)
SegmentRead(p, at) ==
  [i \in 1..(write_pos[p][1] - at) |-> file[p][1][at + i - 1]]

(* PersistQ::read, for a global offset that is mapped *)
Read(g) == SegmentRead(offset_map[g].partition_id, offset_map[g].local_offset)

(* What read returns for the global offset of r begins with the data of r. *)
ReadsBack(r) ==
  /\ global[r] \in DOMAIN offset_map
  /\ Size[r] <= Len(Read(global[r]))
  /\ \A i \in 1..Size[r] : Read(global[r])[i] = r

-----------------------------------------------------------------------------
(* What append stored stays intact at its place, below the write position  *)
(* of its segment: no concurrent append, rollover or restart in between    *)
(* overwrites a record of this run of the process.                         *)
StoredIntact ==
  \A r \in Records : pc[r] \in Stored =>
    LET p == Partition[r]
        s == segment[r]
    IN  /\ s \in 1..Current(p)
        /\ local[r] + Size[r] <= write_pos[p][s]
        /\ \A b \in Span(r) : file[p][s][b] = r

(* Global offsets are unique and without gap, and offset_map leads each    *)
(* acknowledged one to the partition and place of its own record, although *)
(* storing, numbering and mapping a record are three separate steps.       *)
OffsetsDense ==
  /\ \A r \in Records : pc[r] \in Assigned => global[r] < global_offset
  /\ \A r, q \in Records :
       pc[r] \in Assigned /\ pc[q] \in Assigned /\ global[r] = global[q] => r = q
  /\ \A g \in 0..(global_offset - 1) : \E r \in Records : pc[r] \in Assigned /\ global[r] = g
  /\ \A r \in Records : pc[r] = "ok" =>
       global[r] \in DOMAIN offset_map /\ offset_map[global[r]] = Mapping(r)
  /\ \A g \in DOMAIN offset_map : \E r \in Records : pc[r] = "ok" /\ global[r] = g

(* Double-checked locking leaves no segment behind empty, when every       *)
(* record fits a segment.                                                  *)
SegmentsAreUsed ==
  \A p \in Partitions : \A s \in 1..(Current(p) - 1) : write_pos[p][s] > 0

(* A record stored in the first segment reads back from its global offset, *)
(* followed by whatever was appended after it.                             *)
FirstSegmentReadsBack ==
  \A r \in Records : pc[r] = "ok" /\ segment[r] = 1 => ReadsBack(r)

(* Every append returns, unless the process ends first.                    *)
AppendsReturn == \A r \in Records : <>(pc[r] \in Returned)
=============================================================================
