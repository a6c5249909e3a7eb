--------------------------- MODULE RecordSegment ---------------------------
(***************************************************************************)
(* The lock-free segment of the storage engine (src/src/storage.rs) with   *)
(* the record frame it stores (src/src/record.rs).                         *)
(*                                                                         *)
(* RecordSegment::append_record reserves bytes with one fetch_add on       *)
(* write_pos, takes them back with a fetch_sub when the record does not    *)
(* fit, and otherwise copies the frame into the memory map, counts it and  *)
(* indexes it.  Every one of these is a step of its own here, because none *)
(* of them holds a lock that the others wait for.  Calls are identified    *)
(* with the records they append, so any number of them can be under way:   *)
(* threads that issue them one after another only restrict the order.      *)
(*                                                                         *)
(* A frame is abstracted to the identity of its record: byte p of the map  *)
(* holds "r" when it is byte p - offset[r] of the frame of r.  A frame     *)
(* decodes exactly when all its bytes are in place (magic, length and      *)
(* CRC32 of Record::deserialize).                                          *)
(***************************************************************************)
EXTENDS Integers, FiniteSets

CONSTANTS Records,       \* the append calls, one record each
          Size,          \* serialized_size of each record
          MaxSize,       \* max_size of the segment, in bytes
          Readers,       \* concurrent callers of read_record
          IndexEnabled,  \* index_enabled
          Zero           \* content of a byte that was never written

ASSUME SegmentAssumption ==
  /\ IsFiniteSet(Records)
  /\ Size \in [Records -> Nat \ {0}]
  /\ MaxSize \in Nat \ {0}
  /\ IndexEnabled \in BOOLEAN
  /\ Zero \notin Records

VARIABLES
  write_pos,      \* AtomicU64
  record_count,   \* AtomicU64
  mmap,           \* the mapped file, byte by byte
  index,          \* BTreeMap: byte offset -> record_num
  pc,             \* pc[r]: where the append call of r is
  offset,         \* offset[r]: what its fetch_add on write_pos returned
  num,            \* num[r]: what its fetch_add on record_count returned
  read            \* read[t]: the read_record call of reader t

appendVars == <<write_pos, record_count, mmap, index, pc, offset, num>>
vars == <<write_pos, record_count, mmap, index, pc, offset, num, read>>

NoOffset == -1
NotIndexed == -1
Bytes == 0..(MaxSize - 1)
Frame(r) == offset[r]..(offset[r] + Size[r] - 1)

PCs == {"new", "rollback", "write", "count", "index", "ok", "full", "panicked"}
Reserved == {"write", "count", "index", "ok"}
Outcomes == Records \cup {"out_of_bounds", "invalid", "panic"}

TypeOK ==
  /\ write_pos \in Nat
  /\ record_count \in Nat
  /\ mmap \in [Bytes -> Records \cup {Zero}]
  /\ index \in [Bytes -> Nat \cup {NotIndexed}]
  /\ pc \in [Records -> PCs]
  /\ offset \in [Records -> Nat \cup {NoOffset}]
  /\ num \in [Records -> Nat]
  /\ read \in [Readers -> [pc : {"idle"}] \cup
                          [pc : {"slice"}, at : Bytes, acked : SUBSET Records,
                           current_pos : Nat] \cup
                          [pc : {"done"}, at : Bytes, acked : SUBSET Records,
                           outcome : Outcomes]]

Init ==
  /\ write_pos = 0
  /\ record_count = 0
  /\ mmap = [p \in Bytes |-> Zero]
  /\ index = [p \in Bytes |-> NotIndexed]
  /\ pc = [r \in Records |-> "new"]
  /\ offset = [r \in Records |-> NoOffset]
  /\ num = [r \in Records |-> 0]
  /\ read = [t \in Readers |-> [pc |-> "idle"]]

-----------------------------------------------------------------------------
(* append_record, one atomic instruction or one critical section at a time *)

(* Mutant: the comparison forgets the size of the record *)
ReserveIgnoringSize(r) ==
  /\ pc[r] = "new"
  /\ offset' = [offset EXCEPT ![r] = write_pos]
  /\ write_pos' = write_pos + Size[r]
  /\ pc' = [pc EXCEPT ![r] = IF write_pos > MaxSize THEN "rollback" ELSE "write"]
  /\ UNCHANGED <<record_count, mmap, index, num, read>>

(* fetch_add, and the comparison with max_size, which reads locals only *)
Reserve(r) ==
  /\ pc[r] = "new"
  /\ offset' = [offset EXCEPT ![r] = write_pos]
  /\ write_pos' = write_pos + Size[r]
  /\ pc' = [pc EXCEPT ![r] =
              IF write_pos + Size[r] > MaxSize THEN "rollback" ELSE "write"]
  /\ UNCHANGED <<record_count, mmap, index, num, read>>

(* Mutant: a failed reservation is not given back *)
RollbackForgotten(r) ==
  /\ pc[r] = "rollback"
  /\ pc' = [pc EXCEPT ![r] = "full"]
  /\ UNCHANGED <<write_pos, record_count, mmap, index, offset, num, read>>

(* fetch_sub, then SegmentFull with the room that was left, max_size - offset. *)
(* When other rollbacks are outstanding, offset may be past max_size: the      *)
(* subtraction then wraps in a release build and panics in a debug build.      *)
Rollback(r) ==
  /\ pc[r] = "rollback"
  /\ write_pos' = write_pos - Size[r]
  /\ \/ pc' = [pc EXCEPT ![r] = "full"]
     \/ offset[r] > MaxSize /\ pc' = [pc EXCEPT ![r] = "panicked"]
  /\ UNCHANGED <<record_count, mmap, index, offset, num, read>>

(* Mutant: the copy runs one byte past the frame *)
WriteFramePastEnd(r) ==
  /\ pc[r] = "write"
  /\ mmap' = [p \in Bytes |-> IF p \in offset[r]..(offset[r] + Size[r]) THEN r ELSE mmap[p]]
  /\ pc' = [pc EXCEPT ![r] = "count"]
  /\ UNCHANGED <<write_pos, record_count, index, offset, num, read>>

(* copy_from_slice under the write lock of mmap *)
WriteFrame(r) ==
  /\ pc[r] = "write"
  /\ mmap' = [p \in Bytes |-> IF p \in Frame(r) THEN r ELSE mmap[p]]
  /\ pc' = [pc EXCEPT ![r] = "count"]
  /\ UNCHANGED <<write_pos, record_count, index, offset, num, read>>

(* Mutant: the record gets the number after its own *)
CountFromOne(r) ==
  /\ pc[r] = "count"
  /\ num' = [num EXCEPT ![r] = record_count + 1]
  /\ record_count' = record_count + 1
  /\ pc' = [pc EXCEPT ![r] = IF IndexEnabled THEN "index" ELSE "ok"]
  /\ UNCHANGED <<write_pos, mmap, index, offset, read>>

CountRecord(r) ==
  /\ pc[r] = "count"
  /\ num' = [num EXCEPT ![r] = record_count]
  /\ record_count' = record_count + 1
  /\ pc' = [pc EXCEPT ![r] = IF IndexEnabled THEN "index" ELSE "ok"]
  /\ UNCHANGED <<write_pos, mmap, index, offset, read>>

InsertIndex(r) ==
  /\ pc[r] = "index"
  /\ index' = [index EXCEPT ![offset[r]] = num[r]]
  /\ pc' = [pc EXCEPT ![r] = "ok"]
  /\ UNCHANGED <<write_pos, record_count, mmap, offset, num, read>>

-----------------------------------------------------------------------------
(* read_record *)

(* Record::deserialize on the bytes at..end-1 of the map *)
Decodes(r, at, end) ==
  /\ mmap[at] = r
  /\ offset[r] = at
  /\ at + Size[r] <= end
  /\ \A p \in Frame(r) : mmap[p] = r

(* Mutant: the slice that is decoded lacks its last byte *)
DeserializeShort(at, end) ==
  IF \E r \in Records : Decodes(r, at, end - 1) THEN mmap[at] ELSE "invalid"

Deserialize(at, end) ==
  IF \E r \in Records : Decodes(r, at, end) THEN mmap[at] ELSE "invalid"

AckedAt(at) == {r \in Records : pc[r] = "ok" /\ offset[r] = at}

(* The load of write_pos and the bounds check.  "acked" remembers which      *)
(* records had been acknowledged at that offset when the read began.        *)
ReadLoad(t, at) ==
  /\ read[t].pc # "slice"
  /\ read' = [read EXCEPT ![t] =
                IF at >= write_pos
                THEN [pc |-> "done", at |-> at, acked |-> AckedAt(at),
                      outcome |-> "out_of_bounds"]
                ELSE [pc |-> "slice", at |-> at, acked |-> AckedAt(at),
                      current_pos |-> write_pos]]
  /\ UNCHANGED appendVars

(* &mmap[offset..current_pos], which panics when current_pos > mmap.len() *)
ReadSlice(t) ==
  /\ read[t].pc = "slice"
  /\ LET at == read[t].at
         end == read[t].current_pos
     IN  read' = [read EXCEPT ![t] =
                    [pc |-> "done", at |-> at, acked |-> read[t].acked,
                     outcome |-> IF end > MaxSize THEN "panic" ELSE Deserialize(at, end)]]
  /\ UNCHANGED appendVars

(* read_record_by_num: the index entry with that number, then read_record *)
ReadByNum(t, n) ==
  /\ IndexEnabled
  /\ \E at \in Bytes : index[at] = n /\ ReadLoad(t, at)

AppendNext(r) ==
  Reserve(r) \/ Rollback(r) \/ WriteFrame(r) \/ CountRecord(r) \/ InsertIndex(r)

ReadNext(t) ==
  \/ \E at \in Bytes : ReadLoad(t, at)
  \/ \E n \in 0..Cardinality(Records) : ReadByNum(t, n)
  \/ ReadSlice(t)

Next == (\E r \in Records : AppendNext(r)) \/ (\E t \in Readers : ReadNext(t))

Spec == Init /\ [][Next]_vars

-----------------------------------------------------------------------------
Pending == {r \in Records : pc[r] = "rollback"}

(* No two successful reservations share a byte, and none passes max_size:  *)
(* what "Atomically reserve space" in append_record stands for.            *)
ReservationsDisjoint ==
  /\ \A r \in Records : pc[r] \in Reserved =>
       offset[r] >= 0 /\ offset[r] + Size[r] <= MaxSize
  /\ \A r, q \in Records :
       pc[r] \in Reserved /\ pc[q] \in Reserved /\ r # q =>
         \/ offset[r] + Size[r] <= offset[q]
         \/ offset[q] + Size[q] <= offset[r]

(* A record whose frame has been written stays intact where append_record  *)
(* put it, and below write_pos: no later append overwrites it.             *)
WrittenIntact ==
  \A r \in Records : pc[r] \in {"count", "index", "ok"} =>
    Decodes(r, offset[r], write_pos)

(* A read_record that starts after the append at that offset returned Ok   *)
(* gives that very record, or panics: while a failed append has not rolled *)
(* back, the slice may end past the map.                                   *)
ReadAfterAck ==
  \A t \in Readers :
    read[t].pc = "done" /\ read[t].acked # {} =>
      read[t].outcome = "panic" \/ read[t].acked = {read[t].outcome}

(* Record numbers are handed out without gap or repetition, and the index  *)
(* leads from the number of an acknowledged record to its offset.          *)
NumbersAndIndexAgree ==
  LET Counted == {r \in Records : pc[r] \in {"index", "ok"}}
  IN  /\ {num[r] : r \in Counted} = 0..(record_count - 1)
      /\ Cardinality(Counted) = record_count
      /\ IndexEnabled => \A r \in Records :
           pc[r] = "ok" => {at \in Bytes : index[at] = num[r]} = {offset[r]}
=============================================================================
