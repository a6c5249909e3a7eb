--------------------------- MODULE SegmentManager ---------------------------
(***************************************************************************)
(* Segment rotation of the storage engine: SegmentManager of               *)
(* src/src/storage.rs over its lock-free RecordSegments.                   *)
(*                                                                         *)
(* append_record looks at the current segment, tries to append there, and  *)
(* otherwise takes segment_creation_lock, looks again, and creates a       *)
(* segment if there is still no room; then it starts over.  Between any    *)
(* two of these steps other calls run.  Of a RecordSegment only write_pos  *)
(* matters here (the bytes are in RecordSegment.tla), so an append to a    *)
(* segment is its fetch_add and, if it fails, its fetch_sub.               *)
(***************************************************************************)
EXTENDS Integers, Sequences, FiniteSets

CONSTANTS Records,      \* the calls of append_record, one record each
          Size,         \* serialized_size of each record
          SegmentSize,  \* segment_size
          NoOne         \* the creation lock is free

ASSUME ManagerAssumption ==
  /\ IsFiniteSet(Records) /\ Records # {}
  /\ SegmentSize \in Nat
  /\ Size \in [Records -> Nat \ {0}]
  /\ NoOne \notin Records

(* Every record fits into an empty segment.  append_record does not see to *)
(* it: with a larger record it creates empty segments without end.         *)
RecordsFit == \A r \in Records : Size[r] <= SegmentSize

VARIABLES
  write_pos,   \* segments: the write_pos of each; current_segment is the last
  lock,        \* segment_creation_lock: its holder
  pc,          \* pc[r]: where the call of r is
  segment,     \* segment[r]: the segment the call of r works on
  placed       \* placed[r]: the segment that took r, 0 when none has

vars == <<write_pos, lock, pc, segment, placed>>

(* A call that has bytes to give back: "overshot" when its fetch_add already *)
(* returned more than segment_size.                                         *)
GivingBack == {"rollback", "overshot"}
Returned == {"ok", "err", "panicked"}
PCs == {"check", "append", "lock", "recheck", "create"} \cup GivingBack \cup Returned
Current == Len(write_pos)
HasSpace(s, r) == write_pos[s] + Size[r] <= SegmentSize

TypeOK ==
  /\ write_pos \in Seq(Nat)
  /\ lock \in Records \cup {NoOne}
  /\ pc \in [Records -> PCs]
  /\ segment \in [Records -> Nat]
  /\ placed \in [Records -> Nat]

(* SegmentManager::new creates the first segment *)
Init ==
  /\ write_pos = <<0>>
  /\ lock = NoOne
  /\ pc = [r \in Records |-> "check"]
  /\ segment = [r \in Records |-> 0]
  /\ placed = [r \in Records |-> 0]

-----------------------------------------------------------------------------
(* Fast path: has_space under the read lock of current_segment *)
Check(r) ==
  /\ pc[r] = "check"
  /\ IF HasSpace(Current, r)
     THEN /\ segment' = [segment EXCEPT ![r] = Current]
          /\ pc' = [pc EXCEPT ![r] = "append"]
     ELSE /\ pc' = [pc EXCEPT ![r] = "lock"]
          /\ UNCHANGED segment
  /\ UNCHANGED <<write_pos, lock, placed>>

(* The fetch_add of RecordSegment::append_record, on the segment that was   *)
(* found to have room, current or not                                       *)
TryAppend(r) ==
  /\ pc[r] = "append"
  /\ LET s == segment[r]
     IN  /\ write_pos' = [write_pos EXCEPT ![s] = @ + Size[r]]
         /\ IF HasSpace(s, r)
            THEN /\ placed' = [placed EXCEPT ![r] = s]
                 /\ pc' = [pc EXCEPT ![r] = "ok"]
            ELSE /\ pc' = [pc EXCEPT ![r] =
                             IF write_pos[s] > SegmentSize THEN "overshot" ELSE "rollback"]
                 /\ UNCHANGED placed
  /\ UNCHANGED <<lock, segment>>

(* Its fetch_sub; SegmentFull makes the manager go on to the slow path.  The *)
(* error states the room that was left, max_size - offset: after an offset  *)
(* past the end this wraps in a release build and panics in a debug build.  *)
Rollback(r) ==
  /\ pc[r] \in GivingBack
  /\ write_pos' = [write_pos EXCEPT ![segment[r]] = @ - Size[r]]
  /\ \/ pc' = [pc EXCEPT ![r] = "lock"]
     \/ pc[r] = "overshot" /\ pc' = [pc EXCEPT ![r] = "panicked"]
  /\ UNCHANGED <<lock, segment, placed>>

(* segment_creation_lock.lock().await *)
Lock(r) ==
  /\ pc[r] = "lock"
  /\ lock = NoOne
  /\ lock' = r
  /\ pc' = [pc EXCEPT ![r] = "recheck"]
  /\ UNCHANGED <<write_pos, segment, placed>>

(* Mutant: no second look under the lock *)
RecheckSkipped(r) ==
  /\ pc[r] = "recheck"
  /\ pc' = [pc EXCEPT ![r] = "create"]
  /\ UNCHANGED <<write_pos, lock, segment, placed>>

(* Mutant: the second look takes it for granted that another call created *)
RecheckTrusting(r) ==
  /\ pc[r] = "recheck"
  /\ lock' = NoOne
  /\ pc' = [pc EXCEPT ![r] = "check"]
  /\ UNCHANGED <<write_pos, segment, placed>>

(* Double-check: with room again, the guard is dropped and the loop restarts *)
Recheck(r) ==
  /\ pc[r] = "recheck"
  /\ IF HasSpace(Current, r)
     THEN lock' = NoOne /\ pc' = [pc EXCEPT ![r] = "check"]
     ELSE pc' = [pc EXCEPT ![r] = "create"] /\ UNCHANGED lock
  /\ UNCHANGED <<write_pos, segment, placed>>

(* create_new_segment; the guard is dropped at the end of the loop body *)
Create(r) ==
  /\ pc[r] = "create"
  /\ write_pos' = Append(write_pos, 0)
  /\ lock' = NoOne
  /\ pc' = [pc EXCEPT ![r] = "check"]
  /\ UNCHANGED <<segment, placed>>

(* The file cannot be created or mapped: append_record returns the error *)
CreateFails(r) ==
  /\ pc[r] = "create"
  /\ lock' = NoOne
  /\ pc' = [pc EXCEPT ![r] = "err"]
  /\ UNCHANGED <<write_pos, segment, placed>>

Step(r) ==
  \/ Check(r) \/ TryAppend(r) \/ Rollback(r) \/ Lock(r) \/ Recheck(r)
  \/ Create(r) \/ CreateFails(r)

AllReturned == (\A r \in Records : pc[r] \in Returned) /\ UNCHANGED vars

Next == (\E r \in Records : Step(r)) \/ AllReturned

(* Every call is a task or thread that keeps running, and segment_creation_lock *)
(* is handed to its waiters in turn.                                        *)
Spec == Init /\ [][Next]_vars /\ \A r \in Records : WF_vars(Step(r))

-----------------------------------------------------------------------------
PlacedIn(s) == {r \in Records : placed[r] = s}

(* Double-checked locking in append_record creates no segment too many when *)
(* every record fits a segment: none is left behind empty, so there are     *)
(* never more segments than records, however many calls find the current    *)
(* one full at the same time.                                               *)
NoSegmentWasted ==
  /\ \A s \in 1..(Current - 1) : PlacedIn(s) # {}
  /\ Current <= Cardinality(Records)

(* When every record fits a segment, every call of append_record ends, with *)
(* an offset, with the error of a failed segment creation or with the panic *)
(* of Rollback: no call retries or waits for ever.                          *)
AppendsReturn == \A r \in Records : <>(pc[r] \in Returned)
=============================================================================
