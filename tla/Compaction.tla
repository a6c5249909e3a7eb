----------------------------- MODULE Compaction -----------------------------
(***************************************************************************)
(* Segment compaction (src/src/compaction.rs) over segments that are still *)
(* written: CompactionManager::compact_segment, its background worker and  *)
(* merge_segments, with the RecordIterator of src/src/storage.rs.          *)
(*                                                                         *)
(* Records take one slot of a segment of Capacity slots.  append_record is *)
(* the protocol of RecordSegment.tla: reserve, then write or roll back.    *)
(* Segments that are written to are never replaced: the code keeps the     *)
(* compacted copy beside the original.                                     *)
(***************************************************************************)
EXTENDS Integers, Sequences, FiniteSets, SequencesExt

CONSTANTS Records,     \* records, one append_record call each
          Stored,      \* those that were appended before, at most one to a segment
          SegmentOf,   \* SegmentOf[r]: the segment that r is appended to
          Candidates,  \* the segments, as the segment provider lists them
          Capacity,    \* slots of a source segment
          TargetSize,  \* slots of an output segment
          MinUsed,     \* min_utilization, as slots
          MaxPerRun,   \* max_segments_per_run
          Calls,       \* direct calls of compact_segment or merge_segments
          Target,      \* Target[c]: the segment that call c compacts
          Worker,      \* the background worker
          MaxFaults,   \* bound: frames that get corrupted, outputs that cannot be created
          Empty, Bad   \* an unwritten and a corrupted frame

Segments == Range(Candidates)
Jobs == Calls \cup {Worker}

ASSUME CompactionAssumption ==
  /\ IsFiniteSet(Records) /\ SegmentOf \in [Records -> Segments]
  /\ Stored \subseteq Records
  /\ \A q, r \in Stored : SegmentOf[q] = SegmentOf[r] => q = r
  /\ Candidates \in Seq(Segments) /\ IsInjective(Candidates)   \* every segment once
  /\ Capacity \in Nat /\ TargetSize \in Nat /\ MinUsed \in Nat /\ MaxFaults \in Nat
  /\ Stored # {} => Capacity > 0
  /\ MaxPerRun \in Nat \ {0}
  /\ Worker \notin Calls /\ Target \in [Calls -> Segments]
  /\ Empty \notin Records /\ Bad \notin Records

VARIABLES
  write_pos,    \* write_pos[s]: slots reserved in s
  frames,       \* frames[s][i]: the frame in slot i
  append,       \* append[r]: where append_record of r is
  slot,         \* slot[r]: the slot that r reserved
  in_progress,  \* CompactionManager.in_progress
  pc,           \* pc[j]: where job j is
  merging,      \* the calls that are calls of merge_segments
  todo,         \* todo[j]: the segments that j has before it, the current one first
  cur, end,     \* cur[j], end[j]: current_offset and end_offset of its iterator
  out,          \* out[j]: the records of its output segment
  compacted,    \* segments the worker has compacted since its last tick
  known,        \* known[j]: records that were acknowledged when j came to read them
  wedged,       \* a compaction ended without clearing in_progress
  faults

segmentVars == <<write_pos, frames, append, slot>>
jobVars == <<pc, merging, todo, cur, end, out, compacted, known>>
vars == <<segmentVars, in_progress, jobVars, wedged, faults>>

Running == {"create", "copying"}
Exclusive == Jobs \ merging   \* the jobs that go through compact_segment

TypeOK ==
  /\ write_pos \in [Segments -> 0..(Capacity + Cardinality(Records))]
  /\ frames \in [Segments -> [1..Capacity -> Records \cup {Empty, Bad}]]
  /\ append \in [Records -> {"new", "reserved", "overfull", "ok", "full"}]
  /\ slot \in [Records -> Nat]
  /\ in_progress \in BOOLEAN /\ wedged \in BOOLEAN
  /\ pc \in [Jobs -> Running \cup {"idle", "scan", "returned", "panicked"}]
  /\ merging \subseteq Calls
  /\ todo \in [Jobs -> Seq(Segments)]
  /\ cur \in [Jobs -> 0..Capacity] /\ end \in [Jobs -> Nat]
  /\ out \in [Jobs -> Seq(Records)] /\ \A j \in Jobs : Len(out[j]) <= TargetSize
  /\ compacted \in 0..MaxPerRun
  /\ known \in [Jobs -> SUBSET Records]
  /\ faults \in 0..MaxFaults

Init ==
  /\ write_pos = [s \in Segments |-> Cardinality({r \in Stored : SegmentOf[r] = s})]
  /\ frames = [s \in Segments |-> [i \in 1..Capacity |->
       IF i <= write_pos[s] THEN CHOOSE r \in Stored : SegmentOf[r] = s ELSE Empty]]
  /\ append = [r \in Records |-> IF r \in Stored THEN "ok" ELSE "new"]
  /\ slot = [r \in Records |-> IF r \in Stored THEN 1 ELSE 0]
  /\ in_progress = FALSE /\ wedged = FALSE
  /\ pc = [j \in Jobs |-> "idle"]
  /\ merging = {}
  /\ todo = [j \in Jobs |-> <<>>]
  /\ cur = [j \in Jobs |-> 0] /\ end = [j \in Jobs |-> 0]
  /\ out = [j \in Jobs |-> <<>>]
  /\ compacted = 0
  /\ known = [j \in Jobs |-> {}]
  /\ faults = 0

-----------------------------------------------------------------------------
(* append_record: fetch_add *)
Reserve(r) ==
  LET s == SegmentOf[r]
  IN  /\ append[r] = "new"
      /\ write_pos' = [write_pos EXCEPT ![s] = @ + 1]
      /\ slot' = [slot EXCEPT ![r] = write_pos[s] + 1]
      /\ append' = [append EXCEPT ![r] = IF write_pos[s] < Capacity THEN "reserved" ELSE "overfull"]
      /\ UNCHANGED <<frames, in_progress, jobVars, wedged, faults>>

(* fetch_sub and SegmentFull, or the panic that RecordSegment.tla describes: *)
(* the append is over.                                                      *)
Rollback(r) ==
  /\ append[r] = "overfull"
  /\ write_pos' = [write_pos EXCEPT ![SegmentOf[r]] = @ - 1]
  /\ append' = [append EXCEPT ![r] = "full"]
  /\ UNCHANGED <<frames, slot, in_progress, jobVars, wedged, faults>>

(* the copy into the map *)
Write(r) ==
  /\ append[r] = "reserved"
  /\ frames' = [frames EXCEPT ![SegmentOf[r]][slot[r]] = r]
  /\ append' = [append EXCEPT ![r] = "ok"]
  /\ UNCHANGED <<write_pos, slot, in_progress, jobVars, wedged, faults>>

(* A frame goes bad: what "Skipping corrupted record" is for *)
Corrupt ==
  /\ faults < MaxFaults
  /\ \E s \in Segments, i \in 1..Capacity :
       /\ frames[s][i] \in Records
       /\ frames' = [frames EXCEPT ![s][i] = Bad]
  /\ faults' = faults + 1
  /\ UNCHANGED <<write_pos, append, slot, in_progress, jobVars, wedged>>

-----------------------------------------------------------------------------
Goto(j, l) == pc' = [pc EXCEPT ![j] = l]

(* The job is through with the segment at hand: the worker goes to the next *)
(* candidate, unless it has compacted enough, and a call returns.           *)
Advance(j, done) ==
  /\ Goto(j, IF j = Worker THEN "scan" ELSE "returned")
  /\ compacted' = IF j = Worker /\ done THEN compacted + 1 ELSE compacted
  /\ todo' = [todo EXCEPT ![j] = IF j = Worker /\ compacted' < MaxPerRun THEN Tail(@) ELSE <<>>]
  /\ cur' = [cur EXCEPT ![j] = 0] /\ end' = [end EXCEPT ![j] = 0]
  /\ out' = [out EXCEPT ![j] = <<>>] /\ known' = [known EXCEPT ![j] = {}]

(* The worker's tick: it asks the provider for segments *)
Tick ==
  /\ pc[Worker] = "idle"
  /\ Goto(Worker, "scan")
  /\ todo' = [todo EXCEPT ![Worker] = Candidates]
  /\ compacted' = 0
  /\ UNCHANGED <<segmentVars, merging, in_progress, cur, end, out, known, wedged, faults>>

(* The candidates are done; the worker waits for the next tick. *)
ScanEnds ==
  /\ pc[Worker] = "scan" /\ todo[Worker] = <<>>
  /\ Goto(Worker, "idle")
  /\ UNCHANGED <<segmentVars, merging, in_progress, todo, cur, end, out, compacted, known, wedged, faults>>

(* needs_compaction; whether the segment is old enough is left to chance *)
NeedsCompaction(s) == Capacity > 0 /\ write_pos[s] < MinUsed

(* needs_compaction says no: too well used, or too young *)
Pass ==
  /\ pc[Worker] = "scan" /\ todo[Worker] # <<>>
  /\ todo' = [todo EXCEPT ![Worker] = Tail(@)]
  /\ UNCHANGED <<segmentVars, merging, in_progress, pc, cur, end, out, compacted, known, wedged, faults>>

(* compact_segment is called, by the worker or directly *)
Called(j) ==
  \/ j = Worker /\ pc[j] = "scan" /\ todo[j] # <<>> /\ NeedsCompaction(Head(todo[j]))
  \/ j \in Calls /\ pc[j] = "idle"

(* Mutant: the flag is tested under the read lock and set later *)
ClaimLate(j) ==
  /\ Called(j)
  /\ in_progress' = in_progress
  /\ Goto(j, "create")
  /\ todo' = IF j = Worker THEN todo ELSE [todo EXCEPT ![j] = <<Target[j]>>]
  /\ UNCHANGED <<segmentVars, merging, cur, end, out, compacted, known, wedged, faults>>

(* and sets in_progress *)
Claim(j) ==
  /\ Called(j) /\ ~ in_progress
  /\ in_progress' = TRUE
  /\ Goto(j, "create")
  /\ todo' = IF j = Worker THEN todo ELSE [todo EXCEPT ![j] = <<Target[j]>>]
  /\ UNCHANGED <<segmentVars, merging, cur, end, out, compacted, known, wedged, faults>>

(* or returns the error InProgress *)
Busy(j) ==
  /\ Called(j) /\ in_progress
  /\ Advance(j, FALSE)
  /\ UNCHANGED <<segmentVars, merging, in_progress, wedged, faults>>

(* merge_segments takes no flag *)
Merge(j) ==
  /\ pc[j] = "idle" /\ j \in Calls
  /\ merging' = merging \cup {j}
  /\ Goto(j, "create")
  /\ todo' = [todo EXCEPT ![j] = Candidates]
  /\ UNCHANGED <<segmentVars, in_progress, cur, end, out, compacted, known, wedged, faults>>

(* `?' returns the error, and in_progress stays set *)
Fail(j) ==
  /\ Advance(j, FALSE)
  /\ wedged' = (wedged \/ j \in Exclusive)
  /\ UNCHANGED <<segmentVars, merging, in_progress>>

CreateFails(j) ==
  /\ pc[j] = "create" /\ faults < MaxFaults
  /\ faults' = faults + 1
  /\ Fail(j)

(* Mutant: the iterator ends after as many slots as there are whole records *)
OpenCounted(j, s) ==
  LET acked == {r \in Records : SegmentOf[r] = s /\ append[r] = "ok"}
  IN  /\ end' = [end EXCEPT ![j] = Cardinality(acked)]
      /\ cur' = [cur EXCEPT ![j] = 0]
      /\ known' = [known EXCEPT ![j] = @ \cup acked]
      /\ Goto(j, "copying")

(* iter_records: the end is the write position of this moment *)
Open(j, s) ==
  LET acked == {r \in Records : SegmentOf[r] = s /\ append[r] = "ok"}
  IN  /\ end' = [end EXCEPT ![j] = write_pos[s]]
      /\ cur' = [cur EXCEPT ![j] = 0]
      /\ known' = [known EXCEPT ![j] = @ \cup acked]
      /\ Goto(j, "copying")

(* The output segment is created, and the copy loop begins *)
Create(j) ==
  /\ pc[j] = "create"
  /\ Open(j, Head(todo[j]))
  /\ UNCHANGED <<segmentVars, merging, in_progress, todo, out, compacted, wedged, faults>>

More(j) == pc[j] = "copying" /\ cur[j] < end[j]

(* The iterator reads a record, and the output takes it or is full.  A     *)
(* frame that does not read is reported and read again: the iterator does  *)
(* not move, and the loop goes round without changing anything.            *)
Copy(j) ==
  LET s == Head(todo[j])
  IN  /\ More(j) /\ cur[j] < write_pos[s] /\ write_pos[s] <= Capacity
      /\ frames[s][cur[j] + 1] \in Records
      /\ IF Len(out[j]) < TargetSize
         THEN /\ out' = [out EXCEPT ![j] = Append(@, frames[s][cur[j] + 1])]
              /\ cur' = [cur EXCEPT ![j] = @ + 1]
              /\ UNCHANGED <<segmentVars, merging, in_progress, pc, todo, end, compacted, known, wedged>>
         ELSE Fail(j)
      /\ UNCHANGED faults

(* A read while an append that found the segment full has not rolled back: *)
(* the slice runs past the map, and the task dies with the flag set.  The  *)
(* program goes on in builds that unwind; the release profile aborts it.   *)
Panic(j) ==
  /\ More(j) /\ write_pos[Head(todo[j])] > Capacity
  /\ Goto(j, "panicked")
  /\ wedged' = (wedged \/ j \in Exclusive)
  /\ UNCHANGED <<segmentVars, merging, in_progress, todo, cur, end, out, compacted, known, faults>>

(* The segment is copied: merge_segments opens the next one, if any *)
NextOrReturn(j) ==
  IF j \in merging /\ Len(todo[j]) > 1
  THEN /\ Open(j, todo[j][2])
       /\ todo' = [todo EXCEPT ![j] = Tail(@)]
       /\ UNCHANGED <<compacted, out>>
  ELSE Advance(j, TRUE)

(* Mutant: the end of the iterator is taken for one more record *)
FinishLate(j) ==
  /\ pc[j] = "copying" /\ cur[j] > end[j]
  /\ Advance(j, TRUE)
  /\ in_progress' = FALSE
  /\ UNCHANGED <<segmentVars, merging, wedged, faults>>

(* compact_segment clears the flag *)
Finish(j) ==
  /\ pc[j] = "copying" /\ cur[j] >= end[j]
  /\ NextOrReturn(j)
  /\ in_progress' = IF j \in Exclusive THEN FALSE ELSE in_progress
  /\ UNCHANGED <<segmentVars, merging, wedged, faults>>

AppendStep(r) == Reserve(r) \/ Rollback(r) \/ Write(r)
JobStep(j) == Claim(j) \/ Busy(j) \/ Merge(j) \/ Create(j) \/ Copy(j) \/ Finish(j)

Next ==
  \/ \E r \in Records : AppendStep(r)
  \/ \E j \in Jobs : JobStep(j) \/ CreateFails(j) \/ Panic(j)
  \/ Tick \/ ScanEnds \/ Pass
  \/ Corrupt

(* Appends under way and jobs run on; the worker scans its candidates to   *)
(* the end.  Nothing has to fail, and no append has to be called.          *)
Spec ==
  /\ Init /\ [][Next]_vars
  /\ \A r \in Records : WF_vars(Rollback(r) \/ Write(r))
  /\ \A j \in Jobs : WF_vars(JobStep(j) \/ Panic(j))
  /\ WF_vars(ScanEnds \/ Pass)

-----------------------------------------------------------------------------
(* in_progress admits one compaction at a time, and it is set exactly as   *)
(* long as one is running, until one ends in an error: then for ever.      *)
ClaimIsExclusive ==
  LET active == {j \in Exclusive : pc[j] \in Running}
  IN  /\ Cardinality(active) <= 1
      /\ in_progress = (active # {} \/ wedged)

(* A copy that has come to the end holds every record whose append had     *)
(* returned when its segment was opened, each once, in the source's order. *)
CompleteCopy ==
  \A j \in Jobs : pc[j] = "copying" /\ cur[j] >= end[j] =>
    /\ known[j] \subseteq Range(out[j])
    /\ IsInjective(out[j])
    /\ \A a, b \in DOMAIN out[j] :
         a < b /\ SegmentOf[out[j][a]] = SegmentOf[out[j][b]] =>
           slot[out[j][a]] < slot[out[j][b]]

(* The iterator can read nothing more and will not end either: it stands   *)
(* on a corrupted frame, or its end was taken while an append that later   *)
(* rolled back stood in write_pos.                                         *)
Stuck(j) ==
  /\ More(j)
  /\ \/ cur[j] >= write_pos[Head(todo[j])]
     \/ frames[Head(todo[j])][cur[j] + 1] = Bad

(* Every compaction and merge ends, and the worker comes back for its next *)
(* tick, unless the copy loop is stuck: frames that are reserved and not   *)
(* written yet only delay it.                                              *)
JobsEndUnlessStuck ==
  \A j \in Jobs :
    pc[j] \in Running ~> pc[j] \in {"idle", "returned", "panicked"} \/ Stuck(j)

(* The types and the claim of in_progress, through every early return,      *)
(* error and panic of compact_segment.                                      *)
CompactionInv == TypeOK /\ ClaimIsExclusive
=============================================================================
