-------------------------- MODULE CompactionProofs --------------------------
(***************************************************************************)
(* Proofs about Compaction.tla: in_progress is an exclusive claim, and a   *)
(* copy that came to the end of its segment is complete, whatever is       *)
(* appended, rolled back, corrupted or refused meanwhile.                  *)
(***************************************************************************)
EXTENDS Compaction, SequenceTheorems, FiniteSetTheorems, TLAPS

-----------------------------------------------------------------------------
(* What append_record keeps *)
Over(s) == {r \in Records : SegmentOf[r] = s /\ append[r] = "overfull"}
Placed(r) == append[r] \in {"reserved", "ok"}

(* Reservations beyond the capacity are the ones about to be rolled back:   *)
(* while there is one, the others fill the segment.                         *)
OverCounted ==
  \A s \in Segments :
    /\ write_pos[s] <= Capacity + Cardinality(Over(s))
    /\ Over(s) # {} => write_pos[s] = Capacity + Cardinality(Over(s))

SlotsDisjoint ==
  /\ \A r \in Records : Placed(r) => /\ 1 <= slot[r] /\ slot[r] <= Capacity
                                     /\ slot[r] <= write_pos[SegmentOf[r]]
  /\ \A q, r \in Records :
       Placed(q) /\ Placed(r) /\ SegmentOf[q] = SegmentOf[r] /\ slot[q] = slot[r] => q = r

FramesOfAcked ==
  \A s \in Segments, i \in 1..Capacity, r \in Records :
    frames[s][i] = r => append[r] = "ok" /\ SegmentOf[r] = s /\ slot[r] = i

-----------------------------------------------------------------------------
(* What the jobs keep *)
ActiveJob(j) == j \in Exclusive /\ pc[j] \in Running

OneClaim ==
  /\ \A j, k \in Jobs : ActiveJob(j) /\ ActiveJob(k) => j = k
  /\ in_progress <=> wedged \/ \E j \in Jobs : ActiveJob(j)
  /\ wedged => \A j \in Jobs : ~ ActiveJob(j)
  /\ \A j \in merging : pc[j] # "idle"

TodoInv ==
  /\ \A j \in Jobs : IsInjective(todo[j]) /\ (pc[j] \in Running => todo[j] # <<>>)
  /\ todo[Worker] # <<>> => compacted < MaxPerRun

(* A job that copies nothing has nothing in its output. *)
AtRest ==
  \A j \in Jobs : pc[j] \notin {"copying", "panicked"} => out[j] = <<>> /\ known[j] = {}

(* The slots before cur[j] are written, and their records are in the output; *)
(* the output holds no other record of the segments that are left.           *)
CopiedUpTo(j) ==
  /\ cur[j] <= write_pos[todo[j][1]]
  /\ \A r \in Records : Placed(r) /\ SegmentOf[r] = todo[j][1] /\ slot[r] <= cur[j] =>
       append[r] = "ok" /\ \E a \in DOMAIN out[j] : out[j][a] = r
  /\ \A a \in DOMAIN out[j] :
       /\ append[out[j][a]] = "ok"
       /\ \A k \in DOMAIN todo[j] :
            SegmentOf[out[j][a]] = todo[j][k] => k = 1 /\ slot[out[j][a]] <= cur[j]

InSourceOrder(j) ==
  /\ IsInjective(out[j])
  /\ \A a, b \in DOMAIN out[j] :
       a < b /\ SegmentOf[out[j][a]] = SegmentOf[out[j][b]] => slot[out[j][a]] < slot[out[j][b]]

(* What was acknowledged at the opening is in the output or still ahead. *)
KnownAhead(j) ==
  \A r \in known[j] :
    /\ append[r] = "ok"
    /\ \/ \E a \in DOMAIN out[j] : out[j][a] = r
       \/ SegmentOf[r] = todo[j][1] /\ slot[r] <= end[j]

CopyInv == \A j \in Jobs : pc[j] = "copying" => CopiedUpTo(j) /\ InSourceOrder(j) /\ KnownAhead(j)

SegInv == OverCounted /\ SlotsDisjoint /\ FramesOfAcked

-----------------------------------------------------------------------------
(* Appends *)
SegTypes ==
  /\ write_pos \in [Segments -> Nat]
  /\ frames \in [Segments -> [1..Capacity -> Records \cup {Empty, Bad}]]
  /\ append \in [Records -> {"new", "reserved", "overfull", "ok", "full"}]
  /\ slot \in [Records -> Nat]

LEMMA OverFinite ==
  \A s \in Segments :
    /\ IsFiniteSet(Over(s)) /\ Cardinality(Over(s)) \in Nat
    /\ Cardinality(Over(s)) <= Cardinality(Records)
    /\ Over(s) # {} => Cardinality(Over(s)) > 0
<1> SUFFICES ASSUME NEW s \in Segments
             PROVE  /\ IsFiniteSet(Over(s)) /\ Cardinality(Over(s)) \in Nat
                    /\ Cardinality(Over(s)) <= Cardinality(Records)
                    /\ Over(s) # {} => Cardinality(Over(s)) > 0
  OBVIOUS
<1>1. IsFiniteSet(Records) /\ Over(s) \subseteq Records
  BY CompactionAssumption DEF Over
<1>2. IsFiniteSet(Over(s)) /\ Cardinality(Over(s)) <= Cardinality(Records)
  BY <1>1, FS_Subset
<1>3. Cardinality(Over(s)) \in Nat
  BY <1>2, FS_CardinalityType
<1>4. Over(s) # {} => Cardinality(Over(s)) # 0
  BY <1>2, FS_EmptySet
<1> QED
  BY <1>2, <1>3, <1>4

LEMMA WithinBound ==
  SegTypes /\ OverCounted => write_pos \in [Segments -> 0..(Capacity + Cardinality(Records))]
<1> SUFFICES ASSUME SegTypes, OverCounted, NEW s \in Segments
             PROVE  write_pos[s] \in 0..(Capacity + Cardinality(Records))
  BY DEF SegTypes
<1>1. Cardinality(Records) \in Nat
  BY CompactionAssumption, FS_CardinalityType
<1> QED
  BY <1>1, OverFinite, CompactionAssumption DEF SegTypes, OverCounted

LEMMA ReserveStep ==
  ASSUME SegTypes, SegInv, NEW r \in Records, Reserve(r)
  PROVE  SegTypes' /\ SegInv'
<1> DEFINE s == SegmentOf[r]
<1>0. s \in Segments /\ Capacity \in Nat
  BY CompactionAssumption
<1>1. /\ append[r] = "new" /\ write_pos' = [write_pos EXCEPT ![s] = @ + 1]
      /\ slot' = [slot EXCEPT ![r] = write_pos[s] + 1] /\ frames' = frames
      /\ append' = [append EXCEPT ![r] = IF write_pos[s] < Capacity THEN "reserved" ELSE "overfull"]
  BY DEF Reserve
<1>2. SegTypes'
  BY <1>0, <1>1 DEF SegTypes
<1>3. \A t \in Segments : t # s => Over(t)' = Over(t)
  BY <1>1 DEF Over, SegTypes
<1>4. CASE write_pos[s] < Capacity
  <2>1. Over(s) = {}
    BY <1>0, <1>4, OverFinite DEF SegInv, OverCounted, SegTypes
  <2>2. Over(s)' = {}
    BY <1>1, <1>4, <2>1 DEF Over, SegTypes
  <2>3. OverCounted'
    <3>1. write_pos'[s] <= Capacity + 0
      BY <1>0, <1>1, <1>4 DEF SegTypes
    <3> QED
      BY <1>0, <1>1, <1>3, <2>1, <2>2, <3>1, FS_EmptySet DEF SegInv, OverCounted, SegTypes
  <2>4. append'[r] = "reserved" /\ slot'[r] = write_pos[s] + 1 /\ Placed(r)'
    BY <1>1, <1>4 DEF SegTypes, Placed
  <2>5. \A q \in Records : q # r => (Placed(q)' <=> Placed(q)) /\ slot'[q] = slot[q]
    BY <1>1 DEF SegTypes, Placed
  <2>6. SlotsDisjoint'
    BY <1>0, <1>1, <1>4, <2>4, <2>5 DEF SegInv, SlotsDisjoint, SegTypes
  <2> QED
    BY <1>1, <1>2, <2>3, <2>4, <2>6 DEF SegInv, FramesOfAcked, SegTypes
<1>5. CASE ~ (write_pos[s] < Capacity)
  <2>1. Over(s)' = Over(s) \cup {r} /\ r \notin Over(s)
    BY <1>1, <1>5 DEF Over, SegTypes
  <2>2. Cardinality(Over(s)') = Cardinality(Over(s)) + 1
    BY <1>0, <2>1, OverFinite, FS_AddElement
  <2>3. write_pos[s] = Capacity + Cardinality(Over(s))
    BY <1>0, <1>5, OverFinite, FS_EmptySet DEF SegInv, OverCounted, SegTypes
  <2>4. write_pos'[s] = Capacity + Cardinality(Over(s)')
    BY <1>0, <1>1, <2>2, <2>3, OverFinite DEF SegTypes
  <2>5. OverCounted'
    BY <1>0, <1>1, <1>3, <2>4 DEF SegInv, OverCounted, SegTypes
  <2>6. \A q \in Records : (Placed(q)' <=> Placed(q)) /\ (Placed(q) => slot'[q] = slot[q])
    BY <1>1, <1>5 DEF SegTypes, Placed
  <2>7. \A t \in Segments : write_pos'[t] >= write_pos[t]
    BY <1>1 DEF SegTypes
  <2>8. SlotsDisjoint'
    <3>1. \A q \in Records : SegmentOf[q] \in Segments
      BY CompactionAssumption
    <3> QED
      BY <1>0, <1>2, <2>6, <2>7, <3>1 DEF SegInv, SlotsDisjoint, SegTypes
  <2> QED
    BY <1>1, <1>2, <2>5, <2>8 DEF SegInv, FramesOfAcked, SegTypes
<1> QED
  BY <1>4, <1>5

LEMMA RollbackStep ==
  ASSUME SegTypes, SegInv, NEW r \in Records, Rollback(r)
  PROVE  /\ SegTypes' /\ SegInv'
         /\ \A s \in Segments : \A n \in Nat : n <= Capacity /\ n <= write_pos[s] => n <= write_pos'[s]
<1> DEFINE s == SegmentOf[r]
<1>0. s \in Segments /\ Capacity \in Nat /\ \A q \in Records : SegmentOf[q] \in Segments
  BY CompactionAssumption
<1>1. /\ append[r] = "overfull" /\ write_pos' = [write_pos EXCEPT ![s] = @ - 1]
      /\ slot' = slot /\ frames' = frames /\ append' = [append EXCEPT ![r] = "full"]
  BY DEF Rollback
<1>2. r \in Over(s) /\ Over(s)' = Over(s) \ {r} /\ \A t \in Segments : t # s => Over(t)' = Over(t)
  BY <1>1 DEF Over, SegTypes
<1>3. Cardinality(Over(s)') = Cardinality(Over(s)) - 1
  BY <1>0, <1>2, OverFinite, FS_RemoveElement
<1>4. write_pos[s] = Capacity + Cardinality(Over(s)) /\ Cardinality(Over(s)) > 0
  BY <1>0, <1>2, OverFinite DEF SegInv, OverCounted
<1>5. write_pos'[s] = write_pos[s] - 1 /\ write_pos'[s] >= Capacity /\ write_pos'[s] \in Nat
      /\ write_pos'[s] = Capacity + Cardinality(Over(s)')
  BY <1>0, <1>1, <1>3, <1>4, OverFinite DEF SegTypes
<1>6. \A t \in Segments : t # s => write_pos'[t] = write_pos[t]
  BY <1>1 DEF SegTypes
<1>7. SegTypes'
  BY <1>0, <1>1, <1>5, <1>6 DEF SegTypes
<1>8. \A t \in Segments : \A n \in Nat : n <= Capacity /\ n <= write_pos[t] => n <= write_pos'[t]
  BY <1>0, <1>5, <1>6 DEF SegTypes
<1>9. OverCounted'
  BY <1>0, <1>2, <1>5, <1>6 DEF SegInv, OverCounted
<1>10. \A q \in Records : (Placed(q)' <=> Placed(q)) /\ (append'[q] = "ok" <=> append[q] = "ok")
  BY <1>1 DEF Placed, SegTypes
<1>11. SlotsDisjoint'
  BY <1>0, <1>1, <1>8, <1>10 DEF SegInv, SlotsDisjoint, SegTypes
<1> QED
  BY <1>1, <1>7, <1>8, <1>9, <1>10, <1>11 DEF SegInv, FramesOfAcked

LEMMA WriteStep ==
  ASSUME SegTypes, SegInv, NEW r \in Records, Write(r)
  PROVE  SegTypes' /\ SegInv'
<1> DEFINE s == SegmentOf[r]
<1>0. s \in Segments /\ Capacity \in Nat /\ \A q \in Records : SegmentOf[q] \in Segments
  BY CompactionAssumption
<1>1. /\ append[r] = "reserved" /\ write_pos' = write_pos /\ slot' = slot
      /\ frames' = [frames EXCEPT ![s][slot[r]] = r] /\ append' = [append EXCEPT ![r] = "ok"]
  BY DEF Write
<1>2. slot[r] \in 1..Capacity
  BY <1>0, <1>1 DEF SegInv, SlotsDisjoint, Placed, SegTypes
<1>3. SegTypes'
  BY <1>0, <1>1, <1>2 DEF SegTypes
<1>4. \A q \in Records : Placed(q)' <=> Placed(q)
  BY <1>1 DEF Placed, SegTypes
<1>5. \A t \in Segments : Over(t)' = Over(t)
  BY <1>1 DEF Over, SegTypes
<1>6. OverCounted' /\ SlotsDisjoint'
  BY <1>1, <1>4, <1>5 DEF SegInv, OverCounted, SlotsDisjoint
<1>7. FramesOfAcked'
  <2>1. \A t \in Segments, i \in 1..Capacity :
          frames'[t][i] = IF t = s /\ i = slot[r] THEN r ELSE frames[t][i]
    BY <1>0, <1>1, <1>2 DEF SegTypes
  <2>2. append'[r] = "ok" /\ \A q \in Records : append[q] = "ok" => append'[q] = "ok"
    BY <1>1 DEF SegTypes
  <2> QED
    BY <1>1, <2>1, <2>2 DEF SegInv, FramesOfAcked
<1> QED
  BY <1>3, <1>6, <1>7 DEF SegInv

LEMMA CorruptStep ==
  ASSUME SegTypes, SegInv, Corrupt
  PROVE  SegTypes' /\ SegInv'
<1>1. PICK s \in Segments, i \in 1..Capacity : frames' = [frames EXCEPT ![s][i] = Bad]
  BY DEF Corrupt
<1>2. write_pos' = write_pos /\ append' = append /\ slot' = slot
  BY DEF Corrupt
<1>3. \A t \in Segments, k \in 1..Capacity : frames'[t][k] = IF t = s /\ k = i THEN Bad ELSE frames[t][k]
  BY <1>1 DEF SegTypes
<1>4. FramesOfAcked'
  BY <1>2, <1>3, CompactionAssumption DEF SegInv, FramesOfAcked
<1>5. SegTypes'
  BY <1>1, <1>2 DEF SegTypes
<1> QED
  BY <1>2, <1>4, <1>5 DEF SegInv, OverCounted, Over, SlotsDisjoint, Placed

-----------------------------------------------------------------------------
(* Jobs: their types, their segments, and their outputs while they are empty *)
JobTypes ==
  /\ in_progress \in BOOLEAN /\ wedged \in BOOLEAN
  /\ pc \in [Jobs -> Running \cup {"idle", "scan", "returned", "panicked"}]
  /\ merging \subseteq Calls
  /\ todo \in [Jobs -> Seq(Segments)]
  /\ cur \in [Jobs -> 0..Capacity] /\ end \in [Jobs -> Nat]
  /\ out \in [Jobs -> Seq(Records)] /\ \A j \in Jobs : Len(out[j]) <= TargetSize
  /\ compacted \in 0..MaxPerRun
  /\ known \in [Jobs -> SUBSET Records]
  /\ faults \in 0..MaxFaults

JobsOK == JobTypes /\ TodoInv /\ AtRest

LEMMA EmptyFacts ==
  /\ <<>> \in Seq(Segments) /\ <<>> \in Seq(Records) /\ Len(<<>>) = 0
  /\ IsInjective(<<>>) /\ DOMAIN <<>> = {}
BY DEF IsInjective

(* Every other segment is still listed once. *)
LEMMA TailListed ==
  ASSUME NEW t \in Seq(Segments), t # <<>>, IsInjective(t)
  PROVE  /\ Tail(t) \in Seq(Segments) /\ IsInjective(Tail(t))
         /\ Len(Tail(t)) = Len(t) - 1 /\ Len(t) \in Nat \ {0}
         /\ DOMAIN t = 1..Len(t) /\ DOMAIN Tail(t) = 1..(Len(t) - 1)
         /\ \A k \in 1..(Len(t) - 1) : Tail(t)[k] = t[k + 1]
         /\ Len(t) > 1 => Tail(t) # <<>>
<1>1. /\ Tail(t) \in Seq(Segments) /\ Len(Tail(t)) = Len(t) - 1
      /\ \A k \in 1..Len(Tail(t)) : Tail(t)[k] = t[k + 1]
  BY HeadTailProperties
<1>2. Len(t) \in Nat \ {0} /\ DOMAIN t = 1..Len(t) /\ DOMAIN Tail(t) = 1..(Len(t) - 1)
  BY <1>1, EmptySeq, LenProperties
<1>3. IsInjective(Tail(t))
  <2> SUFFICES ASSUME NEW a \in 1..(Len(t) - 1), NEW b \in 1..(Len(t) - 1), Tail(t)[a] = Tail(t)[b]
               PROVE  a = b
    BY <1>2 DEF IsInjective
  <2>1. t[a + 1] = t[b + 1] /\ a + 1 \in DOMAIN t /\ b + 1 \in DOMAIN t
    BY <1>1, <1>2
  <2>2. a + 1 = b + 1
    BY <2>1 DEF IsInjective
  <2> QED
    BY <2>2
<1>4. Len(t) > 1 => Tail(t) # <<>>
  <2> DEFINE u == Tail(t)
  <2>1. Len(t) > 1 => Len(u) # 0
    BY <1>1, <1>2
  <2> HIDE DEF u
  <2>2. Len(u) # 0 => u # <<>>
    BY EmptyFacts
  <2> QED
    BY <2>1, <2>2 DEF u
<1> QED
  BY <1>1, <1>2, <1>3, <1>4

LEMMA AdvanceStep ==
  ASSUME JobsOK, NEW j \in Jobs, NEW d \in BOOLEAN, j = Worker => todo[j] # <<>>, Advance(j, d),
         merging' = merging, faults' \in 0..MaxFaults, in_progress' \in BOOLEAN, wedged' \in BOOLEAN
  PROVE  JobsOK'
<1> USE CompactionAssumption, EmptyFacts
<1>1. /\ todo \in [Jobs -> Seq(Segments)] /\ Worker \in Jobs
      /\ compacted \in 0..MaxPerRun /\ MaxPerRun \in Nat \ {0}
      /\ \A k \in Jobs : IsInjective(todo[k])
  BY DEF JobsOK, JobTypes, TodoInv, Jobs
<1>2. compacted' \in 0..MaxPerRun
  BY <1>1 DEF Advance, JobsOK, TodoInv
<1>3. /\ todo' \in [Jobs -> Seq(Segments)]
      /\ \A k \in Jobs : IsInjective(todo'[k])
      /\ \A k \in Jobs : k # j => todo'[k] = todo[k]
      /\ todo'[Worker] # <<>> => compacted' < MaxPerRun
  <2>1. CASE j = Worker /\ compacted' < MaxPerRun
    <3>1. todo' = [todo EXCEPT ![j] = Tail(todo[j])]
      BY <2>1 DEF Advance
    <3>2. Tail(todo[j]) \in Seq(Segments) /\ IsInjective(Tail(todo[j]))
      BY <1>1, <2>1, TailListed
    <3> QED
      BY <1>1, <2>1, <3>1, <3>2
  <2>2. CASE ~ (j = Worker /\ compacted' < MaxPerRun)
    <3>1. todo' = [todo EXCEPT ![j] = <<>>]
      BY <2>2 DEF Advance
    <3>2. j # Worker => compacted' = compacted
      BY DEF Advance
    <3> QED
      BY <1>1, <2>2, <3>1, <3>2 DEF JobsOK, TodoInv
  <2> QED
    BY <2>1, <2>2
<1>4. /\ pc' = [pc EXCEPT ![j] = IF j = Worker THEN "scan" ELSE "returned"]
      /\ cur' = [cur EXCEPT ![j] = 0] /\ end' = [end EXCEPT ![j] = 0]
      /\ out' = [out EXCEPT ![j] = <<>>] /\ known' = [known EXCEPT ![j] = {}]
  BY DEF Advance, Goto
<1>5. JobTypes'
  BY <1>2, <1>3, <1>4 DEF JobsOK, JobTypes
<1>6. TodoInv'
  BY <1>3, <1>4 DEF JobsOK, JobTypes, TodoInv, Running
<1>7. AtRest'
  BY <1>4 DEF JobsOK, JobTypes, AtRest
<1> QED
  BY <1>5, <1>6, <1>7 DEF JobsOK

LEMMA CalledHasTodo ==
  ASSUME JobsOK, NEW j \in Jobs, Called(j)
  PROVE  /\ j = Worker => todo[j] # <<>>
         /\ pc[j] \in {"idle", "scan"}
BY CompactionAssumption DEF Called

LEMMA RunningHasTodo ==
  ASSUME JobsOK, NEW j \in Jobs, pc[j] \in Running
  PROVE  todo[j] # <<>> /\ Len(todo[j]) \in Nat \ {0} /\ Head(todo[j]) = todo[j][1] /\ todo[j][1] \in Segments
BY DEF JobsOK, TodoInv, JobTypes

(* The segments that a claim or a merge starts with *)
LEMMA FreshTodo ==
  /\ Candidates \in Seq(Segments) /\ IsInjective(Candidates)
  /\ Calls # {} => Candidates # <<>>
  /\ \A s \in Segments : <<s>> \in Seq(Segments) /\ IsInjective(<<s>>) /\ <<s>> # <<>>
<1>1. Candidates \in Seq(Segments) /\ IsInjective(Candidates)
  BY CompactionAssumption
<1>2. Calls # {} => Candidates # <<>>
  <2> SUFFICES ASSUME NEW c \in Calls, Candidates = <<>>  PROVE FALSE
    OBVIOUS
  <2>1. Target[c] \in Range(Candidates)
    BY CompactionAssumption DEF Segments
  <2> QED
    BY <2>1, EmptyFacts DEF Range
<1>3. \A s \in Segments : <<s>> \in Seq(Segments) /\ IsInjective(<<s>>) /\ <<s>> # <<>>
  BY DEF IsInjective
<1> QED
  BY <1>1, <1>2, <1>3

LEMMA JobsStep == JobsOK /\ SegTypes /\ [Next]_vars => JobsOK'
<1> SUFFICES ASSUME JobsOK, SegTypes, [Next]_vars  PROVE JobsOK'
  OBVIOUS
<1> USE CompactionAssumption, EmptyFacts, FreshTodo
<1>0. /\ JobTypes /\ Worker \in Jobs /\ Calls \subseteq Jobs
      /\ todo \in [Jobs -> Seq(Segments)]
      /\ pc \in [Jobs -> {"create", "copying", "idle", "scan", "returned", "panicked"}]
  BY DEF JobsOK, JobTypes, Jobs, Running
<1>1. ASSUME UNCHANGED <<in_progress, jobVars, wedged>>, faults' \in 0..MaxFaults
      PROVE  JobsOK'
  BY <1>1 DEF JobsOK, JobTypes, jobVars, TodoInv, AtRest
<1>2. ASSUME NEW r \in Records, AppendStep(r)  PROVE JobsOK'
  BY <1>0, <1>1, <1>2 DEF AppendStep, Reserve, Rollback, Write, JobTypes
<1>3. CASE Corrupt
  BY <1>0, <1>1, <1>3 DEF Corrupt, JobTypes
<1>4. CASE Tick
  <2>1. /\ pc' = [pc EXCEPT ![Worker] = "scan"] /\ todo' = [todo EXCEPT ![Worker] = Candidates]
        /\ compacted' = 0 /\ UNCHANGED <<merging, in_progress, cur, end, out, known, wedged, faults>>
        /\ pc[Worker] = "idle"
    BY <1>4 DEF Tick, Goto
  <2>2. JobTypes'
    BY <1>0, <2>1 DEF JobTypes
  <2>3. TodoInv'
    BY <1>0, <2>1 DEF JobsOK, TodoInv, Running
  <2>4. AtRest'
    BY <1>0, <2>1 DEF JobsOK, AtRest
  <2> QED
    BY <2>2, <2>3, <2>4 DEF JobsOK
<1>5. CASE ScanEnds
  <2>1. /\ pc' = [pc EXCEPT ![Worker] = "idle"] /\ pc[Worker] = "scan"
        /\ UNCHANGED <<merging, in_progress, todo, cur, end, out, compacted, known, wedged, faults>>
    BY <1>5 DEF ScanEnds, Goto
  <2>2. JobTypes'
    BY <1>0, <2>1 DEF JobTypes
  <2>3. TodoInv' /\ AtRest'
    BY <1>0, <2>1 DEF JobsOK, TodoInv, Running, AtRest
  <2> QED
    BY <2>2, <2>3 DEF JobsOK
<1>6. CASE Pass
  <2>1. /\ todo[Worker] # <<>> /\ pc[Worker] = "scan" /\ todo' = [todo EXCEPT ![Worker] = Tail(todo[Worker])]
        /\ UNCHANGED <<merging, in_progress, pc, cur, end, out, compacted, known, wedged, faults>>
    BY <1>6 DEF Pass
  <2>2. Tail(todo[Worker]) \in Seq(Segments) /\ IsInjective(Tail(todo[Worker]))
    BY <1>0, <2>1, TailListed DEF JobsOK, TodoInv
  <2>3. JobTypes'
    BY <1>0, <2>1, <2>2 DEF JobTypes
  <2>4. TodoInv' /\ AtRest'
    BY <1>0, <2>1, <2>2 DEF JobsOK, TodoInv, Running, AtRest
  <2> QED
    BY <2>3, <2>4 DEF JobsOK
<1>7. ASSUME NEW j \in Jobs, Claim(j)  PROVE JobsOK'
  <2>1. /\ pc' = [pc EXCEPT ![j] = "create"] /\ in_progress' = TRUE
        /\ UNCHANGED <<merging, cur, end, out, compacted, known, wedged, faults>>
        /\ pc[j] \in {"idle", "scan"} /\ (j = Worker => todo[j] # <<>>)
    BY <1>7, CalledHasTodo DEF Claim, Goto
  <2>2. /\ todo' \in [Jobs -> Seq(Segments)] /\ todo'[j] # <<>>
        /\ \A k \in Jobs : IsInjective(todo'[k]) /\ (k # j => todo'[k] = todo[k])
        /\ todo'[Worker] = todo[Worker]
    <3>1. CASE j = Worker
      BY <1>0, <1>7, <2>1, <3>1 DEF Claim, JobsOK, TodoInv
    <3>2. CASE j # Worker
      <4>1. Target[j] \in Segments
        BY <3>2 DEF Jobs
      <4>2. todo' = [todo EXCEPT ![j] = <<Target[j]>>]
        BY <1>7, <3>2 DEF Claim
      <4> QED
        BY <1>0, <3>2, <4>1, <4>2 DEF JobsOK, TodoInv
    <3> QED
      BY <3>1, <3>2
  <2>3. JobTypes'
    BY <1>0, <2>1, <2>2 DEF JobTypes, Running
  <2>4. TodoInv' /\ AtRest'
    BY <1>0, <2>1, <2>2 DEF JobsOK, TodoInv, Running, AtRest
  <2> QED
    BY <2>3, <2>4 DEF JobsOK
<1>8. ASSUME NEW j \in Jobs, Busy(j)  PROVE JobsOK'
  BY <1>0, <1>8, CalledHasTodo, AdvanceStep DEF Busy, JobTypes
<1>9. ASSUME NEW j \in Jobs, Merge(j)  PROVE JobsOK'
  <2>1. /\ pc' = [pc EXCEPT ![j] = "create"] /\ merging' = merging \cup {j} /\ j \in Calls
        /\ todo' = [todo EXCEPT ![j] = Candidates] /\ pc[j] = "idle"
        /\ UNCHANGED <<in_progress, cur, end, out, compacted, known, wedged, faults>>
    BY <1>9 DEF Merge, Goto
  <2>2. JobTypes'
    BY <1>0, <2>1 DEF JobTypes, Running
  <2>3. TodoInv' /\ AtRest'
    BY <1>0, <2>1 DEF JobsOK, TodoInv, Running, AtRest
  <2> QED
    BY <2>2, <2>3 DEF JobsOK
<1>10. ASSUME NEW j \in Jobs, NEW s \in Segments, pc[j] \in Running, Open(j, s),
              UNCHANGED <<merging, in_progress, out, compacted, wedged, faults>>,
              \/ todo' = todo
              \/ j # Worker /\ Len(todo[j]) > 1 /\ todo' = [todo EXCEPT ![j] = Tail(todo[j])]
       PROVE  JobsOK'
  <2>1. /\ pc' = [pc EXCEPT ![j] = "copying"] /\ cur' = [cur EXCEPT ![j] = 0]
        /\ end' = [end EXCEPT ![j] = write_pos[s]]
        /\ known' = [known EXCEPT ![j] = @ \cup {r \in Records : SegmentOf[r] = s /\ append[r] = "ok"}]
    BY <1>10 DEF Open, Goto
  <2>2. /\ todo' \in [Jobs -> Seq(Segments)] /\ todo'[j] # <<>>
        /\ \A k \in Jobs : IsInjective(todo'[k]) /\ (k # j => todo'[k] = todo[k])
        /\ todo'[Worker] = todo[Worker]
    <3>1. CASE todo' = todo
      BY <1>0, <1>10, <3>1 DEF JobsOK, TodoInv
    <3>2. CASE j # Worker /\ Len(todo[j]) > 1 /\ todo' = [todo EXCEPT ![j] = Tail(todo[j])]
      <4>1. Tail(todo[j]) \in Seq(Segments) /\ IsInjective(Tail(todo[j])) /\ Tail(todo[j]) # <<>>
        BY <1>0, <1>10, <3>2, TailListed DEF JobsOK, TodoInv
      <4> QED
        BY <1>0, <3>2, <4>1 DEF JobsOK, TodoInv
    <3> QED
      BY <1>10, <3>1, <3>2
  <2>3. write_pos[s] \in Nat /\ 0 \in 0..Capacity
    BY DEF SegTypes
  <2>4. known' \in [Jobs -> SUBSET Records]
    BY <1>0, <2>1 DEF JobTypes
  <2>5. JobTypes'
    BY <1>0, <1>10, <2>1, <2>2, <2>3, <2>4 DEF JobTypes, Running
  <2>6. TodoInv' /\ AtRest'
    BY <1>0, <1>10, <2>1, <2>2 DEF JobsOK, TodoInv, Running, AtRest
  <2> QED
    BY <2>5, <2>6 DEF JobsOK
<1>11. ASSUME NEW j \in Jobs, Create(j)  PROVE JobsOK'
  BY <1>0, <1>10, <1>11, RunningHasTodo DEF Create, Running
<1>12. ASSUME NEW j \in Jobs, pc[j] \in Running, Fail(j), faults' \in 0..MaxFaults  PROVE JobsOK'
  <2>1. wedged' \in BOOLEAN /\ in_progress' \in BOOLEAN
    BY <1>0, <1>12 DEF Fail, JobTypes
  <2> QED
    BY <1>12, <2>1, RunningHasTodo, AdvanceStep DEF Fail
<1>13. ASSUME NEW j \in Jobs, CreateFails(j)  PROVE JobsOK'
  BY <1>0, <1>12, <1>13 DEF CreateFails, JobTypes, Running
<1>14. ASSUME NEW j \in Jobs, Copy(j)  PROVE JobsOK'
  <2>1. pc[j] = "copying" /\ faults' \in 0..MaxFaults
    BY <1>0, <1>14 DEF Copy, More, JobTypes
  <2>2. CASE ~ (Len(out[j]) < TargetSize)
    BY <1>12, <1>14, <2>1, <2>2 DEF Copy, Running
  <2>3. CASE Len(out[j]) < TargetSize
    <3>1. PICK x \in Records : /\ out' = [out EXCEPT ![j] = Append(@, x)]
                               /\ cur' = [cur EXCEPT ![j] = @ + 1]
                               /\ UNCHANGED <<merging, in_progress, pc, todo, end, compacted, known, wedged, faults>>
      BY <1>14, <2>3 DEF Copy
    <3>2. cur[j] + 1 \in 0..Capacity
      <4>1. Head(todo[j]) \in Segments
        BY <2>1, RunningHasTodo DEF Running
      <4>2. cur[j] < write_pos[Head(todo[j])] /\ write_pos[Head(todo[j])] <= Capacity
        BY <1>14 DEF Copy
      <4>3. cur[j] \in Nat /\ write_pos[Head(todo[j])] \in Nat
        BY <1>0, <4>1 DEF SegTypes, JobTypes
      <4> QED
        BY <4>2, <4>3
    <3>3. Append(out[j], x) \in Seq(Records) /\ Len(Append(out[j], x)) <= TargetSize
      BY <1>0, <2>3 DEF JobTypes
    <3>4. /\ out' \in [Jobs -> Seq(Records)] /\ cur' \in [Jobs -> 0..Capacity]
          /\ \A k \in Jobs : Len(out'[k]) <= TargetSize
      BY <1>0, <3>1, <3>2, <3>3 DEF JobTypes
    <3>5. JobTypes'
      BY <1>0, <3>1, <3>4 DEF JobTypes
    <3>6. TodoInv' /\ AtRest'
      BY <1>0, <2>1, <3>1 DEF JobsOK, TodoInv, AtRest, JobTypes
    <3> QED
      BY <3>5, <3>6 DEF JobsOK
  <2> QED
    BY <2>2, <2>3
<1>15. ASSUME NEW j \in Jobs, Panic(j)  PROVE JobsOK'
  <2>1. /\ pc' = [pc EXCEPT ![j] = "panicked"] /\ wedged' = (wedged \/ j \in Exclusive)
        /\ UNCHANGED <<merging, in_progress, todo, cur, end, out, compacted, known, faults>>
    BY <1>15 DEF Panic, Goto
  <2>2. JobTypes'
    BY <1>0, <2>1 DEF JobTypes
  <2>3. TodoInv' /\ AtRest'
    BY <1>0, <2>1 DEF JobsOK, TodoInv, Running, AtRest
  <2> QED
    BY <2>2, <2>3 DEF JobsOK
<1>16. ASSUME NEW j \in Jobs, Finish(j)  PROVE JobsOK'
  <2>1. pc[j] \in Running /\ merging' = merging /\ faults' \in 0..MaxFaults
        /\ in_progress' \in BOOLEAN /\ wedged' \in BOOLEAN
    BY <1>0, <1>16 DEF Finish, Running, JobTypes
  <2>2. CASE ~ (j \in merging /\ Len(todo[j]) > 1)
    BY <1>16, <2>1, <2>2, RunningHasTodo, AdvanceStep DEF Finish, NextOrReturn
  <2>3. CASE j \in merging /\ Len(todo[j]) > 1
    <3>1. /\ Open(j, todo[j][2]) /\ todo' = [todo EXCEPT ![j] = Tail(todo[j])]
          /\ UNCHANGED <<compacted, out, merging, wedged, faults>> /\ in_progress' = in_progress
      BY <1>16, <2>3 DEF Finish, NextOrReturn, Exclusive
    <3>2. todo[j][2] \in Segments /\ j # Worker
      BY <1>0, <2>3 DEF JobTypes
    <3> QED
      BY <1>10, <2>1, <2>3, <3>1, <3>2
  <2> QED
    BY <2>2, <2>3
<1>17. CASE UNCHANGED vars
  BY <1>0, <1>1, <1>17 DEF vars, JobTypes
<1> QED
  BY <1>2, <1>3, <1>4, <1>5, <1>6, <1>7, <1>8, <1>9, <1>11, <1>13, <1>14, <1>15, <1>16, <1>17
     DEF Next, JobStep

-----------------------------------------------------------------------------
(* in_progress *)
LEMMA ClaimStep == JobsOK /\ OneClaim /\ [Next]_vars => OneClaim'
<1> SUFFICES ASSUME JobsOK, OneClaim, [Next]_vars  PROVE OneClaim'
  OBVIOUS
<1> USE CompactionAssumption
<1>0. /\ pc \in [Jobs -> {"create", "copying", "idle", "scan", "returned", "panicked"}]
      /\ in_progress \in BOOLEAN /\ wedged \in BOOLEAN
      /\ merging \subseteq Calls /\ Worker \in Jobs /\ Calls \subseteq Jobs /\ Worker \notin merging
  BY DEF JobsOK, JobTypes, Jobs, Running
(* A step of j leaves the other jobs where they are. *)
<1> DEFINE OnlyMoves(j) == \A k \in Jobs : k # j => pc'[k] = pc[k] /\ (k \in merging' <=> k \in merging)
<1>1. ASSUME NEW j \in Jobs, OnlyMoves(j), UNCHANGED <<in_progress, wedged>>, merging' \subseteq Jobs,
             ActiveJob(j)' <=> ActiveJob(j), j \in merging' => pc'[j] # "idle"
      PROVE  OneClaim'
  <2>1. \A k \in Jobs : ActiveJob(k)' <=> ActiveJob(k)
    BY <1>0, <1>1 DEF ActiveJob, Exclusive
  <2> QED
    BY <1>0, <1>1, <2>1 DEF OneClaim
<1>2. ASSUME NEW j \in Jobs, OnlyMoves(j), UNCHANGED <<in_progress, merging>>, pc[j] \in Running,
             pc'[j] \notin Running \cup {"idle"}, wedged' = (wedged \/ j \in Exclusive)
      PROVE  OneClaim'
  <2>1. ~ ActiveJob(j)' /\ \A k \in Jobs : k # j => (ActiveJob(k)' <=> ActiveJob(k))
    BY <1>0, <1>2 DEF ActiveJob, Exclusive
  <2>2. ActiveJob(j) <=> j \in Exclusive
    BY <1>2 DEF ActiveJob
  <2>3. \A k \in merging' : pc'[k] # "idle"
    BY <1>0, <1>2 DEF OneClaim
  <2>4. CASE j \in Exclusive
    BY <1>0, <1>2, <2>1, <2>2, <2>3, <2>4 DEF OneClaim
  <2>5. CASE j \notin Exclusive
    BY <1>0, <1>2, <2>1, <2>2, <2>3, <2>5 DEF OneClaim
  <2> QED
    BY <2>4, <2>5
<1>3. ASSUME UNCHANGED <<pc, merging, in_progress, wedged>>  PROVE OneClaim'
  BY <1>3 DEF OneClaim, ActiveJob, Exclusive
<1>4. ASSUME NEW r \in Records, AppendStep(r)  PROVE OneClaim'
  BY <1>3, <1>4 DEF AppendStep, Reserve, Rollback, Write, jobVars
<1>5. CASE Corrupt \/ Pass \/ UNCHANGED vars
  BY <1>3, <1>5 DEF Corrupt, Pass, vars, jobVars
<1>6. CASE Tick \/ ScanEnds
  <2>1. /\ pc[Worker] \notin Running /\ pc'[Worker] \notin Running /\ merging' = merging
        /\ UNCHANGED <<in_progress, wedged>> /\ OnlyMoves(Worker)
    BY <1>0, <1>6 DEF Tick, ScanEnds, Goto, Running
  <2> QED
    BY <1>0, <1>1, <2>1 DEF ActiveJob
<1>7. ASSUME NEW j \in Jobs, Claim(j)  PROVE OneClaim'
  <2>1. /\ pc' = [pc EXCEPT ![j] = "create"] /\ merging' = merging /\ in_progress' = TRUE /\ wedged' = wedged
        /\ in_progress = FALSE
    BY <1>0, <1>7 DEF Claim, Goto
  <2>2. j \notin merging
    BY <1>0, <1>7 DEF Claim, Called, OneClaim
  <2>3. wedged = FALSE /\ \A k \in Jobs : ~ ActiveJob(k)
    BY <1>0, <2>1 DEF OneClaim
  <2>4. \A k \in Jobs : ActiveJob(k)' <=> k = j
    BY <1>0, <2>1, <2>2, <2>3 DEF ActiveJob, Exclusive, Running
  <2>5. \A k \in merging' : pc'[k] # "idle"
    BY <1>0, <2>1 DEF OneClaim
  <2> QED
    BY <2>1, <2>3, <2>4, <2>5 DEF OneClaim
<1>8. ASSUME NEW j \in Jobs, Busy(j)  PROVE OneClaim'
  <2>1. /\ pc' = [pc EXCEPT ![j] = IF j = Worker THEN "scan" ELSE "returned"] /\ merging' = merging
        /\ UNCHANGED <<in_progress, wedged>>
    BY <1>8 DEF Busy, Advance, Goto
  <2>2. pc[j] \notin Running /\ pc'[j] \notin Running /\ pc'[j] # "idle" /\ OnlyMoves(j)
    BY <1>0, <1>8, <2>1, CalledHasTodo DEF Busy, Running
  <2> QED
    BY <1>0, <1>1, <2>1, <2>2 DEF ActiveJob
<1>9. ASSUME NEW j \in Jobs, Merge(j)  PROVE OneClaim'
  <2>1. /\ pc' = [pc EXCEPT ![j] = "create"] /\ merging' = merging \cup {j} /\ pc[j] = "idle"
        /\ UNCHANGED <<in_progress, wedged>>
    BY <1>9 DEF Merge, Goto
  <2>2. ~ ActiveJob(j) /\ ~ ActiveJob(j)'
    BY <2>1 DEF ActiveJob, Exclusive, Running
  <2>3. OnlyMoves(j) /\ merging' \subseteq Jobs /\ pc'[j] # "idle"
    BY <1>0, <2>1
  <2> QED
    BY <1>1, <2>1, <2>2, <2>3
<1>10. ASSUME NEW j \in Jobs, NEW s, pc[j] \in Running, Open(j, s), UNCHANGED <<merging, in_progress, wedged>>
       PROVE  OneClaim'
  <2>1. pc' = [pc EXCEPT ![j] = "copying"]
    BY <1>10 DEF Open, Goto
  <2>2. OnlyMoves(j) /\ pc'[j] = "copying" /\ merging' \subseteq Jobs
    BY <1>0, <1>10, <2>1
  <2>3. ActiveJob(j)' <=> ActiveJob(j)
    BY <1>10, <2>2 DEF ActiveJob, Exclusive, Running
  <2> QED
    BY <1>1, <1>10, <2>2, <2>3
<1>11. ASSUME NEW j \in Jobs, Create(j)  PROVE OneClaim'
  BY <1>10, <1>11 DEF Create, Running
<1>12. ASSUME NEW j \in Jobs, pc[j] \in Running, Fail(j)  PROVE OneClaim'
  <2>1. /\ pc' = [pc EXCEPT ![j] = IF j = Worker THEN "scan" ELSE "returned"]
        /\ UNCHANGED <<merging, in_progress>> /\ wedged' = (wedged \/ j \in Exclusive)
    BY <1>12 DEF Fail, Advance, Goto
  <2>2. OnlyMoves(j) /\ pc'[j] \notin Running \cup {"idle"}
    BY <1>0, <2>1 DEF Running
  <2> QED
    BY <1>2, <1>12, <2>1, <2>2
<1>13. ASSUME NEW j \in Jobs, CreateFails(j)  PROVE OneClaim'
  BY <1>12, <1>13 DEF CreateFails, Running
<1>14. ASSUME NEW j \in Jobs, Copy(j)  PROVE OneClaim'
  <2>1. CASE ~ (Len(out[j]) < TargetSize)
    BY <1>12, <1>14, <2>1 DEF Copy, More, Running
  <2>2. CASE Len(out[j]) < TargetSize
    BY <1>3, <1>14, <2>2 DEF Copy
  <2> QED
    BY <2>1, <2>2
<1>15. ASSUME NEW j \in Jobs, Panic(j)  PROVE OneClaim'
  <2>1. /\ pc' = [pc EXCEPT ![j] = "panicked"] /\ pc[j] \in Running
        /\ UNCHANGED <<merging, in_progress>> /\ wedged' = (wedged \/ j \in Exclusive)
    BY <1>15 DEF Panic, Goto, More, Running
  <2>2. OnlyMoves(j) /\ pc'[j] \notin Running \cup {"idle"}
    BY <1>0, <2>1 DEF Running
  <2> QED
    BY <1>2, <2>1, <2>2
<1>16. ASSUME NEW j \in Jobs, Finish(j)  PROVE OneClaim'
  <2>1. pc[j] \in Running /\ merging' = merging /\ wedged' = wedged
    BY <1>16 DEF Finish, Running
  <2>2. CASE j \in merging /\ Len(todo[j]) > 1
    <3>1. Open(j, todo[j][2]) /\ in_progress' = in_progress
      BY <1>16, <2>2 DEF Finish, NextOrReturn, Exclusive
    <3> QED
      BY <1>10, <2>1, <3>1
  <2>3. CASE ~ (j \in merging /\ Len(todo[j]) > 1)
    <3>1. pc' = [pc EXCEPT ![j] = IF j = Worker THEN "scan" ELSE "returned"]
      BY <1>16, <2>3 DEF Finish, NextOrReturn, Advance, Goto
    <3>2. OnlyMoves(j) /\ pc'[j] \notin Running \cup {"idle"} /\ merging' \subseteq Jobs
      BY <1>0, <2>1, <3>1 DEF Running
    <3>3. CASE j \in merging
      <4>1. ~ ActiveJob(j) /\ ~ ActiveJob(j)' /\ in_progress' = in_progress
        BY <1>16, <2>1, <3>3 DEF Finish, ActiveJob, Exclusive
      <4> QED
        BY <1>1, <2>1, <3>2, <4>1
    <3>4. CASE j \notin merging
      <4>1. ActiveJob(j) /\ ~ ActiveJob(j)' /\ in_progress' = FALSE
        BY <1>16, <2>1, <3>2, <3>4 DEF Finish, ActiveJob, Exclusive
      <4>2. wedged = FALSE /\ \A k \in Jobs : ActiveJob(k) => k = j
        BY <1>0, <4>1 DEF OneClaim
      <4>3. \A k \in Jobs : ~ ActiveJob(k)'
        BY <1>0, <2>1, <3>2, <4>1, <4>2 DEF ActiveJob, Exclusive
      <4>4. \A k \in merging' : pc'[k] # "idle"
        BY <1>0, <2>1, <3>1 DEF OneClaim
      <4> QED
        BY <2>1, <4>1, <4>2, <4>3, <4>4 DEF OneClaim
    <3> QED
      BY <3>3, <3>4
  <2> QED
    BY <2>2, <2>3
<1> QED
  BY <1>4, <1>5, <1>6, <1>7, <1>8, <1>9, <1>11, <1>13, <1>14, <1>15, <1>16 DEF Next, JobStep

(* The count of running compactions *)
LEMMA ClaimCounted == JobTypes /\ OneClaim => ClaimIsExclusive
<1> SUFFICES ASSUME JobTypes, OneClaim  PROVE ClaimIsExclusive
  OBVIOUS
<1> DEFINE active == {j \in Exclusive : pc[j] \in Running}
<1>1. \A j \in active : j \in Jobs /\ ActiveJob(j)
  BY DEF ActiveJob, Exclusive
<1>2. \A j \in Jobs : ActiveJob(j) => j \in active
  BY DEF ActiveJob
<1>3. active = {} \/ \E j \in Jobs : active = {j}
  BY <1>1 DEF OneClaim
<1>4. Cardinality(active) <= 1
  <2>1. CASE active = {}
    BY <2>1, FS_EmptySet
  <2>2. ASSUME NEW j \in Jobs, active = {j}  PROVE Cardinality(active) <= 1
    <3>1. Cardinality({j}) = 1
      BY FS_Singleton
    <3> HIDE DEF active
    <3> QED
      BY <2>2, <3>1
  <2> QED
    BY <1>3, <2>1, <2>2
<1>5. in_progress = (active # {} \/ wedged)
  BY <1>1, <1>2 DEF OneClaim, JobTypes
<1> QED
  BY <1>4, <1>5 DEF ClaimIsExclusive

-----------------------------------------------------------------------------
(* The copy *)
JobCopy(j) == CopiedUpTo(j) /\ InSourceOrder(j) /\ KnownAhead(j)

LEMMA CopyFacts ==
  ASSUME SegTypes, JobsOK, NEW j \in Jobs
  PROVE  /\ DOMAIN out[j] = 1..Len(out[j]) /\ Len(out[j]) \in Nat
         /\ \A a \in DOMAIN out[j] : out[j][a] \in Records
         /\ DOMAIN todo[j] = 1..Len(todo[j]) /\ Len(todo[j]) \in Nat
         /\ \A a \in DOMAIN todo[j] : todo[j][a] \in Segments
         /\ known[j] \subseteq Records /\ cur[j] \in Nat /\ cur[j] <= Capacity /\ end[j] \in Nat
<1>1. out[j] \in Seq(Records) /\ todo[j] \in Seq(Segments)
  BY DEF JobsOK, JobTypes
<1> QED
  BY <1>1, LenProperties, ElementOfSeq, CompactionAssumption DEF JobsOK, JobTypes

(* An append takes nothing from a copy: acknowledged records stay where     *)
(* they are, write_pos falls back to the capacity at most, and a new        *)
(* reservation lies behind every slot that was copied.                      *)
LEMMA AppendKeepsCopy ==
  ASSUME SegTypes, JobsOK, NEW j \in Jobs, JobCopy(j), pc[j] = "copying",
         SegTypes', UNCHANGED jobVars,
         \A r \in Records : append[r] = "ok" => append'[r] = "ok" /\ slot'[r] = slot[r],
         \A s \in Segments : \A n \in Nat : n <= Capacity /\ n <= write_pos[s] => n <= write_pos'[s],
         \A r \in Records : Placed(r)' =>
           \/ Placed(r) /\ slot'[r] = slot[r]
           \/ slot'[r] > write_pos[SegmentOf[r]]
  PROVE  JobCopy(j)'
<1>0. /\ todo' = todo /\ cur' = cur /\ end' = end /\ out' = out /\ known' = known
      /\ todo[j][1] \in Segments
  BY RunningHasTodo DEF jobVars, Running
<1>1. CopiedUpTo(j)'
  <2>1. cur[j] <= write_pos'[todo[j][1]]
    BY <1>0, CopyFacts DEF JobCopy, CopiedUpTo
  <2>2. ASSUME NEW r \in Records, Placed(r)', SegmentOf[r] = todo[j][1], slot'[r] <= cur[j]
        PROVE  append'[r] = "ok" /\ \E a \in DOMAIN out[j] : out[j][a] = r
    <3>1. ~ (slot'[r] > write_pos[SegmentOf[r]])
      BY <1>0, <2>2, CopyFacts DEF JobCopy, CopiedUpTo, SegTypes
    <3> QED
      BY <2>2, <3>1 DEF JobCopy, CopiedUpTo
  <2>3. ASSUME NEW a \in DOMAIN out[j]
        PROVE  /\ append'[out[j][a]] = "ok"
               /\ \A k \in DOMAIN todo[j] :
                    SegmentOf[out[j][a]] = todo[j][k] => k = 1 /\ slot'[out[j][a]] <= cur[j]
    BY CopyFacts, <2>3 DEF JobCopy, CopiedUpTo
  <2> QED
    BY <1>0, <2>1, <2>2, <2>3 DEF CopiedUpTo
<1>2. InSourceOrder(j)'
  <2>1. \A a \in DOMAIN out[j] : slot'[out[j][a]] = slot[out[j][a]]
    BY CopyFacts DEF JobCopy, CopiedUpTo
  <2> QED
    BY <1>0, <2>1 DEF JobCopy, InSourceOrder
<1>3. KnownAhead(j)'
  BY <1>0, CopyFacts DEF JobCopy, KnownAhead
<1> QED
  BY <1>1, <1>2, <1>3 DEF JobCopy

(* A step of another job *)
LEMMA OthersKeepCopy ==
  ASSUME NEW j \in Jobs, JobCopy(j), UNCHANGED segmentVars,
         todo'[j] = todo[j], cur'[j] = cur[j], end'[j] = end[j], out'[j] = out[j], known'[j] = known[j]
  PROVE  JobCopy(j)'
<1>0. write_pos' = write_pos /\ append' = append /\ slot' = slot
  BY DEF segmentVars
<1>1. CopiedUpTo(j)'
  BY <1>0 DEF JobCopy, CopiedUpTo, Placed
<1>2. InSourceOrder(j)'
  BY <1>0 DEF JobCopy, InSourceOrder
<1>3. KnownAhead(j)'
  BY <1>0 DEF JobCopy, KnownAhead
<1> QED
  BY <1>1, <1>2, <1>3 DEF JobCopy

LEMMA AppendsKeepCopies ==
  ASSUME SegTypes, SegInv, JobsOK, CopyInv, NEW r \in Records, AppendStep(r)
  PROVE  CopyInv'
<1>0. SegTypes' /\ UNCHANGED jobVars /\ pc' = pc
  BY ReserveStep, RollbackStep, WriteStep DEF AppendStep, Reserve, Rollback, Write, jobVars
<1>1. SegmentOf[r] \in Segments
  BY CompactionAssumption
<1>2. \A q \in Records : append[q] = "ok" => append'[q] = "ok" /\ slot'[q] = slot[q]
  BY DEF AppendStep, Reserve, Rollback, Write, SegTypes
<1>3. \A s \in Segments : \A n \in Nat : n <= Capacity /\ n <= write_pos[s] => n <= write_pos'[s]
  <2>1. CASE Reserve(r)
    BY <1>1, <2>1 DEF Reserve, SegTypes
  <2>2. CASE Rollback(r)
    BY <2>2, RollbackStep
  <2>3. CASE Write(r)
    BY <2>3 DEF Write
  <2> QED
    BY <2>1, <2>2, <2>3 DEF AppendStep
<1>4. \A q \in Records : Placed(q)' =>
        \/ Placed(q) /\ slot'[q] = slot[q]
        \/ slot'[q] > write_pos[SegmentOf[q]]
  <2>1. CASE Reserve(r)
    BY <1>1, <2>1 DEF Reserve, SegTypes, Placed
  <2>2. CASE Rollback(r) \/ Write(r)
    BY <2>2 DEF Rollback, Write, SegTypes, Placed
  <2> QED
    BY <2>1, <2>2 DEF AppendStep
<1> QED
  BY <1>0, <1>2, <1>3, <1>4, AppendKeepsCopy DEF CopyInv, JobCopy

(* The iterator is opened on the first segment of todo': nothing of it was  *)
(* copied yet, and of the segments before it every record that counts.      *)
LEMMA OpenStartsCopy ==
  ASSUME SegTypes, SegInv, JobsOK, NEW j \in Jobs, NEW s \in Segments, Open(j, s), UNCHANGED segmentVars,
         out'[j] = out[j], todo'[j][1] = s, InSourceOrder(j),
         \A a \in DOMAIN out[j] :
           /\ append[out[j][a]] = "ok"
           /\ \A k \in DOMAIN todo'[j] : SegmentOf[out[j][a]] # todo'[j][k],
         \A r \in known[j] : append[r] = "ok" /\ \E a \in DOMAIN out[j] : out[j][a] = r
  PROVE  JobCopy(j)'
<1>0. /\ write_pos' = write_pos /\ append' = append /\ slot' = slot
      /\ cur'[j] = 0 /\ end'[j] = write_pos[s]
      /\ known'[j] = known[j] \cup {r \in Records : SegmentOf[r] = s /\ append[r] = "ok"}
  BY DEF segmentVars, Open, JobsOK, JobTypes
<1>1. CopiedUpTo(j)'
  <2>1. 0 <= write_pos[s] /\ \A r \in Records : Placed(r) => ~ (slot[r] <= 0)
    BY DEF SegTypes, SegInv, SlotsDisjoint
  <2>2. \A r \in Records : Placed(r)' <=> Placed(r)
    BY <1>0 DEF Placed
  <2> QED
    BY <1>0, <2>1, <2>2 DEF CopiedUpTo
<1>2. InSourceOrder(j)'
  BY <1>0 DEF InSourceOrder
<1>3. KnownAhead(j)'
  <2>1. \A r \in Records : append[r] = "ok" /\ SegmentOf[r] = s => slot[r] <= write_pos[s]
    BY DEF SegInv, SlotsDisjoint, Placed
  <2> QED
    BY <1>0, <2>1 DEF KnownAhead
<1> QED
  BY <1>1, <1>2, <1>3 DEF JobCopy

(* A record is read at the iterator and appended to the output. *)
LEMMA CopyGrows ==
  ASSUME SegTypes, SegInv, JobsOK, NEW j \in Jobs, JobCopy(j), pc[j] = "copying", NEW x \in Records,
         UNCHANGED segmentVars, frames[todo[j][1]][cur[j] + 1] = x,
         cur[j] < write_pos[todo[j][1]], write_pos[todo[j][1]] <= Capacity,
         out'[j] = Append(out[j], x), cur'[j] = cur[j] + 1,
         todo'[j] = todo[j], end'[j] = end[j], known'[j] = known[j]
  PROVE  JobCopy(j)'
<1> DEFINE s == todo[j][1]  c == cur[j]  o == out[j]  n == Len(out[j])
<1>0. /\ s \in Segments /\ c \in Nat /\ Capacity \in Nat /\ write_pos[s] \in Nat /\ n \in Nat
      /\ DOMAIN o = 1..n /\ 1 \in DOMAIN todo[j] /\ slot \in [Records -> Nat]
      /\ \A a \in 1..n : o[a] \in Records
  <2>1. s \in Segments /\ Len(todo[j]) \in Nat \ {0} /\ pc[j] \in Running
    BY RunningHasTodo DEF Running
  <2>2. 1 \in DOMAIN todo[j]
    BY <2>1, CopyFacts
  <2> QED
    BY CompactionAssumption, CopyFacts, <2>1, <2>2 DEF SegTypes
<1>1. /\ DOMAIN out'[j] = 1..(n + 1) /\ out'[j][n + 1] = x
      /\ \A a \in 1..n : out'[j][a] = o[a]
  <2>1. o \in Seq(Records)
    BY DEF JobsOK, JobTypes
  <2> QED
    BY <2>1
<1>2. append[x] = "ok" /\ SegmentOf[x] = s /\ slot[x] = c + 1 /\ Placed(x)
  <2>1. c + 1 \in 1..Capacity
    BY <1>0
  <2> QED
    BY <1>0, <2>1 DEF SegInv, FramesOfAcked, Placed
<1>3. /\ write_pos' = write_pos /\ append' = append /\ slot' = slot
      /\ \A r \in Records : Placed(r)' <=> Placed(r)
  BY DEF segmentVars, Placed
<1>4. \A a \in 1..n : append[o[a]] = "ok" /\ (SegmentOf[o[a]] = s => slot[o[a]] <= c)
  BY <1>0 DEF JobCopy, CopiedUpTo
<1>5. ASSUME NEW r \in Records, Placed(r), SegmentOf[r] = s, slot[r] <= c + 1
      PROVE  append[r] = "ok" /\ \E a \in 1..(n + 1) : out'[j][a] = r
  <2>1. CASE slot[r] <= c
    <3>1. append[r] = "ok" /\ \E a \in 1..n : o[a] = r
      BY <1>0, <1>5, <2>1 DEF JobCopy, CopiedUpTo
    <3> QED
      BY <1>0, <1>1, <3>1
  <2>2. CASE ~ (slot[r] <= c)
    <3>1. slot[r] = c + 1
      BY <1>0, <1>5, <2>2
    <3>2. r = x
      BY <1>2, <1>5, <3>1 DEF SegInv, SlotsDisjoint
    <3>3. n + 1 \in 1..(n + 1)
      BY <1>0
    <3> QED
      BY <1>1, <1>2, <3>2, <3>3
  <2> QED
    BY <2>1, <2>2
<1>6. ASSUME NEW a \in 1..(n + 1)
      PROVE  /\ append[out'[j][a]] = "ok"
             /\ \A k \in DOMAIN todo[j] : SegmentOf[out'[j][a]] = todo[j][k] => k = 1 /\ slot[out'[j][a]] <= c + 1
  <2>1. CASE a \in 1..n
    <3>1. out'[j][a] = o[a] /\ o[a] \in Records
      BY <1>0, <1>1, <2>1
    <3>2. \A k \in DOMAIN todo[j] : SegmentOf[o[a]] = todo[j][k] => k = 1 /\ slot[o[a]] <= c
      BY <1>0, <2>1 DEF JobCopy, CopiedUpTo
    <3>3. slot[o[a]] <= c => slot[o[a]] <= c + 1
      BY <1>0, <3>1
    <3> QED
      BY <1>4, <2>1, <3>1, <3>2, <3>3
  <2>2. CASE a = n + 1
    <3>1. \A k \in DOMAIN todo[j] : todo[j][k] = s => k = 1
      BY <1>0 DEF JobsOK, TodoInv, IsInjective
    <3> QED
      BY <1>0, <1>1, <1>2, <2>2, <3>1
  <2> QED
    BY <1>0, <2>1, <2>2
<1>7. CopiedUpTo(j)'
  <2>1. c + 1 <= write_pos[s]
    BY <1>0
  <2> QED
    BY <1>1, <1>3, <1>5, <1>6, <2>1 DEF CopiedUpTo
<1>8. ASSUME NEW a \in 1..(n + 1), NEW b \in 1..(n + 1), a < b
      PROVE  /\ out'[j][a] # out'[j][b]
             /\ SegmentOf[out'[j][a]] = SegmentOf[out'[j][b]] => slot[out'[j][a]] < slot[out'[j][b]]
  <2>1. a \in 1..n /\ out'[j][a] = o[a] /\ o[a] \in Records
    BY <1>0, <1>1, <1>8
  <2>2. CASE b \in 1..n
    <3>1. o[a] # o[b] /\ (SegmentOf[o[a]] = SegmentOf[o[b]] => slot[o[a]] < slot[o[b]])
      <4>1. a # b /\ a \in DOMAIN o /\ b \in DOMAIN o
        BY <1>0, <1>8, <2>1, <2>2
      <4> QED
        BY <1>8, <4>1 DEF JobCopy, InSourceOrder, IsInjective
    <3> QED
      BY <1>1, <2>1, <2>2, <3>1
  <2>3. CASE b = n + 1
    <3>1. SegmentOf[o[a]] = s => slot[o[a]] < c + 1
      <4>1. SegmentOf[o[a]] = s => slot[o[a]] <= c
        BY <1>4, <2>1
      <4>2. slot[o[a]] \in Nat /\ c \in Nat
        BY <1>0, <2>1
      <4> QED
        BY <4>1, <4>2
    <3>2. o[a] # x
      BY <1>0, <1>2, <2>1, <3>1
    <3> QED
      BY <1>1, <1>2, <2>1, <2>3, <3>1, <3>2
  <2> QED
    BY <1>0, <2>2, <2>3
<1>9. InSourceOrder(j)'
  <2>1. \A a, b \in 1..(n + 1) : a # b => a < b \/ b < a
    BY <1>0
  <2>2. IsInjective(out'[j])
    BY <1>1, <1>8, <2>1 DEF IsInjective
  <2> QED
    BY <1>1, <1>3, <1>8, <2>2 DEF InSourceOrder
<1>10. KnownAhead(j)'
  <2>1. \A r : (\E a \in DOMAIN out[j] : out[j][a] = r) => \E a \in DOMAIN out'[j] : out'[j][a] = r
    BY <1>0, <1>1
  <2> QED
    BY <1>3, <2>1 DEF JobCopy, KnownAhead
<1> QED
  BY <1>7, <1>9, <1>10 DEF JobCopy

(* At its end the iterator has copied what was known when it was opened. *)
LEMMA NothingLeft ==
  ASSUME SegTypes, JobsOK, NEW j \in Jobs, JobCopy(j), cur[j] >= end[j]
  PROVE  \A r \in known[j] : append[r] = "ok" /\ \E a \in DOMAIN out[j] : out[j][a] = r
<1> SUFFICES ASSUME NEW r \in known[j]
             PROVE  append[r] = "ok" /\ \E a \in DOMAIN out[j] : out[j][a] = r
  OBVIOUS
<1>1. append[r] = "ok" /\ r \in Records
  BY CopyFacts DEF JobCopy, KnownAhead
<1>2. CASE SegmentOf[r] = todo[j][1] /\ slot[r] <= end[j]
  <2>1. slot[r] <= cur[j]
    BY <1>1, <1>2, CopyFacts DEF SegTypes
  <2> QED
    BY <1>1, <1>2, <2>1 DEF JobCopy, CopiedUpTo, Placed
<1> QED
  BY <1>1, <1>2 DEF JobCopy, KnownAhead

LEMMA CopyStep == SegTypes /\ SegInv /\ JobsOK /\ CopyInv /\ [Next]_vars => CopyInv'
<1> SUFFICES ASSUME SegTypes, SegInv, JobsOK, CopyInv, [Next]_vars  PROVE CopyInv'
  OBVIOUS
<1> USE CompactionAssumption
<1>0. /\ pc \in [Jobs -> {"create", "copying", "idle", "scan", "returned", "panicked"}]
      /\ todo \in [Jobs -> Seq(Segments)] /\ DOMAIN cur = Jobs /\ DOMAIN end = Jobs
      /\ DOMAIN out = Jobs /\ DOMAIN known = Jobs /\ Worker \in Jobs /\ Calls \subseteq Jobs
      /\ \A j \in Jobs : pc[j] = "copying" => JobCopy(j)
      /\ cur \in [Jobs -> 0..Capacity] /\ out \in [Jobs -> Seq(Records)]
      /\ end \in [Jobs -> Nat] /\ known \in [Jobs -> SUBSET Records]
  BY DEF JobsOK, JobTypes, Running, Jobs, CopyInv, JobCopy
(* The steps of one job leave the others' copies alone. *)
<1> DEFINE Still(k) == /\ pc'[k] = pc[k] /\ todo'[k] = todo[k] /\ cur'[k] = cur[k] /\ end'[k] = end[k]
                       /\ out'[k] = out[k] /\ known'[k] = known[k]
<1>1. ASSUME NEW j \in Jobs, UNCHANGED segmentVars, \A k \in Jobs : k # j => Still(k),
             pc'[j] = "copying" => JobCopy(j)'
      PROVE  CopyInv'
  BY <1>0, <1>1, OthersKeepCopy DEF CopyInv, JobCopy
<1>2. ASSUME NEW r \in Records, AppendStep(r)  PROVE CopyInv'
  BY <1>2, AppendsKeepCopies
<1>3. CASE Corrupt \/ UNCHANGED vars
  BY <1>3 DEF Corrupt, vars, segmentVars, jobVars, CopyInv, CopiedUpTo, InSourceOrder, KnownAhead, Placed
<1>4. CASE Tick \/ ScanEnds \/ Pass
  <2>1. UNCHANGED segmentVars /\ pc'[Worker] # "copying" /\ \A k \in Jobs : k # Worker => Still(k)
    BY <1>0, <1>4 DEF Tick, ScanEnds, Pass, Goto
  <2> QED
    BY <1>0, <1>1, <2>1
<1>5. ASSUME NEW j \in Jobs, NEW d, Advance(j, d), UNCHANGED segmentVars  PROVE CopyInv'
  <2>1. pc'[j] # "copying" /\ \A k \in Jobs : k # j => Still(k)
    BY <1>0, <1>5 DEF Advance, Goto
  <2> QED
    BY <1>1, <1>5, <2>1
<1>6. ASSUME NEW j \in Jobs, Claim(j) \/ Merge(j) \/ Panic(j)  PROVE CopyInv'
  <2>1. UNCHANGED segmentVars /\ pc'[j] # "copying" /\ \A k \in Jobs : k # j => Still(k)
    BY <1>0, <1>6 DEF Claim, Merge, Panic, Goto
  <2> QED
    BY <1>1, <2>1
<1>7. ASSUME NEW j \in Jobs, Busy(j) \/ CreateFails(j)  PROVE CopyInv'
  BY <1>5, <1>7 DEF Busy, CreateFails, Fail
<1>8. ASSUME NEW j \in Jobs, Create(j)  PROVE CopyInv'
  <2>1. /\ pc[j] = "create" /\ Open(j, Head(todo[j])) /\ UNCHANGED segmentVars /\ todo' = todo /\ out' = out
        /\ Head(todo[j]) \in Segments /\ Head(todo[j]) = todo[j][1]
    BY <1>8, RunningHasTodo DEF Create, Running
  <2>2. out[j] = <<>> /\ known[j] = {} /\ DOMAIN out[j] = {}
    BY <2>1, EmptyFacts DEF JobsOK, AtRest
  <2>3. InSourceOrder(j)
    BY <2>2 DEF InSourceOrder, IsInjective
  <2>4. JobCopy(j)'
    BY <2>1, <2>2, <2>3, OpenStartsCopy
  <2>5. \A k \in Jobs : k # j => Still(k)
    BY <1>0, <2>1 DEF Open, Goto
  <2> QED
    BY <1>1, <2>1, <2>4, <2>5
<1>9. ASSUME NEW j \in Jobs, Copy(j)  PROVE CopyInv'
  <2>1. CASE ~ (Len(out[j]) < TargetSize)
    BY <1>5, <1>9, <2>1 DEF Copy, Fail
  <2>2. CASE Len(out[j]) < TargetSize
    <3>1. pc[j] = "copying" /\ Head(todo[j]) = todo[j][1]
      BY <1>9, RunningHasTodo DEF Copy, More, Running
    <3>2. PICK x \in Records :
            /\ frames[todo[j][1]][cur[j] + 1] = x
            /\ cur[j] < write_pos[todo[j][1]] /\ write_pos[todo[j][1]] <= Capacity
            /\ out' = [out EXCEPT ![j] = Append(@, x)] /\ cur' = [cur EXCEPT ![j] = @ + 1]
            /\ UNCHANGED <<segmentVars, pc, todo, end, known>>
      BY <1>9, <2>2, <3>1 DEF Copy
    <3>3. out'[j] = Append(out[j], x) /\ cur'[j] = cur[j] + 1 /\ UNCHANGED segmentVars
      BY <1>0, <3>2
    <3>4. JobCopy(j)'
      BY <1>0, <3>1, <3>2, <3>3, CopyGrows
    <3>5. \A k \in Jobs : k # j => Still(k)
      BY <1>0, <3>2
    <3> QED
      BY <1>1, <3>3, <3>4, <3>5
  <2> QED
    BY <2>1, <2>2
<1>10. ASSUME NEW j \in Jobs, Finish(j)  PROVE CopyInv'
  <2>1. pc[j] = "copying" /\ cur[j] >= end[j] /\ UNCHANGED segmentVars /\ JobCopy(j)
    BY <1>0, <1>10 DEF Finish
  <2>2. CASE ~ (j \in merging /\ Len(todo[j]) > 1)
    BY <1>5, <1>10, <2>1, <2>2 DEF Finish, NextOrReturn
  <2>3. CASE j \in merging /\ Len(todo[j]) > 1
    <3>1. Open(j, todo[j][2]) /\ todo' = [todo EXCEPT ![j] = Tail(todo[j])] /\ out' = out
      BY <1>10, <2>3 DEF Finish, NextOrReturn
    <3>2. /\ todo'[j] = Tail(todo[j]) /\ Len(todo[j]) \in Nat
          /\ DOMAIN todo'[j] = 1..(Len(todo[j]) - 1) /\ DOMAIN todo[j] = 1..Len(todo[j])
          /\ \A k \in 1..(Len(todo[j]) - 1) : todo'[j][k] = todo[j][k + 1]
      <4>1. todo[j] \in Seq(Segments) /\ todo[j] # <<>> /\ IsInjective(todo[j])
        BY <1>0, <2>1, RunningHasTodo DEF JobsOK, TodoInv, Running
      <4> QED
        BY <1>0, <3>1, <4>1, TailListed
    <3>3. todo'[j][1] = todo[j][2] /\ todo[j][2] \in Segments
      BY <2>3, <3>2, CopyFacts
    <3>4. \A a \in DOMAIN out[j] : \A k \in DOMAIN todo'[j] : SegmentOf[out[j][a]] # todo'[j][k]
      <4> SUFFICES ASSUME NEW a \in DOMAIN out[j], NEW k \in 1..(Len(todo[j]) - 1),
                          SegmentOf[out[j][a]] = todo[j][k + 1]
                   PROVE  FALSE
        BY <3>2
      <4>1. k + 1 \in DOMAIN todo[j] /\ k + 1 # 1
        BY <3>2
      <4> QED
        BY <2>1, <4>1 DEF JobCopy, CopiedUpTo
    <3>5. \A a \in DOMAIN out[j] : append[out[j][a]] = "ok"
      BY <2>1 DEF JobCopy, CopiedUpTo
    <3>6. JobCopy(j)'
      <4>1. InSourceOrder(j) /\ out'[j] = out[j]
        BY <2>1, <3>1 DEF JobCopy
      <4> QED
        BY <2>1, <3>1, <3>3, <3>4, <3>5, <4>1, NothingLeft, OpenStartsCopy
    <3>7. \A k \in Jobs : k # j => Still(k)
      BY <1>0, <3>1 DEF Open, Goto
    <3> QED
      BY <1>1, <2>1, <3>6, <3>7
  <2> QED
    BY <2>2, <2>3
<1> QED
  BY <1>2, <1>3, <1>4, <1>6, <1>7, <1>8, <1>9, <1>10 DEF Next, JobStep

-----------------------------------------------------------------------------
LEMMA TypesSplit ==
  /\ TypeOK /\ OverCounted => SegTypes /\ JobTypes
  /\ SegTypes /\ JobTypes /\ OverCounted => TypeOK
<1>1. ASSUME TypeOK  PROVE SegTypes /\ JobTypes
  <2>1. Capacity + Cardinality(Records) \in Nat
    BY CompactionAssumption, FS_CardinalityType
  <2> QED
    BY <1>1, <2>1 DEF TypeOK, SegTypes, JobTypes
<1>2. ASSUME SegTypes, JobTypes, OverCounted  PROVE TypeOK
  BY <1>2, WithinBound DEF TypeOK, SegTypes, JobTypes
<1> QED
  BY <1>1, <1>2

LEMMA SegmentsStep == SegTypes /\ SegInv /\ [Next]_vars => SegTypes' /\ SegInv'
<1> SUFFICES ASSUME SegTypes, SegInv, [Next]_vars  PROVE SegTypes' /\ SegInv'
  OBVIOUS
<1>1. ASSUME UNCHANGED segmentVars  PROVE SegTypes' /\ SegInv'
  BY <1>1 DEF segmentVars, SegTypes, SegInv, OverCounted, Over, SlotsDisjoint, Placed, FramesOfAcked
<1>2. ASSUME NEW r \in Records, AppendStep(r)  PROVE SegTypes' /\ SegInv'
  BY <1>2, ReserveStep, RollbackStep, WriteStep DEF AppendStep
<1>3. CASE Corrupt
  BY <1>3, CorruptStep
<1>4. CASE Tick \/ ScanEnds \/ Pass \/ UNCHANGED vars
  BY <1>1, <1>4 DEF Tick, ScanEnds, Pass, vars
<1>5. ASSUME NEW j \in Jobs, JobStep(j) \/ CreateFails(j) \/ Panic(j)  PROVE SegTypes' /\ SegInv'
  <2>1. UNCHANGED segmentVars
    BY <1>5 DEF JobStep, Claim, Busy, Merge, Create, Copy, Finish, CreateFails, Fail, Panic
  <2> QED
    BY <1>1, <2>1
<1> QED
  BY <1>2, <1>3, <1>4, <1>5 DEF Next

-----------------------------------------------------------------------------
(* Initially a segment holds one stored record in its first slot, or none. *)
LEMMA InitSegments == Init => SegTypes /\ SegInv
<1> SUFFICES ASSUME Init  PROVE SegTypes /\ SegInv
  OBVIOUS
<1> USE CompactionAssumption
<1> DEFINE Held(s) == {r \in Stored : SegmentOf[r] = s}
<1>0. \A r \in Records : SegmentOf[r] \in Segments
  OBVIOUS
<1>1. ASSUME NEW s \in Segments
      PROVE  \/ Held(s) = {} /\ Cardinality(Held(s)) = 0
             \/ \E r \in Stored : Held(s) = {r} /\ SegmentOf[r] = s /\ Cardinality(Held(s)) = 1
  <2>1. CASE Held(s) = {}
    BY <2>1, FS_EmptySet
  <2>2. ASSUME NEW r \in Held(s)  PROVE Held(s) = {r} /\ SegmentOf[r] = s /\ r \in Stored
    BY <2>2
  <2>3. \A r : Cardinality({r}) = 1
    BY FS_Singleton
  <2> HIDE DEF Held
  <2> QED
    BY <2>1, <2>2, <2>3
<1>2. ASSUME NEW s \in Segments
      PROVE  \/ write_pos[s] = 0 /\ \A r \in Stored : SegmentOf[r] # s
             \/ \E r \in Stored : /\ write_pos[s] = 1 /\ Capacity > 0 /\ SegmentOf[r] = s
                                  /\ (CHOOSE q \in Stored : SegmentOf[q] = s) = r
  <2>1. write_pos[s] = Cardinality(Held(s))
    BY DEF Init
  <2>2. CASE Held(s) = {} /\ Cardinality(Held(s)) = 0
    BY <2>1, <2>2
  <2>3. ASSUME NEW r \in Stored, Held(s) = {r}, SegmentOf[r] = s, Cardinality(Held(s)) = 1
        PROVE  write_pos[s] = 1 /\ Capacity > 0 /\ (CHOOSE q \in Stored : SegmentOf[q] = s) = r
    BY <2>1, <2>3
  <2> QED
    BY <1>1, <2>2, <2>3
<1>3. \A s \in Segments : write_pos[s] \in Nat /\ write_pos[s] <= Capacity /\ write_pos[s] <= 1
  BY <1>2
<1>4. /\ append = [r \in Records |-> IF r \in Stored THEN "ok" ELSE "new"]
      /\ slot = [r \in Records |-> IF r \in Stored THEN 1 ELSE 0]
      /\ \A s \in Segments, i \in 1..Capacity :
           frames[s][i] = IF i <= write_pos[s] THEN CHOOSE q \in Stored : SegmentOf[q] = s ELSE Empty
  BY DEF Init
<1>5. ASSUME NEW s \in Segments, NEW i \in 1..Capacity
      PROVE  \/ frames[s][i] = Empty
             \/ \E r \in Stored : frames[s][i] = r /\ SegmentOf[r] = s /\ i = 1
  BY <1>2, <1>4
<1>6. SegTypes
  <2>1. write_pos \in [Segments -> Nat]
    BY <1>3 DEF Init
  <2>2. frames \in [Segments -> [1..Capacity -> Records \cup {Empty, Bad}]]
    <3>1. frames = [s \in Segments |-> [i \in 1..Capacity |-> frames[s][i]]]
      BY DEF Init
    <3>2. \A s \in Segments, i \in 1..Capacity : frames[s][i] \in Records \cup {Empty, Bad}
      BY <1>5
    <3> QED
      BY <3>1, <3>2
  <2> QED
    BY <1>4, <2>1, <2>2 DEF SegTypes
<1>7. OverCounted
  <2>1. \A s \in Segments : Over(s) = {}
    BY <1>4 DEF Over
  <2>2. Cardinality({}) = 0
    BY FS_EmptySet
  <2>3. \A s \in Segments : write_pos[s] <= Capacity + Cardinality({})
    BY <1>3, <2>2
  <2> QED
    BY <2>1, <2>3 DEF OverCounted
<1>8. SlotsDisjoint
  <2>1. \A r \in Records : Placed(r) => r \in Stored /\ slot[r] = 1
    BY <1>4 DEF Placed
  <2>2. \A r \in Stored : write_pos[SegmentOf[r]] = 1 /\ Capacity > 0
    BY <1>0, <1>2
  <2> QED
    BY <2>1, <2>2 DEF SlotsDisjoint
<1>9. FramesOfAcked
  BY <1>4, <1>5 DEF FramesOfAcked
<1> QED
  BY <1>6, <1>7, <1>8, <1>9 DEF SegInv

LEMMA InitJobs == Init => JobsOK /\ OneClaim /\ CopyInv
<1> SUFFICES ASSUME Init  PROVE JobsOK /\ OneClaim /\ CopyInv
  OBVIOUS
<1> USE CompactionAssumption, EmptyFacts DEF Init
<1>0. Worker \in Jobs
  BY DEF Jobs
<1>1. JobTypes
  <2>1. 0 \in 0..Capacity /\ 0 \in 0..MaxPerRun /\ 0 \in 0..MaxFaults
    OBVIOUS
  <2>2. out \in [Jobs -> Seq(Records)] /\ \A j \in Jobs : Len(out[j]) <= TargetSize
    OBVIOUS
  <2>3. cur \in [Jobs -> 0..Capacity] /\ end \in [Jobs -> Nat] /\ todo \in [Jobs -> Seq(Segments)]
    BY <2>1
  <2>4. known \in [Jobs -> SUBSET Records] /\ pc \in [Jobs -> Running \cup {"idle", "scan", "returned", "panicked"}]
    OBVIOUS
  <2> QED
    BY <2>1, <2>2, <2>3, <2>4 DEF JobTypes
<1>2. TodoInv /\ AtRest
  BY <1>0 DEF TodoInv, AtRest, Running
<1>3. OneClaim /\ CopyInv
  BY DEF OneClaim, ActiveJob, Running, CopyInv
<1> QED
  BY <1>1, <1>2, <1>3 DEF JobsOK

Inductive == SegTypes /\ SegInv /\ JobsOK /\ OneClaim /\ CopyInv

LEMMA InductiveHolds == Spec => []Inductive
<1>1. Init => Inductive
  BY InitSegments, InitJobs DEF Inductive
<1>2. Inductive /\ [Next]_vars => Inductive'
  BY SegmentsStep, JobsStep, ClaimStep, CopyStep DEF Inductive
<1> QED
  BY <1>1, <1>2, PTL DEF Spec

(* compact_segment's flag admits one compaction at a time, and it is set     *)
(* exactly while one runs or after one ended in an error or a panic: for     *)
(* any number of calls, segments, records and faults, with the types.        *)
THEOREM CompactionInvariant == Spec => []CompactionInv
<1>1. Inductive => CompactionInv
  BY TypesSplit, ClaimCounted DEF Inductive, SegInv, JobsOK, CompactionInv
<1> QED
  BY <1>1, InductiveHolds, PTL

(* When the copy loop of compact_segment or merge_segments comes to its end, *)
(* the output holds every record that append_record had acknowledged when    *)
(* its segment was opened, each once and in the source's order, whatever     *)
(* was reserved, rolled back, written or corrupted during the copy.          *)
THEOREM CopiesAreComplete == Spec => []CompleteCopy
<1>1. Inductive => CompleteCopy
  <2> SUFFICES ASSUME Inductive, NEW j \in Jobs, pc[j] = "copying", cur[j] >= end[j]
               PROVE  /\ known[j] \subseteq Range(out[j]) /\ IsInjective(out[j])
                      /\ \A a, b \in DOMAIN out[j] :
                           a < b /\ SegmentOf[out[j][a]] = SegmentOf[out[j][b]] =>
                             slot[out[j][a]] < slot[out[j][b]]
    BY DEF CompleteCopy
  <2>1. JobCopy(j) /\ SegTypes /\ JobsOK
    BY DEF Inductive, CopyInv, JobCopy
  <2>2. known[j] \subseteq Range(out[j])
    BY <2>1, NothingLeft DEF Range
  <2> QED
    BY <2>1, <2>2 DEF JobCopy, InSourceOrder
<1> QED
  BY <1>1, InductiveHolds, PTL
=============================================================================
