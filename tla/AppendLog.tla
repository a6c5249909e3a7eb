----------------------------- MODULE AppendLog -----------------------------
(***************************************************************************)
(* What a segment of the store promises: a bounded append-only log.  An    *)
(* append call either places its record at the end of the log, in one      *)
(* indivisible step, or is refused because the record does not fit.        *)
(* The lock-free RecordSegment of src/src/storage.rs is shown to implement *)
(* it for records of one size (UniformSegment).                            *)
(***************************************************************************)
EXTENDS Integers

CONSTANTS Records,   \* the append calls, one record each
          Size,      \* bytes that the record of a call takes in the log
          MaxSize    \* bytes that the log can hold

VARIABLES status,    \* status[r]: what the call of r has been promised
          place,     \* place[r]: the offset of r once it is in the log
          extent     \* where the next record goes

logVars == <<status, place, extent>>

NoOffset == -1

LogInit ==
  /\ status = [r \in Records |-> "new"]
  /\ place = [r \in Records |-> NoOffset]
  /\ extent = 0

Place(r) ==
  /\ status[r] = "new"
  /\ extent + Size[r] <= MaxSize
  /\ status' = [status EXCEPT ![r] = "in"]
  /\ place' = [place EXCEPT ![r] = extent]
  /\ extent' = extent + Size[r]

Refuse(r) ==
  /\ status[r] = "new"
  /\ extent + Size[r] > MaxSize
  /\ status' = [status EXCEPT ![r] = "full"]
  /\ UNCHANGED <<place, extent>>

LogNext == \E r \in Records : Place(r) \/ Refuse(r)

LogSpec == LogInit /\ [][LogNext]_logVars
=============================================================================
