--------------------------- MODULE CircuitBreaker ---------------------------
(***************************************************************************)
(* The circuit breaker and the retry loop (src/src/resilience.rs).  Each   *)
(* caller runs retry_with_backoff under with_timeout, again and again.     *)
(* The closure that it retries is synchronous, so it cannot await          *)
(* with_circuit_breaker; it makes the calls that function consists of      *)
(* (can_proceed, the operation, record_success or record_failure) itself.  *)
(* A timeout can only strike while the retry loop sleeps.  A call of       *)
(* with_circuit_breaker is a call with MaxRetries = 0.                     *)
(*                                                                         *)
(* A method reads the state, releases the lock and acts on what it read:   *)
(* every read, counter update and transition is a step of its own.  Time   *)
(* is `age', the time since the last transition, as far as it is compared. *)
(***************************************************************************)
EXTENDS Integers, FiniteSets

CONSTANTS Callers,           \* tasks that share the breaker
          FailureThreshold,  \* CircuitBreakerConfig
          SuccessThreshold,
          Timeout,           \* in ticks
          MaxRetries         \* RetryConfig.max_retries

ASSUME BreakerAssumption ==
  /\ FailureThreshold \in Nat \ {0}
  /\ SuccessThreshold \in Nat \ {0}
  /\ Timeout \in Nat
  /\ MaxRetries \in Nat

VARIABLES
  state,          \* CircuitState
  failure_count,
  success_count,
  age,            \* last_state_change.elapsed(), capped at Timeout
  at,             \* at[c]: where the call of c is
  attempt,        \* attempt[c]: retry_with_backoff's counter
  healthy,        \* whether the operation behind the breaker succeeds
  stale           \* callers that read the state before the last opening

breaker == <<state, failure_count, success_count, age>>
breakerVars == <<breaker, at, attempt, healthy, stale>>

States == {"Closed", "Open", "HalfOpen"}

BreakerTypeOK ==
  /\ state \in States
  /\ failure_count \in Nat
  /\ success_count \in Nat
  /\ age \in 0..Timeout
  /\ at \in [Callers -> {"idle", "open_seen", "reopening", "running", "ok_closed", "ok_half",
                         "closing", "fail_closed", "opening", "failed", "sleeping"}]
  /\ attempt \in [Callers -> 0..MaxRetries]
  /\ healthy \in BOOLEAN
  /\ stale \subseteq Callers

BreakerInit ==
  /\ state = "Closed"
  /\ failure_count = 0
  /\ success_count = 0
  /\ age = 0
  /\ at = [c \in Callers |-> "idle"]
  /\ attempt = [c \in Callers |-> 0]
  /\ healthy = TRUE
  /\ stale = {}

Move(c, l) == at' = [at EXCEPT ![c] = l]
Fresh(c) == stale' = stale \ {c}

-----------------------------------------------------------------------------
(* can_proceed reads the state *)
CanProceed(c) ==
  /\ at[c] = "idle"
  /\ Move(c, IF state = "Open" THEN "open_seen" ELSE "running")
  /\ Fresh(c)
  /\ UNCHANGED <<breaker, attempt, healthy>>

(* Mutant: the timeout is not looked at *)
CheckTimeoutSkipped(c) ==
  /\ at[c] = "open_seen"
  /\ Move(c, "reopening")
  /\ Fresh(c)
  /\ UNCHANGED <<breaker, attempt, healthy>>

(* and, if it was Open, the time of the last change *)
CheckTimeout(c) ==
  /\ at[c] = "open_seen"
  /\ Move(c, IF age >= Timeout THEN "reopening" ELSE "failed")
  /\ Fresh(c)
  /\ UNCHANGED <<breaker, attempt, healthy>>

(* transition_to_half_open, whatever the state is by now; the call proceeds *)
TransitionToHalfOpen(c) ==
  /\ at[c] = "reopening"
  /\ state' = "HalfOpen"
  /\ age' = 0
  /\ success_count' = 0
  /\ failure_count' = 0
  /\ Move(c, "running")
  /\ UNCHANGED <<attempt, healthy, stale>>

(* The operation returns, and record_success or record_failure reads the    *)
(* state.  An outcome that arrives when the breaker is Open is ignored.     *)
Operation(c) ==
  /\ at[c] = "running"
  /\ Move(c, IF healthy
             THEN CASE state = "Closed" -> "ok_closed"
                    [] state = "HalfOpen" -> "ok_half"
                    [] OTHER -> "idle"
             ELSE CASE state = "Closed" -> "fail_closed"
                    [] state = "HalfOpen" -> "opening"
                    [] OTHER -> "failed")
  /\ attempt' = IF healthy /\ state = "Open" THEN [attempt EXCEPT ![c] = 0] ELSE attempt
  /\ Fresh(c)
  /\ UNCHANGED <<breaker, healthy>>

(* retry_with_backoff returns at the first success *)
Succeed(c) == attempt' = [attempt EXCEPT ![c] = 0]

(* record_success in the Closed state *)
ResetFailures(c) ==
  /\ at[c] = "ok_closed"
  /\ failure_count' = 0
  /\ Move(c, "idle") /\ Succeed(c)
  /\ UNCHANGED <<state, success_count, age, healthy, stale>>

(* Mutant: the success that meets the threshold does not close *)
CountSuccessOnly(c) ==
  /\ at[c] = "ok_half"
  /\ success_count' = 1
  /\ Move(c, "idle") /\ Succeed(c)
  /\ UNCHANGED <<state, failure_count, age, healthy, stale>>

(* record_success in the HalfOpen state *)
CountSuccess(c) ==
  /\ at[c] = "ok_half"
  /\ success_count' = success_count + 1
  /\ IF success_count' >= SuccessThreshold
     THEN Move(c, "closing") /\ UNCHANGED attempt
     ELSE Move(c, "idle") /\ Succeed(c)
  /\ UNCHANGED <<state, failure_count, age, healthy, stale>>

(* Mutant: the failures that opened the breaker are kept *)
TransitionToClosedKeeping(c) ==
  /\ at[c] = "closing"
  /\ state' = "Closed"
  /\ age' = 0
  /\ success_count' = 0
  /\ Move(c, "idle") /\ Succeed(c)
  /\ UNCHANGED <<failure_count, healthy, stale>>

TransitionToClosed(c) ==
  /\ at[c] = "closing"
  /\ state' = "Closed"
  /\ age' = 0
  /\ success_count' = 0
  /\ failure_count' = 0
  /\ Move(c, "idle") /\ Succeed(c)
  /\ UNCHANGED <<healthy, stale>>

(* record_failure in the Closed state *)
CountFailure(c) ==
  /\ at[c] = "fail_closed"
  /\ failure_count' = failure_count + 1
  /\ Move(c, IF failure_count' >= FailureThreshold THEN "opening" ELSE "failed")
  /\ UNCHANGED <<state, success_count, age, attempt, healthy, stale>>

(* transition_to_open leaves failure_count alone.  Every call that has read *)
(* the state, or the elapsed time, and not acted yet, is stale from now on. *)
TransitionToOpen(c) ==
  /\ at[c] = "opening"
  /\ state' = "Open"
  /\ age' = 0
  /\ success_count' = 0
  /\ stale' = {d \in Callers : at[d] \in {"reopening", "ok_half", "closing"}}
  /\ Move(c, "failed")
  /\ UNCHANGED <<failure_count, attempt, healthy>>

-----------------------------------------------------------------------------
(* The attempt failed, or the breaker refused it: retry_with_backoff gives  *)
(* up after MaxRetries retries or sleeps                                    *)
Retry(c) ==
  /\ at[c] = "failed"
  /\ IF attempt[c] >= MaxRetries
     THEN Move(c, "idle") /\ attempt' = [attempt EXCEPT ![c] = 0]
     ELSE Move(c, "sleeping") /\ attempt' = [attempt EXCEPT ![c] = @ + 1]
  /\ UNCHANGED <<breaker, healthy, stale>>

(* and tries again *)
Wake(c) ==
  /\ at[c] = "sleeping"
  /\ Move(c, "idle")
  /\ UNCHANGED <<breaker, attempt, healthy, stale>>

(* with_timeout drops the call in its sleep; the next one starts afresh *)
TimeOut(c) ==
  /\ at[c] = "sleeping"
  /\ Move(c, "idle")
  /\ attempt' = [attempt EXCEPT ![c] = 0]
  /\ UNCHANGED <<breaker, healthy, stale>>

(* Time passes, as far as the breaker can tell. *)
Tick ==
  /\ age < Timeout
  /\ age' = age + 1
  /\ UNCHANGED <<state, failure_count, success_count, at, attempt, healthy, stale>>

(* What is behind the breaker fails or recovers. *)
Flip ==
  /\ healthy' = ~ healthy
  /\ UNCHANGED <<breaker, at, attempt, stale>>

Step(c) ==
  \/ CanProceed(c) \/ CheckTimeout(c) \/ TransitionToHalfOpen(c)
  \/ Operation(c)
  \/ ResetFailures(c) \/ CountSuccess(c) \/ TransitionToClosed(c)
  \/ CountFailure(c) \/ TransitionToOpen(c)
  \/ Retry(c) \/ Wake(c)

BreakerNext ==
  \/ \E c \in Callers : Step(c) \/ TimeOut(c)
  \/ Tick
  \/ Flip

(* Callers run on and call again, sleeps end and time passes.  *)
BreakerSpec ==
  /\ BreakerInit /\ [][BreakerNext]_breakerVars
  /\ \A c \in Callers : WF_breakerVars(Step(c))
  /\ WF_breakerVars(Tick)

-----------------------------------------------------------------------------
(* No opening is lost: if record_failure has counted to the threshold and  *)
(* the breaker is still Closed, some caller is about to open it, whatever  *)
(* the others do to the counter meanwhile.                                 *)
ThresholdOpens ==
  state = "Closed" /\ failure_count >= FailureThreshold =>
    \E c \in Callers : at[c] = "opening"

(* No closing is lost either: a half-open breaker with enough successes is *)
(* about to be closed.                                                     *)
ThresholdCloses ==
  state = "HalfOpen" /\ success_count >= SuccessThreshold =>
    \E c \in Callers : at[c] = "closing"

(* An open breaker stays open until its timeout, unless a call that had    *)
(* read the state or the elapsed time before it opened acts on that now.   *)
OpenUntilTimeout ==
  [][state = "Open" /\ state' # "Open" =>
       age >= Timeout \/ \E c \in stale : at'[c] # at[c]]_breakerVars

(* Once the operation succeeds for good the breaker closes for good.       *)
RecoversWhenHealthy == (<>[]healthy) => <>[](state = "Closed")

(* While it keeps failing the breaker opens again and again.               *)
TripsWhenFailing == (<>[]~healthy) => []<>(state = "Open")

(* Counters and state agree, though each is read and written under a lock   *)
(* of its own: a threshold that is reached has its transition on the way.   *)
BreakerInv == BreakerTypeOK /\ ThresholdOpens /\ ThresholdCloses

(* The breaker follows the operation, both ways, under every interleaving   *)
(* of callers that act on a state they read before.                         *)
FollowsOperation == RecoversWhenHealthy /\ TripsWhenFailing
=============================================================================
