------------------------------ MODULE Processor ------------------------------
(***************************************************************************)
(* Mailbox processors (src/src/mailbox_processor.rs): ProcessorManager     *)
(* keeps one entry per address; each registration spawns a task that polls *)
(* a handle of its own and calls MailboxProcessor::process on what it      *)
(* receives.  Composed with the mailbox system of Mailbox.tla: a processor *)
(* forwards with ProcessorContext::send_to, which is a send like another.  *)
(*                                                                         *)
(* A registration is named by the call that makes it, and so is the handle *)
(* that it opens.  No processor here calls the manager, which its context  *)
(* does not offer.                                                         *)
(***************************************************************************)
EXTENDS Mailbox

CONSTANTS Regs,      \* calls of register_processor, one processor each
          At,        \* At[r]: the address that r registers
          Outcomes,  \* Outcomes[r]: what process of r may come to
          Out,       \* Out[r][m]: the message that r forwards m as, or None
          Stops,     \* calls of unregister_processor and of shutdown_all
          Target,    \* Target[s]: its address, or None for shutdown_all
          Home       \* Home[h]: the mailbox that the host program opens with h

HostHandles == Handles \ Regs
Outs == {Out[r][m] : r \in Regs, m \in Messages} \ {None}

ASSUME ProcessorAssumption ==
  /\ Regs \subseteq Handles
  /\ At \in [Regs -> Addresses]
  /\ Outcomes \in [Regs -> SUBSET {"forward", "nothing", "error", "panic"}]
  /\ Out \in [Regs -> [Messages -> Messages \cup {None}]]
  /\ Target \in [Stops -> Addresses \cup {None}]
  /\ None \notin Addresses \cup Regs \cup Stops
  /\ Home \in [HostHandles -> Addresses]
  /\ \A r \in Regs, m \in Messages : Out[r][m] # None => From[Out[r][m]] = At[r]
  /\ \A r, q \in Regs, m, n \in Messages :    \* each forward is a message of its own
       Out[r][m] = Out[q][n] /\ Out[r][m] # None => r = q /\ m = n

VARIABLES
  processors,  \* ProcessorManager.processors: address -> registration, or None
  lock,        \* the stop call that holds the write lock of processors, or None
  reg,         \* reg[r]: where the registration call is
  task,        \* task[r]: what its task does
  hand,        \* hand[r]: the message that process has, or None
  signalled,   \* registrations whose shutdown_tx was used or dropped
  stop,        \* stop[s]: where the stop call is
  victim,      \* victim[s]: the entry that it has removed, or None
  cleaned      \* registrations whose processor.shutdown was called

taskVars == <<task, hand>>
managerVars == <<processors, lock, reg, signalled, stop, victim, cleaned>>
processorVars == <<taskVars, managerVars>>
systemVars == <<vars, processorVars>>

ProcessorTypeOK ==
  /\ TypeOK
  /\ processors \in [Addresses -> Regs \cup {None}]
  /\ \A a \in Addresses : processors[a] # None => At[processors[a]] = a
  /\ lock \in Stops \cup {None}
  /\ reg \in [Regs -> {"new", "opened", "spawned", "registered", "failed"}]
  /\ task \in [Regs -> {"none", "polling", "processing", "sending", "ended"}]
  /\ hand \in [Regs -> Messages \cup {None}]
  /\ signalled \subseteq Regs
  /\ stop \in [Stops -> {"new", "holding", "returned"}]
  /\ \A s \in Stops : stop[s] = "holding" <=> lock = s
  /\ victim \in [Stops -> Regs \cup {None}]
  /\ cleaned \subseteq Regs

ProcessorInit ==
  /\ Init
  /\ processors = [a \in Addresses |-> None]
  /\ lock = None
  /\ reg = [r \in Regs |-> "new"]
  /\ task = [r \in Regs |-> "none"]
  /\ hand = [r \in Regs |-> None]
  /\ signalled = {}
  /\ stop = [s \in Stops |-> "new"]
  /\ victim = [s \in Stops |-> None]
  /\ cleaned = {}

-----------------------------------------------------------------------------
(* register_processor gets a handle of the mailbox, if there is one *)
OpenMailbox(r) ==
  /\ reg[r] = "new"
  /\ \/ GetMailbox(r, At[r]) /\ reg' = [reg EXCEPT ![r] = "opened"]
     \/ At[r] \notin mailboxes /\ reg' = [reg EXCEPT ![r] = "failed"] /\ UNCHANGED vars
  /\ UNCHANGED <<taskVars, processors, lock, signalled, stop, victim, cleaned>>

(* init returns Ok, and the task is spawned *)
Spawn(r) ==
  /\ reg[r] = "opened"
  /\ reg' = [reg EXCEPT ![r] = "spawned"]
  /\ task' = [task EXCEPT ![r] = "polling"]
  /\ UNCHANGED <<vars, hand, processors, lock, signalled, stop, victim, cleaned>>

(* or an error, which register_processor returns *)
InitFails(r) ==
  /\ reg[r] = "opened"
  /\ reg' = [reg EXCEPT ![r] = "failed"]
  /\ UNCHANGED <<vars, taskVars, processors, lock, signalled, stop, victim, cleaned>>

(* Mutant: the sender of the entry that is replaced stays alive *)
InsertKeepingSender(r) ==
  /\ reg[r] = "spawned" /\ lock = None
  /\ processors' = [processors EXCEPT ![At[r]] = r]
  /\ reg' = [reg EXCEPT ![r] = "registered"]
  /\ UNCHANGED <<vars, taskVars, lock, signalled, stop, victim, cleaned>>

(* With the write lock the entry is inserted; the one that it replaces is   *)
(* dropped and its channel closes, but nobody waits for its task.           *)
Insert(r) ==
  /\ reg[r] = "spawned" /\ lock = None
  /\ processors' = [processors EXCEPT ![At[r]] = r]
  /\ signalled' = signalled \cup ({processors[At[r]]} \ {None})
  /\ reg' = [reg EXCEPT ![r] = "registered"]
  /\ UNCHANGED <<vars, taskVars, lock, stop, victim, cleaned>>

-----------------------------------------------------------------------------
(* A tick of the task: process_messages receives.  No message, or an error *)
(* that is logged, and the task waits for the next tick.                   *)
Poll(r) ==
  /\ task[r] = "polling"
  /\ Receive(r)
  /\ IF ReadNext(r) \in Messages
     THEN /\ hand' = [hand EXCEPT ![r] = ReadNext(r)]
          /\ task' = [task EXCEPT ![r] = "processing"]
     ELSE UNCHANGED taskVars
  /\ UNCHANGED managerVars

(* process is over, and the message with it *)
Return(r, l) ==
  /\ task' = [task EXCEPT ![r] = l]
  /\ hand' = [hand EXCEPT ![r] = None]
  /\ UNCHANGED <<vars, managerVars>>

(* A FilterProcessor whose predicate does not hold does nothing *)
Ignore(r) == task[r] = "processing" /\ "nothing" \in Outcomes[r] /\ Return(r, "polling")

(* AggregationProcessor and ParquetExportProcessor return the error of      *)
(* ctx.query and ctx.export_parquet, since SQL is never enabled; it is      *)
(* logged, and the message is gone                                          *)
Fail(r) == task[r] = "processing" /\ "error" \in Outcomes[r] /\ Return(r, "polling")

(* A processor that panics (the unwrap of an export path, a closure of the  *)
(* caller) ends its task; the entry stays                                   *)
Panic(r) == task[r] = "processing" /\ "panic" \in Outcomes[r] /\ Return(r, "ended")

(* process calls ctx.send_to: to the sender (EchoProcessor) or to its       *)
(* output mailbox (FilterProcessor, TransformProcessor)                     *)
Forward(r) ==
  /\ task[r] = "processing" /\ "forward" \in Outcomes[r]
  /\ Out[r][hand[r]] # None
  /\ Route(Out[r][hand[r]])
  /\ task' = [task EXCEPT ![r] = "sending"]
  /\ UNCHANGED <<hand, managerVars>>

(* and returns when the send has, or with its error *)
Forwarded(r) ==
  /\ task[r] = "sending"
  /\ pc[Out[r][hand[r]]] \in {"sent", "refused"}
  /\ Return(r, "polling")

(* Mutant: a closed channel does not end the task, only a message in it *)
TaskEndsOnMessage(r) ==
  /\ task[r] = "polling" /\ \E s \in Stops : victim[s] = r
  /\ task' = [task EXCEPT ![r] = "ended"]
  /\ UNCHANGED <<vars, hand, managerVars>>

(* Between two ticks shutdown_rx.recv() yields, and the loop breaks. *)
TaskEnds(r) ==
  /\ task[r] = "polling" /\ r \in signalled
  /\ task' = [task EXCEPT ![r] = "ended"]
  /\ UNCHANGED <<vars, hand, managerVars>>

-----------------------------------------------------------------------------
(* The entries that a stop call is for *)
Entries(s) ==
  {processors[a] : a \in {b \in Addresses : Target[s] \in {b, None}}} \ {None}

(* unregister_processor and shutdown_all take the write lock of processors *)
Acquire(s) ==
  /\ stop[s] = "new" /\ lock = None
  /\ lock' = s
  /\ stop' = [stop EXCEPT ![s] = "holding"]
  /\ UNCHANGED <<vars, taskVars, processors, reg, signalled, victim, cleaned>>

(* remove an entry and send its task the shutdown message *)
RemoveEntry(s, r) ==
  /\ lock = s /\ victim[s] = None
  /\ r \in Entries(s)
  /\ processors' = [processors EXCEPT ![At[r]] = None]
  /\ signalled' = signalled \cup {r}
  /\ victim' = [victim EXCEPT ![s] = r]
  /\ UNCHANGED <<vars, taskVars, lock, reg, stop, cleaned>>

(* The task has ended and processor.shutdown is called.  Whether it fails   *)
(* shows only in what unregister_processor returns.                         *)
CleanUp(s) ==
  /\ lock = s /\ victim[s] # None
  /\ task[victim[s]] = "ended"
  /\ cleaned' = cleaned \cup {victim[s]}
  /\ victim' = [victim EXCEPT ![s] = None]
  /\ UNCHANGED <<vars, taskVars, processors, lock, reg, signalled, stop>>

(* No entry is left for the call: it returns and the lock is released. *)
Release(s) ==
  /\ lock = s /\ victim[s] = None /\ Entries(s) = {}
  /\ lock' = None
  /\ stop' = [stop EXCEPT ![s] = "returned"]
  /\ UNCHANGED <<vars, taskVars, processors, reg, signalled, victim, cleaned>>

-----------------------------------------------------------------------------
(* The host program, one task, opens its mailboxes and sends *)
Host ==
  /\ \A m \in Messages \ Outs : pc[m] \notin {"stored", "numbered"}
  /\ \/ \E h \in HostHandles : CreateMailbox(h, Home[h]) \/ GetMailbox(h, Home[h])
     \/ \E m \in Messages \ Outs : Route(m)
  /\ UNCHANGED processorVars

(* and every send under way goes on. *)
FinishSend(m) == (AssignOffset(m) \/ InsertMapping(m)) /\ UNCHANGED processorVars

RegisterStep(r) == Spawn(r) \/ InitFails(r) \/ Insert(r)
TaskStep(r) == Ignore(r) \/ Fail(r) \/ Panic(r) \/ Forward(r) \/ Forwarded(r)
StopStep(s) == (\E r \in Regs : RemoveEntry(s, r)) \/ CleanUp(s) \/ Release(s)

ProcessorNext ==
  \/ \E r \in Regs : OpenMailbox(r) \/ RegisterStep(r) \/ Poll(r) \/ TaskStep(r) \/ TaskEnds(r)
  \/ \E s \in Stops : Acquire(s) \/ StopStep(s)
  \/ \E m \in Messages : FinishSend(m)
  \/ Host

(* Calls and tasks run on and intervals tick.  Between two ticks a task     *)
(* sees the signal that waits for it.                                       *)
ProcessorSpec ==
  /\ ProcessorInit /\ [][ProcessorNext]_systemVars
  /\ \A r \in Regs : /\ WF_systemVars(RegisterStep(r)) /\ WF_systemVars(Poll(r))
                     /\ WF_systemVars(TaskStep(r)) /\ WF_systemVars(TaskEnds(r))
  /\ \A s \in Stops : WF_systemVars(StopStep(s))
  /\ \A m \in Messages : WF_systemVars(FinishSend(m))

-----------------------------------------------------------------------------
Running(r) == task[r] \notin {"none", "ended"}

(* Once processor.shutdown has been called nothing of the registration goes *)
(* on: its task has ended and no send that it began is under way.           *)
QuietAfterShutdown ==
  \A r \in cleaned :
    /\ task[r] = "ended"
    /\ \A m \in Messages : Out[r][m] # None => pc[Out[r][m]] \in {"new", "sent", "refused"}

(* Every running task is within reach: it has the entry of its address, or  *)
(* it was told to end, or its registration is about to insert it.  So of    *)
(* the registrations that have returned at most one per address goes on.    *)
TasksWithinReach ==
  \A r \in Regs : Running(r) =>
    processors[At[r]] = r \/ r \in signalled \/ reg[r] = "spawned"

(* A processor forwards in the order in which its task received: a forward  *)
(* has returned before the next one begins, and comes first in the queue    *)
(* when both go to the same mailbox.                                        *)
ForwardsInOrder ==
  \A r \in Regs : \A i, j \in DOMAIN inbox[r] :
    LET a == Out[r][inbox[r][i]]
        b == Out[r][inbox[r][j]]
    IN  /\ i < j /\ a # None /\ b # None
        /\ pc[b] # "new" /\ pc[a] # "new"
        => /\ pc[a] \in {"sent", "refused"}
           /\ pc[a] = "sent" /\ pc[b] = "sent" /\ Dest(a) = Dest(b) => offset[a] < offset[b]

(* Every call of the manager returns, though stop calls wait for tasks with *)
(* the write lock held.                                                     *)
ManagerCallsReturn ==
  /\ \A r \in Regs : reg[r] = "opened" ~> reg[r] \in {"registered", "failed"}
  /\ \A s \in Stops : stop[s] = "holding" ~> stop[s] = "returned"

(* A stop call ends the task of every registration of its addresses that    *)
(* had returned before it, the displaced ones too.  One whose task runs but *)
(* whose entry is not inserted yet survives it.                             *)
RegisteredTasksEnd ==
  \A r \in Regs, s \in Stops :
    reg[r] = "registered" /\ stop[s] = "holding" /\ Target[s] \in {At[r], None}
      ~> task[r] = "ended"

(* A task that keeps its entry receives, in the end, the message that was   *)
(* stored last at its address.                                              *)
LastMessageProcessed ==
  \A r \in Regs : <>[](
    processors[At[r]] = r /\ Running(r) /\ write_pos[At[r]] > 0
      => file[Dir[At[r]]][write_pos[At[r]]] \in Range(inbox[r]))

(* What the manager keeps of its tasks, through registrations and stop      *)
(* calls in any order: all within reach, quiet after shutdown, in order.    *)
ProcessorInv == ProcessorTypeOK /\ TasksWithinReach /\ QuietAfterShutdown /\ ForwardsInOrder

(* Calls of the manager return, and the tasks that they stop end.           *)
ManagerProgress == ManagerCallsReturn /\ RegisteredTasksEnd
=============================================================================
