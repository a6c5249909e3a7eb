------------------------------- MODULE Mailbox -------------------------------
(***************************************************************************)
(* The mailbox system (src/src/mailbox.rs): MailboxSystem creates one      *)
(* PersistQ per address, route_message appends to the recipient's queue,   *)
(* and each Mailbox handle reads with an offset of its own.                *)
(*                                                                         *)
(* A queue here is the PersistQ of PersistQ.tla with one partition and a   *)
(* first segment that never fills (64 MB in MailboxSystem::new): a message *)
(* is stored in the file, then numbered, then mapped, in three steps that  *)
(* other sends interleave with.  A read of an offset returns all the bytes *)
(* from that message to the end of the file.  Messages take one slot.      *)
(***************************************************************************)
EXTENDS Integers, Sequences, FiniteSets, SequencesExt

CONSTANTS Addresses,  \* mailbox addresses
          Dir,        \* directory of an address: replace('@', "_")
          Handles,    \* Mailbox values that callers may hold
          Messages,   \* the messages that are sent, one call each
          From, To,   \* sender, and recipient of send_to and send_with_subject
          ReplyTo,    \* the message that a reply answers, or None
          None

ASSUME MailboxAssumption ==
  /\ From \in [Messages -> Addresses]
  /\ To \in [Messages -> Addresses]
  /\ ReplyTo \in [Messages -> Messages \cup {None}]
  /\ IsFiniteSet(Messages)
  /\ Messages \cap {None, "not_found", "unparsable"} = {}
  /\ None \notin [address : Addresses, read_offset : Nat]

VARIABLES
  mailboxes,  \* addresses in MailboxSystemInner.mailboxes
  handle,     \* handle[h]: its address and read_offset, or None
  write_pos,  \* write_pos[a]: slots that the queue of a has written
  file,       \* file[d]: the messages in the segment file of directory d
  next,       \* next[a]: global_offset of the queue of a
  map,        \* map[a]: offset_map, global offset -> slot
  pc,         \* pc[m]: where the send of m is
  slot,       \* slot[m]: local offset of m
  offset,     \* offset[m]: global offset of m
  before,     \* before[m]: sends that had returned when the send of m began
  inbox       \* inbox[h]: what receive on h has returned, in order

vars == <<mailboxes, handle, write_pos, file, next, map, pc, slot, offset, before, inbox>>
queueVars == <<write_pos, file, next, map, slot, offset>>
clientVars == <<handle, inbox>>

Dirs == {Dir[a] : a \in Addresses}
Slots == 1..Cardinality(Messages)
Open(h) == handle[h] # None

(* send_to goes to its argument, reply to the sender of the original *)
Dest(m) == IF ReplyTo[m] = None THEN To[m] ELSE From[ReplyTo[m]]

TypeOK ==
  /\ mailboxes \subseteq Addresses
  /\ handle \in [Handles -> [address : mailboxes, read_offset : Nat] \cup {None}]
  /\ write_pos \in [Addresses -> 0..Cardinality(Messages)]
  /\ file \in [Dirs -> [Slots -> Messages \cup {None}]]
  /\ next \in [Addresses -> Nat]
  /\ \A a \in Addresses : \A g \in DOMAIN map[a] : g < next[a] /\ map[a][g] \in 1..write_pos[a]
  /\ pc \in [Messages -> {"new", "stored", "numbered", "sent", "refused"}]
  /\ slot \in [Messages -> Nat]
  /\ offset \in [Messages -> Nat]
  /\ before \in [Messages -> SUBSET Messages]
  /\ inbox \in [Handles -> Seq(Messages)]

Init ==
  /\ mailboxes = {}
  /\ handle = [h \in Handles |-> None]
  /\ write_pos = [a \in Addresses |-> 0]
  /\ file = [d \in Dirs |-> [s \in Slots |-> None]]
  /\ next = [a \in Addresses |-> 0]
  /\ map = [a \in Addresses |-> <<>>]
  /\ pc = [m \in Messages |-> "new"]
  /\ slot = [m \in Messages |-> 0]
  /\ offset = [m \in Messages |-> 0]
  /\ before = [m \in Messages |-> {}]
  /\ inbox = [h \in Handles |-> <<>>]

-----------------------------------------------------------------------------
(* A new handle starts to read at offset 0 *)
NewHandle(h, a) ==
  /\ ~ Open(h)
  /\ handle' = [handle EXCEPT ![h] = [address |-> a, read_offset |-> 0]]
  /\ UNCHANGED <<queueVars, pc, before, inbox>>

(* create_mailbox, when the address is not taken; its write lock waits for *)
(* the sends under way, which hold the read lock until they return         *)
CreateMailbox(h, a) ==
  /\ a \notin mailboxes
  /\ \A m \in Messages : pc[m] \notin {"stored", "numbered"}
  /\ mailboxes' = mailboxes \cup {a}
  /\ NewHandle(h, a)

(* get_mailbox, when the address exists *)
GetMailbox(h, a) ==
  /\ a \in mailboxes
  /\ NewHandle(h, a)
  /\ UNCHANGED mailboxes

-----------------------------------------------------------------------------
(* send_to, send_with_subject, reply: route_message looks the recipient up *)
(* and the queue stores the message at its write position                  *)
Route(m) ==
  LET a == Dest(m)
  IN  /\ pc[m] = "new"
      /\ \E h \in Handles :
           /\ Open(h) /\ handle[h].address = From[m]
           /\ ReplyTo[m] # None => ReplyTo[m] \in Range(inbox[h])
      /\ before' = [before EXCEPT ![m] = {q \in Messages : pc[q] = "sent"}]
      /\ IF a \in mailboxes
         THEN /\ write_pos' = [write_pos EXCEPT ![a] = @ + 1]
              /\ file' = [file EXCEPT ![Dir[a]][write_pos[a] + 1] = m]
              /\ slot' = [slot EXCEPT ![m] = write_pos[a] + 1]
              /\ pc' = [pc EXCEPT ![m] = "stored"]
         ELSE /\ pc' = [pc EXCEPT ![m] = "refused"]
              /\ UNCHANGED <<write_pos, file, slot>>
      /\ UNCHANGED <<mailboxes, next, map, offset, clientVars>>

(* The queue gives the stored message its global offset *)
AssignOffset(m) ==
  /\ pc[m] = "stored"
  /\ offset' = [offset EXCEPT ![m] = next[Dest(m)]]
  /\ next' = [next EXCEPT ![Dest(m)] = @ + 1]
  /\ pc' = [pc EXCEPT ![m] = "numbered"]
  /\ UNCHANGED <<mailboxes, write_pos, file, map, slot, before, clientVars>>

(* The queue maps the offset, and the send returns the message id *)
InsertMapping(m) ==
  LET a == Dest(m)
  IN  /\ pc[m] = "numbered"
      /\ map' = [map EXCEPT ![a] = [g \in DOMAIN map[a] \cup {offset[m]} |->
                                      IF g = offset[m] THEN slot[m] ELSE map[a][g]]]
      /\ pc' = [pc EXCEPT ![m] = "sent"]
      /\ UNCHANGED <<mailboxes, write_pos, file, next, slot, offset, before, clientVars>>

-----------------------------------------------------------------------------
(* Mutant: messages are read from the end of the queue *)
ReadNewestFirst(h) ==
  LET a == handle[h].address
      g == handle[h].read_offset
  IN  IF g \notin DOMAIN map[a] THEN "not_found"
      ELSE file[Dir[a]][write_pos[a] - g]

(* queue.read(read_offset), then Message::from_bytes: the data is the JSON  *)
(* text of the message and of all that follow it, and serde_json accepts    *)
(* one document only.  An offset that is not mapped is an error.            *)
ReadNext(h) ==
  LET a == handle[h].address
      g == handle[h].read_offset
  IN  IF g \notin DOMAIN map[a] THEN "not_found"
      ELSE IF map[a][g] < write_pos[a] THEN "unparsable"
      ELSE file[Dir[a]][map[a][g]]

(* Mutant: a received message is not consumed *)
ReceiveAgain(h) ==
  /\ Open(h)
  /\ LET result == ReadNext(h)
     IN  inbox' = IF result \in Messages THEN [inbox EXCEPT ![h] = Append(@, result)]
                  ELSE inbox
  /\ UNCHANGED <<mailboxes, queueVars, handle, pc, before>>

(* Mutant: the offset advances only past a message that parses *)
ReceiveStops(h) ==
  /\ Open(h)
  /\ IF ReadNext(h) \in Messages
     THEN /\ handle' = [handle EXCEPT ![h].read_offset = @ + 1]
          /\ inbox' = [inbox EXCEPT ![h] = Append(@, ReadNext(h))]
     ELSE UNCHANGED clientVars
  /\ UNCHANGED <<mailboxes, queueVars, pc, before>>

(* receive: the offset advances as soon as there is data, parsable or not;  *)
(* peek and pending_count are the same read and change nothing              *)
Receive(h) ==
  /\ Open(h)
  /\ LET result == ReadNext(h)
     IN  /\ handle' = IF result = "not_found" THEN handle
                      ELSE [handle EXCEPT ![h].read_offset = @ + 1]
         /\ inbox' = IF result \in Messages THEN [inbox EXCEPT ![h] = Append(@, result)]
                     ELSE inbox
  /\ UNCHANGED <<mailboxes, queueVars, pc, before>>

SendStep(m) == Route(m) \/ AssignOffset(m) \/ InsertMapping(m)

Next ==
  \/ \E h \in Handles, a \in Addresses : CreateMailbox(h, a) \/ GetMailbox(h, a)
  \/ \E m \in Messages : SendStep(m)
  \/ \E h \in Handles : Receive(h)

(* Sends are tasks that run on, and the owner of a handle keeps polling. *)
Spec ==
  /\ Init /\ [][Next]_vars
  /\ \A m \in Messages : WF_vars(SendStep(m))
  /\ \A h \in Handles : WF_vars(Receive(h))

-----------------------------------------------------------------------------
(* What a handle receives was sent to its own address, and receive returns *)
(* no message twice.                                                       *)
OwnMessagesOnce ==
  \A h \in Handles : Open(h) =>
    /\ \A m \in Range(inbox[h]) : pc[m] = "sent" /\ Dest(m) = handle[h].address
    /\ IsInjective(inbox[h])

(* "FIFO order": a message whose send returned before the send of another  *)
(* began is never received after that other one.                           *)
FifoForSequentialSends ==
  \A h \in Handles : \A i, j \in DOMAIN inbox[h] :
    inbox[h][i] \in before[inbox[h][j]] => i < j
=============================================================================
