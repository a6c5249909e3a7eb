--------------------------- MODULE MailboxProofs ---------------------------
(***************************************************************************)
(* Proofs about mailboxes, for any number of addresses, handles, messages  *)
(* and requests: what receive returns, in which order, what becomes of     *)
(* every message that the network server consumes, and that processors     *)
(* stay within their manager's reach and forward in order.                 *)
(***************************************************************************)
EXTENDS MailboxServer, Processor, SequenceTheorems, FiniteSetTheorems, TLAPS

Placed == {"stored", "numbered", "sent"}
Numbered == {"numbered", "sent"}

(* The messages that the queue of a has stored *)
StoredAt(a) == {m \in Messages : pc[m] \in Placed /\ Dest(m) = a}

(* write_pos counts them, and each has a slot below it. *)
SlotsCounted ==
  /\ \A a \in Addresses : Cardinality(StoredAt(a)) = write_pos[a]
  /\ \A m \in Messages : pc[m] \in Placed => slot[m] \in 1..write_pos[Dest(m)]

(* The offsets of a queue are below its counter, each given once. *)
OffsetsUnique ==
  /\ \A m \in Messages : pc[m] \in Numbered => offset[m] < next[Dest(m)]
  /\ \A m, n \in Messages :
       pc[m] \in Numbered /\ pc[n] \in Numbered /\ Dest(m) = Dest(n) /\ offset[m] = offset[n] => m = n

(* The map knows messages whose send has returned. *)
MapOfSent ==
  /\ DOMAIN map = Addresses
  /\ \A a \in Addresses : \A g \in DOMAIN map[a] :
       \E m \in Messages : pc[m] = "sent" /\ Dest(m) = a /\ offset[m] = g /\ slot[m] = map[a][g]

(* A send that returned before another began has the smaller offset. *)
BeforeSmaller ==
  \A n \in Messages : \A m \in before[n] :
    /\ pc[m] = "sent"
    /\ pc[n] \in Numbered /\ Dest(m) = Dest(n) => offset[m] < offset[n]

MailInv == TypeOK /\ SlotsCounted /\ OffsetsUnique /\ MapOfSent /\ BeforeSmaller

(* Queues with directories of their own keep every message in its slot. *)
OwnDirs == \A a, b \in Addresses : Dir[a] = Dir[b] => a = b

InFile == \A m \in Messages : pc[m] \in Placed => file[Dir[Dest(m)]][slot[m]] = m

(* What a handle has received is below its read_offset, in offset order. *)
InboxOrdered ==
  \A h \in Handles :
    /\ ~ Open(h) => inbox[h] = <<>>
    /\ Open(h) => \A i \in 1..Len(inbox[h]) :
         /\ pc[inbox[h][i]] = "sent" /\ Dest(inbox[h][i]) = handle[h].address
         /\ offset[inbox[h][i]] < handle[h].read_offset
    /\ \A i, j \in 1..Len(inbox[h]) : i < j => offset[inbox[h][i]] < offset[inbox[h][j]]

-----------------------------------------------------------------------------
LEMMA DestType == \A m \in Messages : Dest(m) \in Addresses
BY MailboxAssumption DEF Dest

LEMMA InitMail == Init => MailInv /\ InFile /\ InboxOrdered
<1> SUFFICES ASSUME Init  PROVE MailInv /\ InFile /\ InboxOrdered
  OBVIOUS
<1> USE MailboxAssumption DEF Init
<1>1. TypeOK
  <2>1. Cardinality(Messages) \in Nat
    BY FS_CardinalityType
  <2> QED
    BY <2>1 DEF TypeOK
<1>2. SlotsCounted
  <2>1. \A a \in Addresses : StoredAt(a) = {}
    BY DEF StoredAt, Placed
  <2> QED
    BY <2>1, FS_EmptySet DEF SlotsCounted, Placed
<1>3. OffsetsUnique /\ MapOfSent /\ BeforeSmaller
  BY DEF OffsetsUnique, MapOfSent, BeforeSmaller, Numbered
<1>4. InFile /\ InboxOrdered
  BY DEF InFile, InboxOrdered, Placed, Open
<1> QED
  BY <1>1, <1>2, <1>3, <1>4 DEF MailInv

(* There is a slot left for a message that was not stored yet. *)
LEMMA SlotLeft ==
  ASSUME MailInv, NEW m \in Messages, pc[m] = "new"
  PROVE  /\ write_pos[Dest(m)] + 1 \in Slots
         /\ Cardinality(StoredAt(Dest(m)) \cup {m}) = write_pos[Dest(m)] + 1
<1> DEFINE S == StoredAt(Dest(m))
<1>1. IsFiniteSet(Messages) /\ S \subseteq Messages /\ m \notin S
  BY MailboxAssumption DEF StoredAt, Placed
<1>2. IsFiniteSet(S) /\ Cardinality(S) = write_pos[Dest(m)]
  BY <1>1, FS_Subset, DestType DEF MailInv, SlotsCounted
<1>3. Cardinality(S \cup {m}) = Cardinality(S) + 1
  BY <1>1, <1>2, FS_AddElement
<1>4. Cardinality(S \cup {m}) <= Cardinality(Messages)
  BY <1>1, FS_Subset
<1>5. Cardinality(Messages) \in Nat /\ Cardinality(S) \in Nat
  BY <1>1, <1>2, FS_CardinalityType
<1> QED
  BY <1>2, <1>3, <1>4, <1>5 DEF Slots

(* What depends on the sends alone *)
SendInv == SlotsCounted /\ OffsetsUnique /\ MapOfSent /\ BeforeSmaller

LEMMA SendFrame ==
  ASSUME SendInv, UNCHANGED <<queueVars, pc, before>>
  PROVE  SendInv'
BY DEF SendInv, queueVars, SlotsCounted, StoredAt, OffsetsUnique, MapOfSent, BeforeSmaller

(* Opening a handle *)
LEMMA OpenStep ==
  ASSUME MailInv, NEW h \in Handles, NEW a \in Addresses, CreateMailbox(h, a) \/ GetMailbox(h, a)
  PROVE  MailInv'
<1>1. NewHandle(h, a) /\ mailboxes \subseteq mailboxes' /\ a \in mailboxes' /\ mailboxes' \subseteq Addresses
  BY DEF CreateMailbox, GetMailbox, MailInv, TypeOK
<1>2. SendInv'
  BY <1>1, SendFrame DEF SendInv, MailInv, NewHandle
<1>3. handle' \in [Handles -> [address : mailboxes', read_offset : Nat] \cup {None}]
  <2>1. handle \in [Handles -> [address : mailboxes', read_offset : Nat] \cup {None}]
    BY <1>1 DEF MailInv, TypeOK
  <2>2. [address |-> a, read_offset |-> 0] \in [address : mailboxes', read_offset : Nat]
    BY <1>1
  <2> QED
    BY <1>1, <2>1, <2>2 DEF NewHandle
<1>4. TypeOK'
  BY <1>1, <1>3 DEF NewHandle, queueVars, MailInv, TypeOK
<1> QED
  BY <1>2, <1>4 DEF MailInv, SendInv

(* A read, and what it does to the handle *)
LEMMA ReceiveStep ==
  ASSUME MailInv, NEW h \in Handles, Receive(h)
  PROVE  MailInv'
<1>1. SendInv'
  BY SendFrame DEF SendInv, MailInv, Receive
<1>2. handle[h] \in [address : mailboxes, read_offset : Nat]
  BY DEF Receive, Open, MailInv, TypeOK
<1>3. handle' \in [Handles -> [address : mailboxes, read_offset : Nat] \cup {None}]
  <2>1. [handle[h] EXCEPT !.read_offset = @ + 1] \in [address : mailboxes, read_offset : Nat]
    BY <1>2
  <2>2. \/ handle' = handle
        \/ handle' = [handle EXCEPT ![h] = [handle[h] EXCEPT !.read_offset = @ + 1]]
    BY DEF Receive
  <2> QED
    BY <2>1, <2>2 DEF MailInv, TypeOK
<1>4. inbox' \in [Handles -> Seq(Messages)]
  BY DEF Receive, MailInv, TypeOK
<1>5. TypeOK'
  BY <1>3, <1>4 DEF Receive, queueVars, MailInv, TypeOK
<1> QED
  BY <1>1, <1>5 DEF MailInv, SendInv

(* A message is stored, or refused because its address does not exist *)
LEMMA RouteStep ==
  ASSUME MailInv, NEW m \in Messages, Route(m)
  PROVE  MailInv'
<1> DEFINE a == Dest(m)
<1> USE DestType
<1>0. /\ pc[m] = "new" /\ a \in Addresses /\ write_pos[a] \in Nat /\ pc \in [Messages -> {"new", "stored", "numbered", "sent", "refused"}]
      /\ write_pos \in [Addresses -> 0..Cardinality(Messages)] /\ Cardinality(Messages) \in Nat
      /\ slot \in [Messages -> Nat] /\ before \in [Messages -> SUBSET Messages]
  BY FS_CardinalityType, MailboxAssumption DEF Route, MailInv, TypeOK
<1>1. \A n \in Messages : n # m => pc'[n] = pc[n] /\ before'[n] = before[n]
  BY <1>0 DEF Route
<1>2. pc'[m] \in {"stored", "refused"} /\ before'[m] = {q \in Messages : pc[q] = "sent"}
  BY <1>0 DEF Route
<1>3. /\ UNCHANGED <<mailboxes, next, map, offset, handle, inbox>>
      /\ \A n \in Messages : n # m => slot'[n] = slot[n]
  BY <1>0 DEF Route, clientVars
<1>4. ASSUME a \in mailboxes  PROVE TypeOK' /\ SlotsCounted'
  <2>1. /\ write_pos' = [write_pos EXCEPT ![a] = @ + 1]
        /\ file' = [file EXCEPT ![Dir[a]][write_pos[a] + 1] = m]
        /\ slot' = [slot EXCEPT ![m] = write_pos[a] + 1]
        /\ pc' = [pc EXCEPT ![m] = "stored"]
    BY <1>4 DEF Route
  <2>2. write_pos[a] + 1 \in Slots /\ Cardinality(StoredAt(a) \cup {m}) = write_pos[a] + 1
    BY <1>0, SlotLeft
  <2>3. /\ write_pos' \in [Addresses -> 0..Cardinality(Messages)]
        /\ \A b \in Addresses : write_pos'[b] \in Nat /\ write_pos[b] <= write_pos'[b]
    BY <1>0, <2>1, <2>2 DEF Slots
  <2>4. file' \in [Dirs -> [Slots -> Messages \cup {None}]]
    BY <1>0, <2>1, <2>2 DEF MailInv, TypeOK, Dirs
  <2>5. slot' \in [Messages -> Nat] /\ slot'[m] \in 1..write_pos'[a]
    BY <1>0, <2>1
  <2>6. SlotsCounted'
    <3>1. ASSUME NEW b \in Addresses  PROVE Cardinality(StoredAt(b))' = write_pos'[b]
      <4>1. CASE b = a
        <5>1. StoredAt(b)' = StoredAt(a) \cup {m}
          BY <1>0, <1>1, <2>1, <4>1 DEF StoredAt, Placed, Dest
        <5> QED
          BY <1>0, <2>1, <2>2, <4>1, <5>1
      <4>2. CASE b # a
        <5>1. StoredAt(b)' = StoredAt(b)
          BY <1>0, <1>1, <2>1, <4>2 DEF StoredAt, Placed, Dest
        <5> QED
          BY <1>0, <2>1, <4>2, <5>1 DEF MailInv, SlotsCounted
      <4> QED
        BY <4>1, <4>2
    <3>2. ASSUME NEW n \in Messages, pc'[n] \in Placed  PROVE slot'[n] \in 1..write_pos'[Dest(n)]
      <4>1. CASE n = m
        BY <2>5, <4>1
      <4>2. CASE n # m
        <5>1. slot[n] \in 1..write_pos[Dest(n)] /\ slot'[n] = slot[n]
          BY <1>1, <1>3, <3>2, <4>2 DEF MailInv, SlotsCounted
        <5> QED
          BY <1>0, <2>3, <5>1
      <4> QED
        BY <4>1, <4>2
    <3> QED
      BY <3>1, <3>2 DEF SlotsCounted, Dest
  <2>7. \A b \in Addresses : \A g \in DOMAIN map'[b] : g < next'[b] /\ map'[b][g] \in 1..write_pos'[b]
    BY <1>0, <1>3, <2>3 DEF MailInv, TypeOK
  <2>8. TypeOK'
    BY <1>0, <1>2, <1>3, <2>1, <2>3, <2>4, <2>5, <2>7 DEF MailInv, TypeOK, Route
  <2> QED
    BY <2>6, <2>8
<1>5. ASSUME a \notin mailboxes  PROVE TypeOK' /\ SlotsCounted'
  <2>1. UNCHANGED <<write_pos, file, slot>> /\ pc' = [pc EXCEPT ![m] = "refused"]
    BY <1>5 DEF Route
  <2>2. \A b \in Addresses : StoredAt(b)' = StoredAt(b)
    BY <1>0, <1>1, <2>1 DEF StoredAt, Placed, Dest
  <2>3. SlotsCounted'
    BY <1>0, <1>1, <2>1, <2>2 DEF MailInv, SlotsCounted, Placed, Dest
  <2>4. TypeOK'
    BY <1>0, <1>2, <1>3, <2>1 DEF MailInv, TypeOK, Route
  <2> QED
    BY <2>3, <2>4
<1>6. OffsetsUnique'
  BY <1>0, <1>1, <1>2, <1>3 DEF MailInv, OffsetsUnique, Numbered, Dest
<1>7. MapOfSent'
  <2> SUFFICES ASSUME NEW b \in Addresses, NEW g \in DOMAIN map[b]
               PROVE  \E n \in Messages : /\ pc'[n] = "sent" /\ Dest(n) = b /\ offset[n] = g
                                          /\ slot'[n] = map[b][g]
    BY <1>3 DEF MailInv, MapOfSent, Dest
  <2>1. PICK n \in Messages : pc[n] = "sent" /\ Dest(n) = b /\ offset[n] = g /\ slot[n] = map[b][g]
    BY DEF MailInv, MapOfSent
  <2> QED
    BY <1>0, <1>1, <1>3, <2>1
<1>8. BeforeSmaller'
  BY <1>0, <1>1, <1>2, <1>3 DEF MailInv, BeforeSmaller, Numbered, Dest
<1> QED
  BY <1>4, <1>5, <1>6, <1>7, <1>8 DEF MailInv


(* A stored message gets the next number of its queue. *)
LEMMA AssignStep ==
  ASSUME MailInv, NEW m \in Messages, AssignOffset(m)
  PROVE  MailInv'
<1> DEFINE a == Dest(m)
<1> USE DestType
<1>0. /\ pc[m] = "stored" /\ a \in Addresses /\ next \in [Addresses -> Nat] /\ offset \in [Messages -> Nat]
      /\ pc \in [Messages -> {"new", "stored", "numbered", "sent", "refused"}]
      /\ before \in [Messages -> SUBSET Messages]
  BY DEF AssignOffset, MailInv, TypeOK
<1>1. /\ \A n \in Messages : n # m => pc'[n] = pc[n] /\ offset'[n] = offset[n]
      /\ pc'[m] = "numbered" /\ offset'[m] = next[a]
      /\ next'[a] = next[a] + 1 /\ \A b \in Addresses : b # a => next'[b] = next[b]
      /\ UNCHANGED <<mailboxes, write_pos, file, map, slot, before, handle, inbox>>
  BY <1>0 DEF AssignOffset, clientVars
<1>2. \A b \in Addresses : next[b] \in Nat /\ next'[b] \in Nat /\ next[b] <= next'[b]
  BY <1>0, <1>1
<1>3. TypeOK'
  <2>1. \A b \in Addresses : \A g \in DOMAIN map[b] : g \in Nat /\ g < next[b]
    BY <1>0 DEF MailInv, TypeOK, MapOfSent
  <2>2. \A b \in Addresses : \A g \in DOMAIN map[b] : g < next'[b]
    BY <1>2, <2>1
  <2> QED
    BY <1>0, <1>1, <2>2 DEF MailInv, TypeOK, AssignOffset
<1>4. SlotsCounted'
  <2>1. \A b \in Addresses : StoredAt(b)' = StoredAt(b)
    BY <1>0, <1>1 DEF StoredAt, Placed, Dest
  <2> QED
    BY <1>0, <1>1, <2>1 DEF MailInv, SlotsCounted, Placed, Dest
<1>5. OffsetsUnique'
  <2>1. ASSUME NEW n \in Messages, pc'[n] \in Numbered  PROVE offset'[n] < next'[Dest(n)]
    <3>1. CASE n = m
      BY <1>0, <1>1, <3>1
    <3>2. CASE n # m
      <4>1. offset[n] \in Nat /\ offset[n] < next[Dest(n)]
        BY <1>0, <1>1, <2>1, <3>2 DEF MailInv, OffsetsUnique
      <4> QED
        BY <1>1, <1>2, <3>2, <4>1
    <3> QED
      BY <3>1, <3>2
  <2>2. ASSUME NEW n \in Messages, NEW q \in Messages, pc'[n] \in Numbered, pc'[q] \in Numbered,
               Dest(n) = Dest(q), offset'[n] = offset'[q]
        PROVE  n = q
    <3>1. \A k \in Messages : k # m /\ pc'[k] \in Numbered /\ Dest(k) = a => offset'[k] # offset'[m]
      <4> SUFFICES ASSUME NEW k \in Messages, k # m, pc'[k] \in Numbered, Dest(k) = a
                   PROVE  offset'[k] # offset'[m]
        OBVIOUS
      <4>1. offset[k] < next[a] /\ offset[k] \in Nat /\ next[a] \in Nat
        BY <1>0, <1>1 DEF MailInv, OffsetsUnique
      <4> QED
        BY <1>1, <4>1
    <3> QED
      BY <1>1, <2>2, <3>1 DEF MailInv, OffsetsUnique
  <2> QED
    BY <2>1, <2>2 DEF OffsetsUnique, Dest
<1>6. MapOfSent'
  <2> SUFFICES ASSUME NEW b \in Addresses, NEW g \in DOMAIN map[b]
               PROVE  \E n \in Messages : /\ pc'[n] = "sent" /\ Dest(n) = b /\ offset'[n] = g
                                          /\ slot[n] = map[b][g]
    BY <1>1 DEF MailInv, MapOfSent, Dest
  <2>1. PICK n \in Messages : pc[n] = "sent" /\ Dest(n) = b /\ offset[n] = g /\ slot[n] = map[b][g]
    BY DEF MailInv, MapOfSent
  <2> QED
    BY <1>0, <1>1, <2>1
<1>7. BeforeSmaller'
  <2> SUFFICES ASSUME NEW n \in Messages, NEW q \in before[n]
               PROVE  /\ pc'[q] = "sent"
                      /\ pc'[n] \in Numbered /\ Dest(q) = Dest(n) => offset'[q] < offset'[n]
    BY <1>1 DEF BeforeSmaller, Dest
  <2>1. q \in Messages /\ pc[q] = "sent" /\ q # m /\ pc'[q] = "sent" /\ offset'[q] = offset[q]
    BY <1>0, <1>1 DEF MailInv, BeforeSmaller
  <2>2. CASE n = m
    <3>1. offset[q] < next[Dest(q)]
      BY <2>1 DEF MailInv, OffsetsUnique, Numbered
    <3> QED
      BY <1>1, <2>1, <2>2, <3>1
  <2>3. CASE n # m
    BY <1>1, <2>1, <2>3 DEF MailInv, BeforeSmaller
  <2> QED
    BY <2>1, <2>2, <2>3
<1> QED
  BY <1>3, <1>4, <1>5, <1>6, <1>7 DEF MailInv

(* The number is mapped to the slot. *)
LEMMA InsertStep ==
  ASSUME MailInv, NEW m \in Messages, InsertMapping(m)
  PROVE  MailInv'
<1> DEFINE a == Dest(m)
<1> USE DestType
<1>0. /\ pc[m] = "numbered" /\ a \in Addresses /\ offset \in [Messages -> Nat]
      /\ pc \in [Messages -> {"new", "stored", "numbered", "sent", "refused"}]
      /\ DOMAIN map = Addresses /\ before \in [Messages -> SUBSET Messages]
  BY DEF InsertMapping, MailInv, TypeOK, MapOfSent
<1>1. /\ \A n \in Messages : n # m => pc'[n] = pc[n]
      /\ pc'[m] = "sent"
      /\ UNCHANGED <<mailboxes, write_pos, file, next, slot, offset, before, handle, inbox>>
  BY <1>0 DEF InsertMapping, clientVars
<1>2. /\ DOMAIN map' = Addresses
      /\ \A b \in Addresses : b # a => map'[b] = map[b]
      /\ map'[a] = [g \in DOMAIN map[a] \cup {offset[m]} |-> IF g = offset[m] THEN slot[m] ELSE map[a][g]]
  BY <1>0 DEF InsertMapping, MailInv, MapOfSent
<1>3. SlotsCounted'
  <2>1. \A b \in Addresses : StoredAt(b)' = StoredAt(b)
    BY <1>0, <1>1 DEF StoredAt, Placed, Dest
  <2> QED
    BY <1>0, <1>1, <2>1 DEF MailInv, SlotsCounted, Placed, Dest
<1>4. OffsetsUnique'
  BY <1>0, <1>1 DEF MailInv, OffsetsUnique, Numbered, Dest
<1>5. BeforeSmaller'
  BY <1>0, <1>1 DEF MailInv, BeforeSmaller, Numbered, Dest
<1>6. MapOfSent'
  <2> SUFFICES ASSUME NEW b \in Addresses, NEW g \in DOMAIN map'[b]
               PROVE  \E n \in Messages : /\ pc'[n] = "sent" /\ Dest(n) = b /\ offset[n] = g
                                          /\ slot[n] = map'[b][g]
    BY <1>1, <1>2 DEF MapOfSent, Dest
  <2>1. CASE b = a /\ g = offset[m]
    BY <1>1, <1>2, <2>1
  <2>2. CASE ~ (b = a /\ g = offset[m])
    <3>1. g \in DOMAIN map[b] /\ map'[b][g] = map[b][g]
      BY <1>2, <2>2
    <3>2. PICK n \in Messages : pc[n] = "sent" /\ Dest(n) = b /\ offset[n] = g /\ slot[n] = map[b][g]
      BY <3>1 DEF MailInv, MapOfSent
    <3> QED
      BY <1>0, <1>1, <3>1, <3>2
  <2> QED
    BY <2>1, <2>2
<1>7. TypeOK'
  <2>1. \A b \in Addresses : \A g \in DOMAIN map'[b] : g < next[b] /\ map'[b][g] \in 1..write_pos[b]
    <3> SUFFICES ASSUME NEW b \in Addresses, NEW g \in DOMAIN map'[b]
                 PROVE  g < next[b] /\ map'[b][g] \in 1..write_pos[b]
      OBVIOUS
    <3>1. PICK n \in Messages : pc'[n] = "sent" /\ Dest(n) = b /\ offset[n] = g /\ slot[n] = map'[b][g]
      BY <1>1, <1>6 DEF MapOfSent, Dest
    <3> QED
      BY <1>1, <1>3, <1>4, <3>1 DEF SlotsCounted, OffsetsUnique, Placed, Numbered, Dest
  <2> QED
    BY <1>0, <1>1, <2>1 DEF MailInv, TypeOK, InsertMapping
<1> QED
  BY <1>3, <1>4, <1>5, <1>6, <1>7 DEF MailInv

LEMMA MailStep == MailInv /\ [Next]_vars => MailInv'
<1> SUFFICES ASSUME MailInv, [Next]_vars  PROVE MailInv'
  OBVIOUS
<1>1. CASE UNCHANGED vars
  <2>1. TypeOK'
    BY <1>1 DEF vars, MailInv, TypeOK
  <2>2. SendInv'
    BY <1>1, SendFrame DEF vars, queueVars, MailInv, SendInv
  <2> QED
    BY <2>1, <2>2 DEF MailInv, SendInv
<1> QED
  BY <1>1, OpenStep, ReceiveStep, RouteStep, AssignStep, InsertStep DEF Next, SendStep

-----------------------------------------------------------------------------
(* No message is overwritten: its slot is behind the write position of the *)
(* only queue that writes to its file.                                     *)
LEMMA FileStep == OwnDirs /\ MailInv /\ InFile /\ [Next]_vars => InFile'
<1> SUFFICES ASSUME OwnDirs, MailInv, InFile, [Next]_vars  PROVE InFile'
  OBVIOUS
<1> USE DestType
<1>1. ASSUME NEW m \in Messages, Route(m)  PROVE InFile'
  <2>0. /\ pc[m] = "new" /\ pc \in [Messages -> {"new", "stored", "numbered", "sent", "refused"}]
        /\ slot \in [Messages -> Nat] /\ file \in [Dirs -> [Slots -> Messages \cup {None}]]
        /\ write_pos[Dest(m)] \in Nat /\ \A b \in Addresses : Dir[b] \in Dirs
    <3>1. write_pos[Dest(m)] \in Nat
      BY FS_CardinalityType, MailboxAssumption DEF MailInv, TypeOK
    <3>2. \A b \in Addresses : Dir[b] \in Dirs
      BY DEF Dirs
    <3> QED
      BY <1>1, <3>1, <3>2 DEF Route, MailInv, TypeOK
  <2>1. CASE Dest(m) \in mailboxes
    <3>1. write_pos[Dest(m)] + 1 \in Slots
      BY <2>0, SlotLeft
    <3>2. /\ file' = [file EXCEPT ![Dir[Dest(m)]][write_pos[Dest(m)] + 1] = m]
          /\ slot' = [slot EXCEPT ![m] = write_pos[Dest(m)] + 1]
          /\ pc' = [pc EXCEPT ![m] = "stored"]
      BY <1>1, <2>1 DEF Route
    <3>3. ASSUME NEW n \in Messages, pc'[n] \in Placed
          PROVE  file'[Dir[Dest(n)]][slot'[n]] = n
      <4>1. CASE n = m
        BY <2>0, <3>1, <3>2, <4>1
      <4>2. CASE n # m
        <5>1. pc[n] \in Placed /\ slot'[n] = slot[n]
          BY <2>0, <3>2, <3>3, <4>2
        <5>2. file[Dir[Dest(n)]][slot[n]] = n /\ slot[n] \in 1..write_pos[Dest(n)]
          BY <5>1 DEF InFile, MailInv, SlotsCounted
        <5>3. Dir[Dest(n)] # Dir[Dest(m)] \/ slot[n] # write_pos[Dest(m)] + 1
          BY <2>0, <5>2 DEF OwnDirs
        <5> QED
          BY <2>0, <3>2, <5>1, <5>2, <5>3
      <4> QED
        BY <4>1, <4>2
    <3> QED
      BY <3>3 DEF InFile, Dest
  <2>2. CASE Dest(m) \notin mailboxes
    BY <1>1, <2>0, <2>2 DEF Route, InFile, Placed, Dest
  <2> QED
    BY <2>1, <2>2
<1>2. ASSUME NEW m \in Messages, AssignOffset(m) \/ InsertMapping(m)  PROVE InFile'
  BY <1>2 DEF AssignOffset, InsertMapping, InFile, Placed, Dest, MailInv, TypeOK
<1>3. ASSUME NEW h \in Handles, Receive(h)  PROVE InFile'
  BY <1>3 DEF Receive, queueVars, InFile, Dest
<1>4. ASSUME NEW h \in Handles, NEW a \in Addresses, CreateMailbox(h, a) \/ GetMailbox(h, a)
      PROVE  InFile'
  BY <1>4 DEF CreateMailbox, GetMailbox, NewHandle, queueVars, InFile, Dest
<1>5. CASE UNCHANGED vars
  BY <1>5 DEF vars, InFile, Dest
<1> QED
  BY <1>1, <1>2, <1>3, <1>4, <1>5 DEF Next, SendStep

(* What receive returns has the offset that was read. *)
LEMMA ReadResult ==
  ASSUME MailInv, InFile, NEW h \in Handles, Open(h), ReadNext(h) \in Messages
  PROVE  /\ pc[ReadNext(h)] = "sent" /\ Dest(ReadNext(h)) = handle[h].address
         /\ offset[ReadNext(h)] = handle[h].read_offset
<1> DEFINE a == handle[h].address  g == handle[h].read_offset
<1>1. a \in Addresses
  BY DEF Open, MailInv, TypeOK
<1>2. g \in DOMAIN map[a] /\ ReadNext(h) = file[Dir[a]][map[a][g]]
  BY MailboxAssumption DEF ReadNext
<1>3. PICK m \in Messages : pc[m] = "sent" /\ Dest(m) = a /\ offset[m] = g /\ slot[m] = map[a][g]
  BY <1>1, <1>2 DEF MailInv, MapOfSent
<1>4. file[Dir[a]][map[a][g]] = m
  BY <1>3 DEF InFile, Placed
<1> QED
  BY <1>2, <1>3, <1>4

LEMMA InboxStep == MailInv /\ InFile /\ InboxOrdered /\ [Next]_vars => InboxOrdered'
<1> SUFFICES ASSUME MailInv, InFile, InboxOrdered, [Next]_vars  PROVE InboxOrdered'
  OBVIOUS
<1>0. /\ pc \in [Messages -> {"new", "stored", "numbered", "sent", "refused"}]
      /\ offset \in [Messages -> Nat] /\ inbox \in [Handles -> Seq(Messages)]
      /\ handle \in [Handles -> [address : mailboxes, read_offset : Nat] \cup {None}]
      /\ mailboxes \subseteq Addresses
      /\ \A h \in Handles : \A i \in 1..Len(inbox[h]) : inbox[h][i] \in Messages
  BY DEF MailInv, TypeOK
<1>1. ASSUME NEW m \in Messages, Route(m) \/ AssignOffset(m) \/ InsertMapping(m)
      PROVE  InboxOrdered'
  <2>1. /\ handle' = handle /\ inbox' = inbox
        /\ \A n \in Messages : pc[n] = "sent" => pc'[n] = "sent" /\ offset'[n] = offset[n]
    BY <1>0, <1>1 DEF Route, AssignOffset, InsertMapping, clientVars
  <2>2. \A h \in Handles : \A i \in 1..Len(inbox[h]) : pc[inbox[h][i]] = "sent"
    BY <1>0 DEF InboxOrdered
  <2> QED
    BY <1>0, <2>1, <2>2 DEF InboxOrdered, Open, Dest
<1>2. ASSUME NEW h \in Handles, NEW a \in Addresses, CreateMailbox(h, a) \/ GetMailbox(h, a)
      PROVE  InboxOrdered'
  <2>1. /\ ~ Open(h) /\ handle' = [handle EXCEPT ![h] = [address |-> a, read_offset |-> 0]]
        /\ pc' = pc /\ offset' = offset /\ inbox' = inbox
    BY <1>2 DEF CreateMailbox, GetMailbox, NewHandle, queueVars
  <2>2. inbox[h] = <<>> /\ handle'[h] # None
    BY <1>0, <2>1, MailboxAssumption DEF InboxOrdered
  <2>3. \A k \in Handles : k # h => (Open(k)' <=> Open(k)) /\ handle'[k] = handle[k]
    BY <1>0, <2>1 DEF Open
  <2>4. Open(h)'
    BY <2>2 DEF Open
  <2>5. ASSUME NEW k \in Handles
        PROVE  /\ ~ Open(k)' => inbox[k] = <<>>
               /\ Open(k)' => \A i \in 1..Len(inbox[k]) :
                    /\ pc[inbox[k][i]] = "sent" /\ Dest(inbox[k][i]) = handle'[k].address
                    /\ offset[inbox[k][i]] < handle'[k].read_offset
               /\ \A i, j \in 1..Len(inbox[k]) : i < j => offset[inbox[k][i]] < offset[inbox[k][j]]
    <3>1. CASE k = h
      BY <2>2, <2>4, <3>1
    <3>2. CASE k # h
      BY <2>3, <3>2 DEF InboxOrdered
    <3> QED
      BY <3>1, <3>2
  <2> QED
    BY <2>1, <2>5 DEF InboxOrdered, Dest
<1>3. ASSUME NEW h \in Handles, Receive(h)  PROVE InboxOrdered'
  <2>1. /\ pc' = pc /\ offset' = offset
        /\ \A k \in Handles : k # h => handle'[k] = handle[k] /\ inbox'[k] = inbox[k]
        /\ Open(h)
    BY <1>0, <1>3 DEF Receive, queueVars
  <2>2. /\ handle[h] \in [address : mailboxes, read_offset : Nat]
        /\ handle'[h] \in [address : mailboxes, read_offset : Nat]
        /\ handle'[h].address = handle[h].address
        /\ handle'[h].read_offset >= handle[h].read_offset
        /\ ReadNext(h) \in Messages => handle'[h].read_offset = handle[h].read_offset + 1
    <3>1. handle[h] \in [address : mailboxes, read_offset : Nat]
      BY <1>0, <2>1 DEF Open
    <3>2. CASE ReadNext(h) = "not_found"
      BY <1>3, <3>1, <3>2, MailboxAssumption DEF Receive
    <3>3. CASE ReadNext(h) # "not_found"
      <4>1. handle'[h] = [handle[h] EXCEPT !.read_offset = @ + 1]
        BY <1>0, <1>3, <3>3 DEF Receive
      <4> QED
        BY <3>1, <4>1
    <3> QED
      BY <3>2, <3>3
  <2>3. Open(h)'
    BY <1>0, <2>2, MailboxAssumption DEF Open
  <2>4. CASE ReadNext(h) \notin Messages
    <3>1. inbox' = inbox
      BY <1>3, <2>4 DEF Receive
    <3> QED
      BY <1>0, <2>1, <2>2, <2>3, <3>1 DEF InboxOrdered, Open, Dest
  <2>5. CASE ReadNext(h) \in Messages
    <3> DEFINE m == ReadNext(h)  n == Len(inbox[h])
    <3>1. /\ inbox'[h] = Append(inbox[h], m) /\ n \in Nat
      BY <1>0, <1>3, <2>5 DEF Receive
    <3>2. /\ Len(inbox'[h]) = n + 1 /\ inbox'[h][n + 1] = m
          /\ \A i \in 1..n : inbox'[h][i] = inbox[h][i]
      BY <1>0, <2>5, <3>1, AppendProperties
    <3>3. pc[m] = "sent" /\ Dest(m) = handle[h].address /\ offset[m] = handle[h].read_offset
      BY <2>1, <2>5, ReadResult
    <3>a. n \in Nat
      BY <3>1
    <3> HIDE DEF m, n
    <3>b. \A i \in 1..(n + 1) : i = n + 1 \/ i \in 1..n
      BY <3>a
    <3>4. ASSUME NEW i \in 1..(n + 1)
          PROVE  /\ pc[inbox'[h][i]] = "sent" /\ Dest(inbox'[h][i]) = handle'[h].address
                 /\ offset[inbox'[h][i]] < handle'[h].read_offset
      <4>1. CASE i = n + 1
        BY <2>2, <2>5, <3>2, <3>3, <4>1 DEF m
      <4>2. CASE i \in 1..n
        <5>1. /\ pc[inbox[h][i]] = "sent" /\ Dest(inbox[h][i]) = handle[h].address
              /\ offset[inbox[h][i]] < handle[h].read_offset /\ offset[inbox[h][i]] \in Nat
          BY <1>0, <2>1, <4>2 DEF InboxOrdered, n
        <5> QED
          BY <2>2, <3>2, <4>2, <5>1
      <4> QED
        BY <3>b, <4>1, <4>2
    <3>5. ASSUME NEW i \in 1..(n + 1), NEW j \in 1..(n + 1), i < j
          PROVE  offset[inbox'[h][i]] < offset[inbox'[h][j]]
      <4>1. i \in 1..n /\ offset[inbox[h][i]] < handle[h].read_offset
        BY <2>1, <3>a, <3>5 DEF InboxOrdered, n
      <4>2. CASE j = n + 1
        BY <3>2, <3>3, <4>1, <4>2
      <4>3. CASE j \in 1..n
        BY <3>2, <3>5, <4>1, <4>3 DEF InboxOrdered, n
      <4> QED
        BY <3>b, <4>2, <4>3
    <3> QED
      BY <2>1, <2>3, <3>2, <3>4, <3>5 DEF InboxOrdered, Open, Dest
  <2> QED
    BY <2>4, <2>5
<1>4. CASE UNCHANGED vars
  BY <1>4 DEF vars, InboxOrdered, Open, Dest
<1> QED
  BY <1>1, <1>2, <1>3, <1>4 DEF Next, SendStep

LEMMA RangeOfAppended ==
  ASSUME NEW S, NEW s \in Seq(S), NEW e \in S
  PROVE  Range(Append(s, e)) = Range(s) \cup {e}
<1>1. /\ DOMAIN Append(s, e) = 1..(Len(s) + 1) /\ DOMAIN s = 1..Len(s) /\ Len(s) \in Nat
      /\ \A i \in 1..Len(s) : Append(s, e)[i] = s[i]
      /\ Append(s, e)[Len(s) + 1] = e
  BY AppendProperties
<1>2. 1..(Len(s) + 1) = 1..Len(s) \cup {Len(s) + 1}
  BY <1>1
<1> QED
  BY <1>1, <1>2 DEF Range

(* The message with the offset that a read finds *)
LEMMA ReadFinds ==
  ASSUME MailInv, InFile, NEW h \in Handles, Open(h), ReadNext(h) # "not_found",
         NEW m \in Messages, pc[m] \in Numbered, Dest(m) = handle[h].address,
         offset[m] = handle[h].read_offset
  PROVE  ReadNext(h) = m \/ slot[m] < write_pos[Dest(m)]
<1> DEFINE a == handle[h].address  g == handle[h].read_offset
<1>1. a \in Addresses
  BY DEF Open, MailInv, TypeOK
<1>2. g \in DOMAIN map[a]
  BY DEF ReadNext
<1>3. PICK n \in Messages : pc[n] = "sent" /\ Dest(n) = a /\ offset[n] = g /\ slot[n] = map[a][g]
  BY <1>1, <1>2 DEF MailInv, MapOfSent
<1>4. n = m
  BY <1>3 DEF MailInv, OffsetsUnique, Numbered
<1>5. file[Dir[a]][map[a][g]] = m
  BY <1>3, <1>4 DEF InFile, Placed
<1> QED
  BY <1>2, <1>3, <1>4, <1>5 DEF ReadNext

(* A handle reads numbers that were given, and every message that it has   *)
(* passed was received or had another one stored behind it.                *)
PassedKnown ==
  \A h \in Handles : Open(h) =>
    /\ handle[h].read_offset <= next[handle[h].address]
    /\ \A m \in Messages :
         /\ pc[m] \in Numbered /\ Dest(m) = handle[h].address /\ offset[m] < handle[h].read_offset
         => m \in Range(inbox[h]) \/ slot[m] < write_pos[Dest(m)]

LEMMA PassedStep == MailInv /\ InFile /\ PassedKnown /\ [Next]_vars => PassedKnown'
<1> SUFFICES ASSUME MailInv, InFile, PassedKnown, [Next]_vars  PROVE PassedKnown'
  OBVIOUS
<1> USE DestType
<1>0. /\ pc \in [Messages -> {"new", "stored", "numbered", "sent", "refused"}]
      /\ offset \in [Messages -> Nat] /\ slot \in [Messages -> Nat]
      /\ next \in [Addresses -> Nat] /\ inbox \in [Handles -> Seq(Messages)]
      /\ handle \in [Handles -> [address : mailboxes, read_offset : Nat] \cup {None}]
      /\ \A a \in Addresses : write_pos[a] \in Nat
      /\ write_pos \in [Addresses -> Nat]
      /\ \A h \in Handles : Open(h) => handle[h].address \in Addresses /\ handle[h].read_offset \in Nat
  <2>1. Cardinality(Messages) \in Nat
    BY FS_CardinalityType, MailboxAssumption
  <2> QED
    BY <2>1 DEF MailInv, TypeOK, Open
<1>1. ASSUME NEW m \in Messages, Route(m)  PROVE PassedKnown'
  <2>1. /\ UNCHANGED <<next, offset, handle, inbox>> /\ pc[m] = "new" /\ pc'[m] \in {"stored", "refused"}
        /\ \A n \in Messages : n # m => pc'[n] = pc[n] /\ slot'[n] = slot[n]
    BY <1>0, <1>1 DEF Route, clientVars
  <2>2. \A a \in Addresses : write_pos'[a] \in Nat /\ write_pos[a] <= write_pos'[a]
    <3>1. CASE write_pos' = write_pos
      BY <1>0, <3>1
    <3>2. CASE write_pos' = [write_pos EXCEPT ![Dest(m)] = @ + 1]
      <4>1. \A a \in Addresses : write_pos'[a] = IF a = Dest(m) THEN write_pos[a] + 1 ELSE write_pos[a]
        BY <1>0, <3>2
      <4>2. \A a \in Addresses : write_pos[a] \in Nat
        BY <1>0
      <4> QED
        BY <4>1, <4>2
    <3> QED
      BY <1>1, <3>1, <3>2 DEF Route
  <2>3. \A n \in Messages : pc'[n] \in Numbered =>
          /\ pc[n] \in Numbered
          /\ slot[n] < write_pos[Dest(n)] => slot'[n] < write_pos'[Dest(n)]
    BY <1>0, <2>1, <2>2 DEF Numbered
  <2> QED
    BY <2>1, <2>3 DEF PassedKnown, Open, Dest
<1>2. ASSUME NEW m \in Messages, AssignOffset(m)  PROVE PassedKnown'
  <2>1. /\ UNCHANGED <<write_pos, slot, handle, inbox>> /\ offset'[m] = next[Dest(m)]
        /\ \A n \in Messages : n # m => pc'[n] = pc[n] /\ offset'[n] = offset[n]
    BY <1>0, <1>2 DEF AssignOffset, clientVars
  <2>2. \A a \in Addresses : next'[a] \in Nat /\ next[a] <= next'[a]
    BY <1>0, <1>2 DEF AssignOffset
  <2> SUFFICES ASSUME NEW h \in Handles, Open(h)
               PROVE  /\ handle[h].read_offset <= next'[handle[h].address]
                      /\ \A n \in Messages :
                           /\ pc'[n] \in Numbered /\ Dest(n) = handle[h].address
                           /\ offset'[n] < handle[h].read_offset
                           => n \in Range(inbox[h]) \/ slot[n] < write_pos[Dest(n)]
    BY <2>1 DEF PassedKnown, Open, Dest
  <2>3. /\ handle[h].read_offset <= next[handle[h].address]
        /\ handle[h].address \in Addresses /\ handle[h].read_offset \in Nat
        /\ next[handle[h].address] \in Nat
    BY <1>0 DEF PassedKnown
  <2>4. handle[h].read_offset <= next'[handle[h].address]
    BY <2>2, <2>3
  <2>5. \A n \in Messages :
          Dest(n) = handle[h].address /\ offset'[n] < handle[h].read_offset => n # m
    BY <2>1, <2>3
  <2> QED
    BY <2>1, <2>4, <2>5 DEF PassedKnown
<1>3. ASSUME NEW m \in Messages, InsertMapping(m)  PROVE PassedKnown'
  <2>1. /\ UNCHANGED <<write_pos, slot, handle, inbox, next, offset>>
        /\ \A n \in Messages : pc'[n] \in Numbered => pc[n] \in Numbered
    BY <1>0, <1>3 DEF InsertMapping, clientVars, Numbered
  <2> QED
    BY <2>1 DEF PassedKnown, Open, Dest
<1>4. ASSUME NEW h \in Handles, NEW a \in Addresses, CreateMailbox(h, a) \/ GetMailbox(h, a)
      PROVE  PassedKnown'
  <2>1. /\ handle' = [handle EXCEPT ![h] = [address |-> a, read_offset |-> 0]]
        /\ UNCHANGED <<pc, inbox, write_pos, slot, next, offset>>
    BY <1>4 DEF CreateMailbox, GetMailbox, NewHandle, queueVars
  <2>2. /\ handle'[h] = [address |-> a, read_offset |-> 0]
        /\ \A k \in Handles : k # h => handle'[k] = handle[k]
    BY <1>0, <2>1
  <2>3. 0 <= next[a] /\ \A m \in Messages : ~ offset[m] < 0
    BY <1>0
  <2>4. ASSUME NEW k \in Handles, Open(k)'
        PROVE  /\ handle'[k].read_offset <= next[handle'[k].address]
               /\ \A m \in Messages :
                    /\ pc[m] \in Numbered /\ Dest(m) = handle'[k].address
                    /\ offset[m] < handle'[k].read_offset
                    => m \in Range(inbox[k]) \/ slot[m] < write_pos[Dest(m)]
    <3>1. CASE k = h
      BY <2>2, <2>3, <3>1
    <3>2. CASE k # h
      BY <2>2, <2>4, <3>2 DEF PassedKnown, Open
    <3> QED
      BY <3>1, <3>2
  <2> QED
    BY <2>1, <2>4 DEF PassedKnown, Dest
<1>5. ASSUME NEW h \in Handles, Receive(h)  PROVE PassedKnown'
  <2>1. /\ UNCHANGED <<pc, write_pos, slot, next, offset>> /\ Open(h)
        /\ \A k \in Handles : k # h => handle'[k] = handle[k] /\ inbox'[k] = inbox[k]
    BY <1>0, <1>5 DEF Receive, queueVars
  <2>2. /\ handle[h].read_offset <= next[handle[h].address]
        /\ handle[h].address \in Addresses /\ handle[h].read_offset \in Nat
        /\ next[handle[h].address] \in Nat
    BY <1>0, <2>1 DEF PassedKnown
  <2>3. Range(inbox[h]) \subseteq Range(inbox'[h])
    <3>1. CASE ReadNext(h) \in Messages
      <4>1. inbox[h] \in Seq(Messages) /\ inbox'[h] = Append(inbox[h], ReadNext(h))
        BY <1>0, <1>5, <3>1 DEF Receive
      <4> QED
        BY <3>1, <4>1, RangeOfAppended
    <3>2. CASE ReadNext(h) \notin Messages
      BY <1>5, <3>2 DEF Receive
    <3> QED
      BY <3>1, <3>2
  <2>4. /\ handle'[h].read_offset <= next[handle[h].address] /\ handle'[h].address = handle[h].address
        /\ \A m \in Messages :
             /\ pc[m] \in Numbered /\ Dest(m) = handle[h].address
             /\ offset[m] < handle'[h].read_offset
             => m \in Range(inbox'[h]) \/ slot[m] < write_pos[Dest(m)]
    <3>1. CASE ReadNext(h) = "not_found"
      <4>1. handle' = handle
        BY <1>5, <3>1 DEF Receive
      <4> QED
        BY <2>1, <2>2, <2>3, <4>1 DEF PassedKnown
    <3>2. CASE ReadNext(h) # "not_found"
      <4>1. handle[h] \in [address : mailboxes, read_offset : Nat]
        BY <1>0, <2>1 DEF Open
      <4>2. handle'[h] = [handle[h] EXCEPT !.read_offset = @ + 1]
        BY <1>0, <1>5, <3>2 DEF Receive
      <4>3. handle'[h].read_offset = handle[h].read_offset + 1 /\ handle'[h].address = handle[h].address
        BY <4>1, <4>2
      <4>4. handle[h].read_offset < next[handle[h].address]
        BY <2>2, <3>2 DEF ReadNext, MailInv, TypeOK
      <4>5. ASSUME NEW m \in Messages, pc[m] \in Numbered, Dest(m) = handle[h].address,
                   offset[m] < handle'[h].read_offset
            PROVE  m \in Range(inbox'[h]) \/ slot[m] < write_pos[Dest(m)]
        <5>1. CASE offset[m] < handle[h].read_offset
          BY <2>1, <2>3, <4>5, <5>1 DEF PassedKnown
        <5>2. CASE offset[m] = handle[h].read_offset
          <6>1. ReadNext(h) = m \/ slot[m] < write_pos[Dest(m)]
            BY <2>1, <3>2, <4>5, <5>2, ReadFinds
          <6>2. CASE ReadNext(h) = m
            <7>1. inbox[h] \in Seq(Messages) /\ inbox'[h] = Append(inbox[h], m)
              BY <1>0, <1>5, <6>2 DEF Receive
            <7> QED
              BY <7>1, RangeOfAppended
          <6> QED
            BY <6>1, <6>2
        <5> QED
          BY <1>0, <2>2, <4>3, <4>5, <5>1, <5>2
      <4> QED
        BY <2>2, <4>3, <4>4, <4>5
    <3> QED
      BY <3>1, <3>2
  <2>5. ASSUME NEW k \in Handles, Open(k)'
        PROVE  /\ handle'[k].read_offset <= next[handle'[k].address]
               /\ \A m \in Messages :
                    /\ pc[m] \in Numbered /\ Dest(m) = handle'[k].address
                    /\ offset[m] < handle'[k].read_offset
                    => m \in Range(inbox'[k]) \/ slot[m] < write_pos[Dest(m)]
    <3>1. CASE k = h
      BY <2>4, <3>1
    <3>2. CASE k # h
      BY <2>1, <2>5, <3>2 DEF PassedKnown, Open
    <3> QED
      BY <3>1, <3>2
  <2> QED
    BY <2>1, <2>5 DEF PassedKnown, Dest
<1>6. CASE UNCHANGED vars
  BY <1>6 DEF vars, PassedKnown, Open, Dest
<1> QED
  BY <1>1, <1>2, <1>3, <1>4, <1>5, <1>6 DEF Next, SendStep

(* The order of the offsets is the order of sequential sends. *)
LEMMA InboxFifo ==
  MailInv /\ InboxOrdered => OwnMessagesOnce /\ FifoForSequentialSends
<1> SUFFICES ASSUME MailInv, InboxOrdered  PROVE OwnMessagesOnce /\ FifoForSequentialSends
  OBVIOUS
<1>0. ASSUME NEW h \in Handles
      PROVE  /\ DOMAIN inbox[h] = 1..Len(inbox[h]) /\ Len(inbox[h]) \in Nat
             /\ \A i \in 1..Len(inbox[h]) : inbox[h][i] \in Messages /\ offset[inbox[h][i]] \in Nat
             /\ \A i, j \in 1..Len(inbox[h]) : i < j => offset[inbox[h][i]] < offset[inbox[h][j]]
  BY DEF MailInv, TypeOK, InboxOrdered
<1>1. OwnMessagesOnce
  <2> SUFFICES ASSUME NEW h \in Handles, Open(h)
               PROVE  /\ \A m \in Range(inbox[h]) : pc[m] = "sent" /\ Dest(m) = handle[h].address
                      /\ IsInjective(inbox[h])
    BY DEF OwnMessagesOnce
  <2>1. \A m \in Range(inbox[h]) : pc[m] = "sent" /\ Dest(m) = handle[h].address
    BY <1>0 DEF InboxOrdered, Range
  <2>2. ASSUME NEW i \in 1..Len(inbox[h]), NEW j \in 1..Len(inbox[h]), inbox[h][i] = inbox[h][j]
        PROVE  i = j
    <3>1. ~ i < j /\ ~ j < i
      BY <1>0, <2>2
    <3> QED
      BY <1>0, <3>1
  <2> QED
    BY <1>0, <2>1, <2>2 DEF IsInjective
<1>2. FifoForSequentialSends
  <2> SUFFICES ASSUME NEW h \in Handles, NEW i \in 1..Len(inbox[h]), NEW j \in 1..Len(inbox[h]),
                      inbox[h][i] \in before[inbox[h][j]]
               PROVE  i < j
    BY <1>0 DEF FifoForSequentialSends
  <2>0. inbox[h] # <<>>
    BY <1>0
  <2>1. /\ pc[inbox[h][i]] = "sent" /\ pc[inbox[h][j]] = "sent"
        /\ Dest(inbox[h][i]) = Dest(inbox[h][j])
    BY <2>0 DEF InboxOrdered
  <2>2. offset[inbox[h][i]] < offset[inbox[h][j]]
    BY <1>0, <2>1 DEF MailInv, BeforeSmaller, Numbered
  <2>3. ~ j < i /\ i # j
    BY <1>0, <2>2
  <2> QED
    BY <1>0, <2>3
<1> QED
  BY <1>1, <1>2

-----------------------------------------------------------------------------
(* The server's requests: one that is ready has an open handle, one that   *)
(* has opened a handle has it for its own address, and only a response     *)
(* that is under way carries an answer.                                    *)
RequestsInOrder ==
  \A r \in Requests :
    /\ at[r] = "ready" => using[r] \in Requests /\ Open(using[r])
    /\ at[r] = "opened" => Open(r) /\ handle[r].address = Addr(r)
    /\ at[r] # "response" => answer[r] = None

SrvInv == ServerTypeOK /\ MailInv /\ RequestsInOrder

(* Every step of the server is a step of the mailbox system, or none. *)
LEMMA ServerStepsAreMailSteps ==
  ASSUME SrvInv, [ServerNext]_allVars
  PROVE  [Next]_vars
<1> USE ServerAssumption
<1>1. ASSUME NEW r \in Requests, Fetch(r)  PROVE Next
  <2>1. r \in Handles /\ Addr(r) \in Addresses
    BY MailboxAssumption DEF Addr, Requests
  <2> QED
    BY <1>1, <2>1 DEF Fetch, Next
<1>2. ASSUME NEW r \in Requests, ServeSend(r)  PROVE Next
  BY <1>2 DEF ServeSend, Next, SendStep
<1>3. ASSUME NEW r \in Requests, ServeReceive(r)  PROVE Next
  BY <1>3 DEF ServeReceive, Next, SrvInv, RequestsInOrder
<1>4. ASSUME NEW r \in Requests,
             Refuse(r) \/ Lookup(r) \/ Cache(r) \/ SendReturns(r) \/ ServePeek(r) \/ ClientReturns(r)
               \/ Lose(r) \/ FetchFails(r)
      PROVE  UNCHANGED vars
  BY <1>4 DEF Refuse, Lookup, Cache, SendReturns, ServePeek, ClientReturns, Lose, FetchFails
<1>5. ASSUME NEW m \in Messages, Finish(m)  PROVE Next
  BY <1>5 DEF Finish, Next, SendStep
<1>6. ASSUME Local  PROVE Next
  BY <1>6 DEF Local, Next, SendStep, Locals
<1>7. CASE UNCHANGED allVars
  BY <1>7 DEF allVars
<1> QED
  BY <1>1, <1>2, <1>3, <1>4, <1>5, <1>6, <1>7 DEF ServerNext, Handle

(* A handle that is open stays open, for the same address. *)
LEMMA OpenStays ==
  ASSUME MailInv, [Next]_vars, NEW h \in Handles, Open(h)
  PROVE  handle'[h] # None /\ handle'[h].address = handle[h].address
<1>0. handle \in [Handles -> [address : mailboxes, read_offset : Nat] \cup {None}] /\ mailboxes \subseteq Addresses
  BY DEF MailInv, TypeOK
<1>1. ASSUME NEW k \in Handles, NEW a \in Addresses, CreateMailbox(k, a) \/ GetMailbox(k, a)
      PROVE  handle'[h] = handle[h]
  BY <1>0, <1>1 DEF CreateMailbox, GetMailbox, NewHandle
<1>2. ASSUME NEW k \in Handles, Receive(k)
      PROVE  handle'[h] = handle[h] \/ handle'[h] = [handle[h] EXCEPT !.read_offset = @ + 1]
  BY <1>0, <1>2 DEF Receive
<1>3. ASSUME NEW m \in Messages, SendStep(m)  PROVE handle'[h] = handle[h]
  BY <1>3 DEF SendStep, Route, AssignOffset, InsertMapping, clientVars
<1>4. handle'[h] = handle[h] \/ handle'[h] = [handle[h] EXCEPT !.read_offset = @ + 1]
  BY <1>1, <1>2, <1>3 DEF Next, vars
<1>5. handle[h] \in [address : mailboxes, read_offset : Nat]
  BY <1>0 DEF Open
<1>6. handle'[h] \in [address : Addresses, read_offset : Nat] /\ handle'[h].address = handle[h].address
  BY <1>0, <1>4, <1>5
<1> QED
  BY <1>6, MailboxAssumption DEF Open

LEMMA InitServer == ServerInit => SrvInv
<1> SUFFICES ASSUME ServerInit  PROVE SrvInv
  OBVIOUS
<1> USE ServerAssumption DEF ServerInit
<1>1. MailInv
  BY InitMail
<1>2. ServerTypeOK
  BY <1>1 DEF ServerTypeOK, MailInv
<1>3. RequestsInOrder
  BY DEF RequestsInOrder
<1> QED
  BY <1>1, <1>2, <1>3 DEF SrvInv

LEMMA AddrType == \A r \in Requests : Addr(r) \in Addresses
BY ServerAssumption, MailboxAssumption DEF Addr, Requests

LEMMA ReadAnswerType == \A h \in Handles : ReadAnswer(h) \in Messages \cup {"Error"}
BY DEF ReadAnswer

LEMMA ServerTypeStep == SrvInv /\ [ServerNext]_allVars => ServerTypeOK'
<1> SUFFICES ASSUME SrvInv, [ServerNext]_allVars  PROVE ServerTypeOK'
  OBVIOUS
<1> USE ServerAssumption DEF clientSide, serverVars, InServer
<1>0. /\ [Next]_vars /\ MailInv /\ MailInv' /\ TypeOK'
      /\ Requests \subseteq Handles /\ None \notin Requests
  BY ServerStepsAreMailSteps, MailStep DEF SrvInv, MailInv
<1>1. ASSUME cache' \in [Addresses -> Requests \cup {None}],
             \A a \in Addresses : cache'[a] # None =>
               \/ cache'[a] = cache[a]
               \/ Open(cache'[a]) /\ handle[cache'[a]].address = a
      PROVE  \A a \in Addresses : cache'[a] # None =>
               handle'[cache'[a]] # None /\ handle'[cache'[a]].address = a
  <2> SUFFICES ASSUME NEW a \in Addresses, cache'[a] # None
               PROVE  handle'[cache'[a]] # None /\ handle'[cache'[a]].address = a
    OBVIOUS
  <2>1. PICK h \in Requests : h = cache'[a]
    BY <1>1
  <2>2. Open(h) /\ handle[h].address = a /\ h \in Handles
    BY <1>0, <1>1, <2>1 DEF SrvInv, ServerTypeOK
  <2>3. handle'[h] # None /\ handle'[h].address = handle[h].address
    BY <1>0, <2>2, OpenStays
  <2> QED
    BY <2>1, <2>2, <2>3
<1>a. /\ protocol \in Protocols /\ cache \in [Addresses -> Requests \cup {None}]
      /\ at \in [Requests -> {"miss", "opened", "ready", "sending", "idle", "response", "stuck", "done"}]
      /\ using \in [Requests -> Requests \cup {None}]
      /\ answer \in [Requests -> Messages \cup {None, "Success", "Error"}]
      /\ got \in [Messages -> Nat] /\ lost \in [Messages -> Nat] /\ faults \in 0..MaxFaults
  BY DEF SrvInv, ServerTypeOK
<1>2. ASSUME protocol' = protocol, cache' \in [Addresses -> Requests \cup {None}],
             \A a \in Addresses : cache'[a] # None =>
               \/ cache'[a] = cache[a]
               \/ Open(cache'[a]) /\ handle[cache'[a]].address = a,
             at' \in [Requests -> {"miss", "opened", "ready", "sending", "idle", "response", "stuck", "done"}],
             using' \in [Requests -> Requests \cup {None}],
             answer' \in [Requests -> Messages \cup {None, "Success", "Error"}],
             got' \in [Messages -> Nat], lost' \in [Messages -> Nat], faults' \in 0..MaxFaults
      PROVE  ServerTypeOK'
  BY <1>0, <1>1, <1>2, <1>a DEF ServerTypeOK, Open
<1>3. ASSUME NEW r \in Requests, Refuse(r)  PROVE ServerTypeOK'
  BY <1>a, <1>2, <1>3 DEF Refuse, Unanswered, After
<1>4. ASSUME NEW r \in Requests, Lookup(r)  PROVE ServerTypeOK'
  BY <1>a, <1>2, <1>4, AddrType DEF Lookup
<1>5. ASSUME NEW r \in Requests, Fetch(r)  PROVE ServerTypeOK'
  BY <1>a, <1>2, <1>5 DEF Fetch
<1>6. ASSUME NEW r \in Requests, FetchFails(r)  PROVE ServerTypeOK'
  BY <1>a, <1>2, <1>6 DEF FetchFails
<1>7. ASSUME NEW r \in Requests, Cache(r)  PROVE ServerTypeOK'
  <2>1. Open(r) /\ handle[r].address = Addr(r)
    BY <1>7 DEF Cache, SrvInv, RequestsInOrder
  <2>2. /\ cache' \in [Addresses -> Requests \cup {None}]
        /\ \A a \in Addresses : cache'[a] = IF a = Addr(r) THEN r ELSE cache[a]
    BY <1>a, <1>7, AddrType DEF Cache
  <2> QED
    BY <1>a, <1>2, <1>7, <2>1, <2>2 DEF Cache
<1>8. ASSUME NEW r \in Requests, ServeSend(r) \/ SendReturns(r)  PROVE ServerTypeOK'
  BY <1>a, <1>2, <1>8 DEF ServeSend, SendReturns
<1>9. ASSUME NEW r \in Requests, ServeReceive(r) \/ ServePeek(r)  PROVE ServerTypeOK'
  <2>1. using[r] \in Handles
    BY <1>0, <1>9 DEF ServeReceive, ServePeek, SrvInv, RequestsInOrder
  <2>2. ReadAnswer(using[r]) \in Messages \cup {"Error"}
    BY <2>1, ReadAnswerType
  <2> QED
    BY <1>a, <1>2, <1>9, <2>2 DEF ServeReceive, ServePeek
<1>b. /\ \A r \in Requests : Count(got, r) \in [Messages -> Nat]
      /\ \A r \in Requests : Count(lost, r) \in [Messages -> Nat]
  BY <1>a DEF Count
<1>10. ASSUME NEW r \in Requests, ClientReturns(r)  PROVE ServerTypeOK'
  BY <1>a, <1>b, <1>2, <1>10 DEF ClientReturns, After
<1>11. ASSUME NEW r \in Requests, Lose(r)  PROVE ServerTypeOK'
  BY <1>a, <1>b, <1>2, <1>11 DEF Lose, Unanswered, After
<1>12. CASE Local \/ UNCHANGED allVars \/ \E m \in Messages : Finish(m)
  BY <1>a, <1>2, <1>12 DEF Local, Finish, allVars
<1> QED
  BY <1>3, <1>4, <1>5, <1>6, <1>7, <1>8, <1>9, <1>10, <1>11, <1>12 DEF ServerNext, Handle

LEMMA RequestStep == SrvInv /\ [ServerNext]_allVars => RequestsInOrder'
<1> SUFFICES ASSUME SrvInv, [ServerNext]_allVars  PROVE RequestsInOrder'
  OBVIOUS
<1> USE ServerAssumption DEF clientSide, serverVars
<1>0. /\ [Next]_vars /\ MailInv /\ Requests \subseteq Handles /\ None \notin Requests
  BY ServerStepsAreMailSteps DEF SrvInv
<1>1. \A h \in Requests : Open(h) => handle'[h] # None /\ handle'[h].address = handle[h].address
  BY <1>0, OpenStays
<1>a. /\ cache \in [Addresses -> Requests \cup {None}]
      /\ \A a \in Addresses : cache[a] # None => Open(cache[a])
      /\ at \in [Requests -> {"miss", "opened", "ready", "sending", "idle", "response", "stuck", "done"}]
      /\ using \in [Requests -> Requests \cup {None}]
      /\ answer \in [Requests -> Messages \cup {None, "Success", "Error"}]
      /\ RequestsInOrder
  BY DEF SrvInv, ServerTypeOK, InServer
<1> DEFINE Ok(q) == /\ at'[q] = "ready" => using'[q] \in Requests /\ handle'[using'[q]] # None
                    /\ at'[q] = "opened" => handle'[q] # None /\ handle'[q].address = Addr(q)
                    /\ at'[q] # "response" => answer'[q] = None
<1>2. ASSUME NEW q \in Requests, at'[q] = at[q], using'[q] = using[q], answer'[q] = answer[q]
      PROVE  Ok(q)
  BY <1>1, <1>2, <1>a DEF RequestsInOrder
<1>3. ASSUME NEW r \in Requests, Ok(r),
             \A q \in Requests : q # r => at'[q] = at[q] /\ using'[q] = using[q] /\ answer'[q] = answer[q]
      PROVE  RequestsInOrder'
  BY <1>2, <1>3 DEF RequestsInOrder, Open, Addr
<1>4. ASSUME NEW r \in Requests, Refuse(r) \/ FetchFails(r) \/ SendReturns(r)  PROVE RequestsInOrder'
  <2>1. Ok(r)
    BY <1>a, <1>4 DEF Refuse, FetchFails, SendReturns, Unanswered, After, RequestsInOrder
  <2> QED
    BY <1>a, <1>3, <1>4, <2>1 DEF Refuse, FetchFails, SendReturns
<1>5. ASSUME NEW r \in Requests, Lookup(r)  PROVE RequestsInOrder'
  <2>1. Ok(r)
    BY <1>a, <1>1, <1>5, AddrType DEF Lookup, RequestsInOrder
  <2> QED
    BY <1>a, <1>3, <1>5, <2>1 DEF Lookup
<1>6. ASSUME NEW r \in Requests, Fetch(r)  PROVE RequestsInOrder'
  <2>1. handle'[r] = [address |-> Addr(r), read_offset |-> 0]
    BY <1>0, <1>6 DEF Fetch, GetMailbox, CreateMailbox, NewHandle, MailInv, TypeOK
  <2>2. handle'[r] # None
    BY <2>1, MailboxAssumption, AddrType
  <2>3. Ok(r)
    BY <1>a, <1>6, <2>1, <2>2 DEF Fetch, RequestsInOrder
  <2> QED
    BY <1>a, <1>3, <1>6, <2>3 DEF Fetch
<1>7. ASSUME NEW r \in Requests, Cache(r)  PROVE RequestsInOrder'
  <2>1. Ok(r)
    BY <1>a, <1>1, <1>7 DEF Cache, RequestsInOrder
  <2> QED
    BY <1>a, <1>3, <1>7, <2>1 DEF Cache
<1>8. ASSUME NEW r \in Requests, ServeSend(r) \/ ServeReceive(r) \/ ServePeek(r)  PROVE RequestsInOrder'
  <2>1. Ok(r)
    BY <1>a, <1>8 DEF ServeSend, ServeReceive, ServePeek, RequestsInOrder
  <2> QED
    BY <1>a, <1>3, <1>8, <2>1 DEF ServeSend, ServeReceive, ServePeek
<1>9. ASSUME NEW r \in Requests, ClientReturns(r) \/ Lose(r)  PROVE RequestsInOrder'
  <2>1. Ok(r)
    BY <1>a, <1>9 DEF ClientReturns, Lose, Unanswered, After
  <2> QED
    BY <1>a, <1>3, <1>9, <2>1 DEF ClientReturns, Lose
<1>10. CASE Local \/ UNCHANGED allVars \/ \E m \in Messages : Finish(m)
  BY <1>2, <1>10 DEF Local, Finish, allVars, RequestsInOrder, Open, Addr
<1> QED
  BY <1>4, <1>5, <1>6, <1>7, <1>8, <1>9, <1>10 DEF ServerNext, Handle

LEMMA ServerStep == SrvInv /\ [ServerNext]_allVars => SrvInv'
BY ServerStepsAreMailSteps, MailStep, ServerTypeStep, RequestStep DEF SrvInv


-----------------------------------------------------------------------------
(* The UDP loop handles one request at a time, which misses the cache only *)
(* when no handle was opened for its address; every handle that a request  *)
(* has opened is the cached one, or is about to be.                        *)
UdpInTurn ==
  protocol = "Udp" =>
    /\ \A q, r \in Requests : at[q] \in InServer /\ at[r] \in InServer => q = r
    /\ \A r \in Requests : at[r] \in {"miss", "opened"} => cache[Addr(r)] = None
    /\ \A r \in Requests : Open(r) => cache[handle[r].address] = r \/ at[r] = "opened"

LEMMA UdpStep == SrvInv /\ UdpInTurn /\ [ServerNext]_allVars => UdpInTurn'
<1> SUFFICES ASSUME SrvInv, UdpInTurn, [ServerNext]_allVars, protocol' = "Udp"
             PROVE  /\ \A q, r \in Requests : at'[q] \in InServer /\ at'[r] \in InServer => q = r
                    /\ \A r \in Requests : at'[r] \in {"miss", "opened"} => cache'[Addr(r)] = None
                    /\ \A r \in Requests : handle'[r] # None =>
                         cache'[handle'[r].address] = r \/ at'[r] = "opened"
  BY DEF UdpInTurn, Open, Addr
<1> USE ServerAssumption, AddrType DEF clientSide, serverVars
<1>0. /\ Requests \subseteq Handles /\ None \notin Requests /\ protocol = "Udp"
      /\ cache \in [Addresses -> Requests \cup {None}]
      /\ at \in [Requests -> {"miss", "opened", "ready", "sending", "idle", "response", "stuck", "done"}]
      /\ handle \in [Handles -> [address : mailboxes, read_offset : Nat] \cup {None}]
      /\ mailboxes \subseteq Addresses
  BY DEF SrvInv, ServerTypeOK, InServer, TypeOK, ServerNext, Handle, Refuse, Lookup, Fetch, Cache, ServeSend,
         SendReturns, ServeReceive, ServePeek, ClientReturns, Lose, FetchFails, Finish, Local, allVars
<1>1. /\ \A q, r \in Requests : at[q] \in InServer /\ at[r] \in InServer => q = r
      /\ \A r \in Requests : at[r] \in {"miss", "opened"} => cache[Addr(r)] = None
      /\ \A r \in Requests : handle[r] # None => cache[handle[r].address] = r \/ at[r] = "opened"
  BY <1>0 DEF UdpInTurn, Open
<1> DEFINE Turns == \A q, r \in Requests : at'[q] \in InServer /\ at'[r] \in InServer => q = r
           Misses == \A r \in Requests : at'[r] \in {"miss", "opened"} => cache'[Addr(r)] = None
           Cached == \A r \in Requests : handle'[r] # None =>
                       cache'[handle'[r].address] = r \/ at'[r] = "opened"
<1>2. ASSUME NEW r \in Requests, Refuse(r)  PROVE Turns /\ Misses /\ Cached
  BY <1>0, <1>1, <1>2 DEF Refuse, Unanswered, After, InServer, vars
<1>3. ASSUME NEW r \in Requests, Lookup(r)  PROVE Turns /\ Misses /\ Cached
  BY <1>0, <1>1, <1>3 DEF Lookup, Turn, InServer, vars
<1>4. ASSUME NEW r \in Requests, Fetch(r)  PROVE Turns /\ Misses /\ Cached
  <2>1. /\ at[r] = "miss" /\ at' = [at EXCEPT ![r] = "opened"] /\ cache' = cache
        /\ \A q \in Requests : q # r => handle'[q] = handle[q]
    BY <1>0, <1>4 DEF Fetch, GetMailbox, CreateMailbox, NewHandle
  <2> QED
    BY <1>0, <1>1, <2>1 DEF InServer
<1>5. ASSUME NEW r \in Requests, Cache(r)  PROVE Turns /\ Misses /\ Cached
  <2>1. handle[r].address = Addr(r) /\ at[r] = "opened" /\ handle' = handle
    BY <1>5 DEF Cache, SrvInv, RequestsInOrder, vars
  <2>2. /\ \A q \in Requests : at'[q] = IF q = r THEN "ready" ELSE at[q]
        /\ \A a \in Addresses : cache'[a] = IF a = Addr(r) THEN r ELSE cache[a]
    BY <1>0, <1>5 DEF Cache
  <2>3. Turns /\ Misses
    BY <1>0, <1>1, <2>1, <2>2 DEF InServer
  <2>4. Cached
    <3> SUFFICES ASSUME NEW q \in Requests, handle[q] # None
                 PROVE  cache'[handle[q].address] = q \/ at'[q] = "opened"
      BY <2>1
    <3>1. handle[q].address \in Addresses
      BY <1>0
    <3>2. CASE q = r
      BY <2>1, <2>2, <3>1, <3>2
    <3>3. CASE q # r
      <4>1. at[q] # "opened" /\ cache[handle[q].address] = q
        BY <1>1, <2>1, <3>3 DEF InServer
      <4>2. handle[q].address # Addr(r)
        BY <1>0, <1>1, <2>1, <4>1
      <4> QED
        BY <2>2, <3>1, <4>1, <4>2
    <3> QED
      BY <3>2, <3>3
  <2> QED
    BY <2>3, <2>4
<1>6. ASSUME NEW r \in Requests, FetchFails(r) \/ SendReturns(r) \/ ServePeek(r)
      PROVE  Turns /\ Misses /\ Cached
  BY <1>0, <1>1, <1>6 DEF FetchFails, SendReturns, ServePeek, InServer, vars
<1>7. ASSUME NEW r \in Requests, ServeSend(r)  PROVE Turns /\ Misses /\ Cached
  BY <1>0, <1>1, <1>7 DEF ServeSend, Route, clientVars, InServer
<1>8. ASSUME NEW r \in Requests, ServeReceive(r)  PROVE Turns /\ Misses /\ Cached
  <2>1. at[r] = "ready" /\ at' = [at EXCEPT ![r] = "response"] /\ cache' = cache
    BY <1>8 DEF ServeReceive
  <2>2. \A q \in Requests : handle'[q] # None => handle[q] # None /\ handle'[q].address = handle[q].address
    <3>a. PICK h \in Requests : h = using[r] /\ handle[h] # None /\ Receive(h)
      BY <1>8, <2>1 DEF ServeReceive, SrvInv, RequestsInOrder, Open
    <3>b. \/ handle' = handle
          \/ handle' = [handle EXCEPT ![h] = [handle[h] EXCEPT !.read_offset = @ + 1]]
      BY <3>a DEF Receive
    <3>1. ASSUME NEW q \in Requests
          PROVE  \/ handle'[q] = handle[q]
                 \/ handle[q] # None /\ handle'[q] = [handle[q] EXCEPT !.read_offset = @ + 1]
      <4>1. CASE q = h
        BY <1>0, <3>a, <3>b, <4>1
      <4>2. CASE q # h
        BY <1>0, <3>b, <4>2
      <4> QED
        BY <4>1, <4>2
    <3> QED
      BY <1>0, <3>1
  <2> QED
    BY <1>0, <1>1, <2>1, <2>2 DEF InServer
<1>9. ASSUME NEW r \in Requests, ClientReturns(r) \/ Lose(r)  PROVE Turns /\ Misses /\ Cached
  BY <1>0, <1>1, <1>9 DEF ClientReturns, Lose, Unanswered, After, InServer, vars
<1>10. CASE Local \/ UNCHANGED allVars \/ \E m \in Messages : Finish(m)
  <2>1. at' = at /\ cache' = cache /\ \A q \in Requests : handle'[q] = handle[q]
    BY <1>0, <1>10 DEF Local, Locals, Finish, allVars, vars, CreateMailbox, GetMailbox, NewHandle, Route, AssignOffset,
         InsertMapping, clientVars
  <2> QED
    BY <1>1, <2>1
<1> QED
  BY <1>2, <1>3, <1>4, <1>5, <1>6, <1>7, <1>8, <1>9, <1>10 DEF ServerNext, Handle

LEMMA UdpOneHandle == SrvInv /\ UdpInTurn => OneHandleOverUdp
BY ServerAssumption, AddrType
   DEF SrvInv, RequestsInOrder, UdpInTurn, OneHandleOverUdp, InServer, ServerTypeOK, Open

-----------------------------------------------------------------------------
(* The handles that received m, and the pollers with m on its way to them *)
Consumers(m) == {h \in Requests : m \in Range(inbox[h])}
Under(m) == {r \in Polls : answer[r] = m}

Balanced ==
  \A m \in Messages : Cardinality(Consumers(m)) = got[m] + lost[m] + Cardinality(Under(m))

LEMMA FiniteCounts ==
  ASSUME SrvInv, NEW m \in Messages
  PROVE  /\ IsFiniteSet(Consumers(m)) /\ Cardinality(Consumers(m)) \in Nat
         /\ IsFiniteSet(Under(m)) /\ Cardinality(Under(m)) \in Nat
         /\ got[m] \in Nat /\ lost[m] \in Nat
<1>1. Consumers(m) \subseteq Requests /\ Under(m) \subseteq Requests
  BY DEF Consumers, Under, Requests
<1>2. IsFiniteSet(Consumers(m)) /\ IsFiniteSet(Under(m))
  BY <1>1, FS_Subset, ServerAssumption
<1> QED
  BY <1>2, FS_CardinalityType DEF SrvInv, ServerTypeOK

(* A message is consumed only together with the answer that carries it,    *)
(* and the answer leaves when it is counted as given or lost.              *)
LEMMA BalanceStep ==
  SrvInv /\ InFile /\ InboxOrdered /\ Balanced /\ [ServerNext]_allVars => Balanced'
<1> SUFFICES ASSUME SrvInv, InFile, InboxOrdered, Balanced, [ServerNext]_allVars, NEW m \in Messages
             PROVE  Cardinality(Consumers(m))' = got'[m] + lost'[m] + Cardinality(Under(m))'
  BY DEF Balanced
<1> USE ServerAssumption DEF clientSide, serverVars
<1>0. /\ Requests \subseteq Handles /\ Polls \subseteq Requests
      /\ Messages \cap {None, "Success", "Error", "not_found", "unparsable"} = {}
      /\ answer \in [Requests -> Messages \cup {None, "Success", "Error"}]
      /\ inbox \in [Handles -> Seq(Messages)]
      /\ got \in [Messages -> Nat] /\ lost \in [Messages -> Nat]
      /\ \A r \in Requests : at[r] # "response" => answer[r] = None
  BY MailboxAssumption DEF SrvInv, ServerTypeOK, TypeOK, RequestsInOrder, Requests
<1>1. Cardinality(Consumers(m)) = got[m] + lost[m] + Cardinality(Under(m))
  BY DEF Balanced
<1>2. ASSUME \A h \in Requests : inbox'[h] = inbox[h], got' = got, lost' = lost,
             \A r \in Polls : answer'[r] = answer[r] \/ {answer[r], answer'[r]} \cap Messages = {}
      PROVE  Cardinality(Consumers(m))' = got'[m] + lost'[m] + Cardinality(Under(m))'
  <2>1. Consumers(m)' = Consumers(m)
    BY <1>2 DEF Consumers
  <2>2. Under(m)' = Under(m)
    BY <1>2 DEF Under
  <2> QED
    BY <1>1, <1>2, <2>1, <2>2
<1>3. ASSUME NEW r \in Requests,
             Refuse(r) \/ Lookup(r) \/ FetchFails(r) \/ Cache(r) \/ SendReturns(r) \/ ServePeek(r)
      PROVE  Cardinality(Consumers(m))' = got'[m] + lost'[m] + Cardinality(Under(m))'
  <2>1. \A q \in Polls : answer'[q] = answer[q] \/ {answer[q], answer'[q]} \cap Messages = {}
    BY <1>0, <1>3 DEF Refuse, Lookup, FetchFails, Cache, SendReturns, ServePeek
  <2> QED
    BY <1>2, <1>3, <2>1 DEF Refuse, Lookup, FetchFails, Cache, SendReturns, ServePeek, vars
<1>4. ASSUME NEW r \in Requests, Fetch(r) \/ ServeSend(r)
      PROVE  Cardinality(Consumers(m))' = got'[m] + lost'[m] + Cardinality(Under(m))'
  BY <1>2, <1>4 DEF Fetch, GetMailbox, CreateMailbox, NewHandle, ServeSend, Route, clientVars
<1>5. ASSUME NEW r \in Requests, ServeReceive(r)
      PROVE  Cardinality(Consumers(m))' = got'[m] + lost'[m] + Cardinality(Under(m))'
  <2>1. PICK h \in Requests : h = using[r] /\ Open(h) /\ Receive(h)
    BY <1>5 DEF ServeReceive, SrvInv, RequestsInOrder
  <2>2. /\ answer[r] = None /\ r \in Polls /\ got' = got /\ lost' = lost
        /\ answer' = [answer EXCEPT ![r] = ReadAnswer(h)]
    BY <1>0, <1>5, <2>1 DEF ServeReceive
  <2>3. CASE ReadNext(h) \notin Messages
    <3>1. inbox' = inbox
      BY <2>1, <2>3 DEF Receive
    <3>2. \A q \in Polls : answer'[q] = answer[q] \/ {answer[q], answer'[q]} \cap Messages = {}
      BY <1>0, <2>2, <2>3 DEF ReadAnswer
    <3> QED
      BY <1>2, <2>2, <3>1, <3>2
  <2>4. CASE ReadNext(h) \in Messages
    <3>1. /\ inbox' = [inbox EXCEPT ![h] = Append(@, ReadNext(h))]
          /\ answer' = [answer EXCEPT ![r] = ReadNext(h)]
      BY <2>1, <2>2, <2>4 DEF Receive, ReadAnswer
    <3>2. Range(inbox'[h]) = Range(inbox[h]) \cup {ReadNext(h)}
      BY <1>0, <2>4, <3>1, RangeOfAppended
    <3>3. ReadNext(h) \notin Range(inbox[h])
      <4> SUFFICES ASSUME NEW i \in 1..Len(inbox[h]), inbox[h][i] = ReadNext(h)  PROVE FALSE
        BY <1>0 DEF Range
      <4>1. offset[ReadNext(h)] = handle[h].read_offset /\ offset[ReadNext(h)] \in Nat
        BY <1>0, <2>1, <2>4, ReadResult DEF SrvInv, MailInv, TypeOK
      <4>2. offset[inbox[h][i]] < handle[h].read_offset
        BY <1>0, <2>1 DEF InboxOrdered
      <4> QED
        BY <4>1, <4>2
    <3>4. CASE m = ReadNext(h)
      <4>1. Consumers(m)' = Consumers(m) \cup {h} /\ h \notin Consumers(m)
        BY <1>0, <3>1, <3>2, <3>3, <3>4 DEF Consumers
      <4>2. Under(m)' = Under(m) \cup {r} /\ r \notin Under(m)
        BY <1>0, <2>2, <3>1, <3>4 DEF Under
      <4>3. /\ Cardinality(Consumers(m))' = Cardinality(Consumers(m)) + 1
            /\ Cardinality(Under(m))' = Cardinality(Under(m)) + 1
        BY <4>1, <4>2, FiniteCounts, FS_AddElement
      <4> QED
        BY <1>1, <2>2, <4>3, FiniteCounts
    <3>5. CASE m # ReadNext(h)
      <4>1. Consumers(m)' = Consumers(m)
        BY <1>0, <3>1, <3>2, <3>5 DEF Consumers
      <4>2. Under(m)' = Under(m)
        BY <1>0, <2>2, <3>1, <3>5 DEF Under
      <4> QED
        BY <1>1, <2>2, <4>1, <4>2
    <3> QED
      BY <3>4, <3>5
  <2> QED
    BY <2>3, <2>4
<1>6. ASSUME NEW r \in Requests, ClientReturns(r) \/ Lose(r)
      PROVE  Cardinality(Consumers(m))' = got'[m] + lost'[m] + Cardinality(Under(m))'
  <2>1. Consumers(m)' = Consumers(m) /\ answer' = [answer EXCEPT ![r] = None]
    BY <1>6 DEF ClientReturns, Lose, vars, Consumers
  <2>2. \/ got' = Count(got, r) /\ lost' = lost
        \/ got' = got /\ lost' = Count(lost, r)
    BY <1>6 DEF ClientReturns, Lose
  <2>3. CASE r \in Polls /\ answer[r] = m
    <3>1. Under(m)' = Under(m) \ {r} /\ r \in Under(m)
      BY <1>0, <2>1, <2>3 DEF Under
    <3>2. Cardinality(Under(m))' = Cardinality(Under(m)) - 1
      BY <3>1, FiniteCounts, FS_RemoveElement
    <3>3. got'[m] + lost'[m] = got[m] + lost[m] + 1
      BY <1>0, <2>2, <2>3 DEF Count
    <3> QED
      BY <1>1, <2>1, <3>2, <3>3, FiniteCounts
  <2>4. CASE ~ (r \in Polls /\ answer[r] = m)
    <3>1. Under(m)' = Under(m)
      BY <1>0, <2>1, <2>4 DEF Under
    <3>2. got'[m] = got[m] /\ lost'[m] = lost[m]
      BY <1>0, <2>2, <2>4 DEF Count
    <3> QED
      BY <1>1, <2>1, <3>1, <3>2
  <2> QED
    BY <2>3, <2>4
<1>7. CASE Local \/ UNCHANGED allVars \/ \E n \in Messages : Finish(n)
  <2>1. UNCHANGED <<inbox, answer, got, lost>>
    BY <1>7 DEF Local, Finish, allVars, vars, CreateMailbox, GetMailbox, NewHandle, Route, AssignOffset,
         InsertMapping, clientVars
  <2> QED
    BY <1>2, <2>1
<1> QED
  BY <1>3, <1>4, <1>5, <1>6, <1>7 DEF ServerNext, Handle

-----------------------------------------------------------------------------
(* The mailbox system alone, and with a server in front of it *)
DeliveryInv == MailInv /\ InFile /\ InboxOrdered

(* A handle receives the messages sent to its own address, none twice, and *)
(* those of sequential sends in their order, for any number of handles     *)
(* that read and senders that race in route_message, provided that no two  *)
(* addresses share a directory.                                            *)
THEOREM MailboxDelivery ==
  ASSUME OwnDirs
  PROVE  Spec => [](OwnMessagesOnce /\ FifoForSequentialSends)
<1>1. Init => DeliveryInv
  BY InitMail DEF DeliveryInv
<1>2. DeliveryInv /\ [Next]_vars => DeliveryInv'
  BY MailStep, FileStep, InboxStep DEF DeliveryInv
<1>3. DeliveryInv => OwnMessagesOnce /\ FifoForSequentialSends
  BY InboxFifo DEF DeliveryInv
<1> QED
  BY <1>1, <1>2, <1>3, PTL DEF Spec

(* The server's cache holds open handles of the right address, and a UDP   *)
(* server opens one handle for an address, for any requests in any order   *)
(* and any loss of requests and answers.                                   *)
THEOREM ServerInvariant == ServerSpec => []ServerInv
<1>1. ServerInit => SrvInv /\ UdpInTurn
  <2> SUFFICES ASSUME ServerInit  PROVE UdpInTurn
    BY InitServer
  <2>1. \A r \in Requests : at[r] = "idle" /\ ~ Open(r)
    BY ServerAssumption DEF ServerInit, Init, Open
  <2> QED
    BY <2>1 DEF UdpInTurn, InServer
<1>2. SrvInv /\ UdpInTurn /\ [ServerNext]_allVars => (SrvInv /\ UdpInTurn)'
  BY ServerStep, UdpStep
<1>3. SrvInv /\ UdpInTurn => ServerInv
  BY UdpOneHandle DEF SrvInv, ServerInv
<1> QED
  BY <1>1, <1>2, <1>3, PTL DEF ServerSpec

(* Who passed a message received it or dropped it unparsed. *)
LEMMA PassedAccounted ==
  SrvInv /\ InboxOrdered /\ PassedKnown /\ Balanced => ConsumptionsAccounted
<1> SUFFICES ASSUME SrvInv, InboxOrdered, PassedKnown, Balanced, NEW m \in Messages
             PROVE  LET dropped == {h \in PassedBy(m) : m \notin Range(inbox[h])}
                    IN  /\ Cardinality(PassedBy(m))
                             = got[m] + lost[m] + Cardinality(Under(m)) + Cardinality(dropped)
                        /\ dropped # {} => slot[m] < write_pos[Dest(m)]
  BY DEF ConsumptionsAccounted, Under
<1> DEFINE dropped == {h \in PassedBy(m) : m \notin Range(inbox[h])}
<1>0. Requests \subseteq Handles /\ inbox \in [Handles -> Seq(Messages)]
  BY ServerAssumption DEF SrvInv, ServerTypeOK, TypeOK
<1>1. Consumers(m) \subseteq PassedBy(m)
  <2> SUFFICES ASSUME NEW h \in Requests, m \in Range(inbox[h])  PROVE h \in PassedBy(m)
    BY DEF Consumers
  <2>1. PICK i \in 1..Len(inbox[h]) : inbox[h][i] = m
    BY <1>0 DEF Range
  <2>2. h \in Handles /\ inbox[h] # <<>>
    BY <1>0, <2>1
  <2>3. Open(h)
    BY <2>2 DEF InboxOrdered
  <2> QED
    BY <2>1, <2>2, <2>3 DEF InboxOrdered, PassedBy
<1>2. PassedBy(m) = Consumers(m) \cup dropped /\ Consumers(m) \cap dropped = {}
  BY <1>1 DEF Consumers, PassedBy
<1>3. IsFiniteSet(Consumers(m)) /\ IsFiniteSet(dropped)
  <2>1. Consumers(m) \subseteq Requests /\ dropped \subseteq Requests
    BY DEF Consumers, PassedBy
  <2> QED
    BY <2>1, FS_Subset, ServerAssumption
<1>4. \A h \in dropped : slot[m] < write_pos[Dest(m)]
  BY <1>0 DEF PassedKnown, PassedBy, Numbered
<1> HIDE DEF dropped
<1>5. Cardinality(PassedBy(m)) = Cardinality(Consumers(m)) + Cardinality(dropped)
  <2>1. Cardinality(Consumers(m) \cup dropped)
          = Cardinality(Consumers(m)) + Cardinality(dropped) - Cardinality(Consumers(m) \cap dropped)
    BY <1>3, FS_Union
  <2>2. /\ Cardinality(Consumers(m) \cap dropped) = 0
        /\ Cardinality(Consumers(m)) \in Nat /\ Cardinality(dropped) \in Nat
    BY <1>2, <1>3, FS_EmptySet, FS_CardinalityType
  <2> QED
    BY <1>2, <2>1, <2>2
<1>6. Cardinality(Consumers(m)) = got[m] + lost[m] + Cardinality(Under(m))
  BY DEF Balanced
<1> QED
  BY <1>4, <1>5, <1>6 DEF dropped

(* Through the server as well, handles receive their own messages once and *)
(* in order; and every message that the read_offset of a server's handle   *)
(* has passed was given to a poller, or is on its way, or was lost with    *)
(* its answer, or was dropped unparsed, which happens only to a message    *)
(* behind which another one was stored.                                    *)
THEOREM ServerDelivery ==
  ASSUME OwnDirs
  PROVE  ServerSpec => [](OwnMessagesOnce /\ FifoForSequentialSends /\ ConsumptionsAccounted)
<1> DEFINE All == SrvInv /\ InFile /\ InboxOrdered /\ PassedKnown /\ Balanced
<1>1. ServerInit => All
  <2> SUFFICES ASSUME ServerInit  PROVE All
    OBVIOUS
  <2>1. SrvInv /\ InFile /\ InboxOrdered /\ PassedKnown
    BY InitServer, InitMail DEF ServerInit, Init, PassedKnown, Open
  <2>2. \A m \in Messages : Consumers(m) = {} /\ Under(m) = {}
    BY ServerAssumption, MailboxAssumption DEF ServerInit, Init, Consumers, Under, Range, Requests
  <2>3. Balanced
    <3>1. \A m \in Messages : Cardinality(Consumers(m)) = 0 /\ Cardinality(Under(m)) = 0
      BY <2>2, FS_EmptySet
    <3>2. \A m \in Messages : got[m] = 0 /\ lost[m] = 0
      BY DEF ServerInit
    <3> QED
      BY <3>1, <3>2 DEF Balanced
  <2> QED
    BY <2>1, <2>3
<1>2. All /\ [ServerNext]_allVars => All'
  <2> SUFFICES ASSUME All, [ServerNext]_allVars  PROVE All'
    OBVIOUS
  <2>1. [Next]_vars /\ MailInv
    BY ServerStepsAreMailSteps DEF SrvInv
  <2> QED
    BY <2>1, ServerStep, FileStep, InboxStep, PassedStep, BalanceStep
<1>3. All => OwnMessagesOnce /\ FifoForSequentialSends /\ ConsumptionsAccounted
  BY InboxFifo, PassedAccounted DEF SrvInv
<1> QED
  BY <1>1, <1>2, <1>3, PTL DEF ServerSpec

(* The messages of sequential sends are received in the order they were    *)
(* sent, by any number of handles and through the server's pollers too.    *)
THEOREM ServerFifo ==
  ASSUME OwnDirs
  PROVE  ServerSpec => []FifoForSequentialSends
BY ServerDelivery, PTL

-----------------------------------------------------------------------------
(* Processors.  A task runs once its registration has spawned it, has a    *)
(* message while it processes, and has ended when the processor was shut   *)
(* down.                                                                   *)
TasksInOrder ==
  \A r \in Regs :
    /\ reg[r] \in {"new", "opened", "failed"} => task[r] = "none"
    /\ task[r] \in {"processing", "sending"} => hand[r] \in Messages
    /\ r \in cleaned => task[r] = "ended"

(* A forward under way is the one that its task waits for. *)
SendsOfTasks ==
  \A r \in Regs, m \in Messages :
    Out[r][m] # None /\ pc[Out[r][m]] \in {"stored", "numbered"} => task[r] = "sending" /\ hand[r] = m

ProcInv == MailInv /\ ProcessorTypeOK /\ TasksWithinReach /\ TasksInOrder /\ SendsOfTasks

(* The message in hand is the one received last, a forward was received    *)
(* first, and the forwards of earlier messages were over when the forward  *)
(* of a later one began.                                                   *)
ForwardsAfterReceipt ==
  \A r \in Regs :
    /\ task[r] \in {"processing", "sending"} =>
         inbox[r] # <<>> /\ hand[r] = inbox[r][Len(inbox[r])]
    /\ \A m \in Messages : Out[r][m] # None /\ pc[Out[r][m]] # "new" =>
         \E i \in 1..Len(inbox[r]) : inbox[r][i] = m
    /\ \A i, j \in 1..Len(inbox[r]) :
         LET a == Out[r][inbox[r][i]]
             b == Out[r][inbox[r][j]]
         IN  i < j /\ a # None /\ b # None /\ pc[a] # "new" /\ pc[b] # "new"
             => pc[a] = "refused" \/ (pc[a] = "sent" /\ a \in before[b])

(* Every step of the manager, its tasks and the host is one of the mailbox *)
(* system, or none.                                                        *)
LEMMA ProcessorStepsAreMailSteps ==
  ASSUME TasksInOrder, [ProcessorNext]_systemVars
  PROVE  [Next]_vars
<1>0. /\ Regs \subseteq Handles /\ HostHandles \subseteq Handles
      /\ At \in [Regs -> Addresses] /\ Home \in [HostHandles -> Addresses]
      /\ \A r \in Regs, m \in Messages : Out[r][m] \in Messages \cup {None}
  BY ProcessorAssumption DEF HostHandles
<1>1. ASSUME NEW r \in Regs, OpenMailbox(r)  PROVE [Next]_vars
  BY <1>0, <1>1 DEF OpenMailbox, Next
<1>2. ASSUME NEW r \in Regs, RegisterStep(r) \/ TaskEnds(r) \/ Ignore(r) \/ Fail(r) \/ Panic(r) \/ Forwarded(r)
      PROVE  UNCHANGED vars
  BY <1>2 DEF RegisterStep, Spawn, InitFails, Insert, TaskEnds, Ignore, Fail, Panic, Forwarded, Return
<1>3. ASSUME NEW r \in Regs, Poll(r)  PROVE [Next]_vars
  BY <1>0, <1>3 DEF Poll, Next
<1>4. ASSUME NEW r \in Regs, Forward(r)  PROVE [Next]_vars
  BY <1>0, <1>4 DEF Forward, TasksInOrder, Next, SendStep
<1>5. ASSUME NEW s \in Stops, Acquire(s) \/ StopStep(s)  PROVE UNCHANGED vars
  BY <1>5 DEF Acquire, StopStep, RemoveEntry, CleanUp, Release
<1>6. ASSUME NEW m \in Messages, FinishSend(m)  PROVE [Next]_vars
  BY <1>6 DEF FinishSend, Next, SendStep
<1>7. CASE Host
  BY <1>0, <1>7 DEF Host, Next, SendStep
<1>8. CASE UNCHANGED systemVars
  BY <1>8 DEF systemVars
<1> QED
  BY <1>1, <1>2, <1>3, <1>4, <1>5, <1>6, <1>7, <1>8 DEF ProcessorNext, TaskStep

LEMMA InitProcessor == ProcessorInit => ProcInv /\ ForwardsAfterReceipt
<1> SUFFICES ASSUME ProcessorInit  PROVE ProcInv /\ ForwardsAfterReceipt
  OBVIOUS
<1> USE ProcessorAssumption DEF ProcessorInit
<1>1. MailInv
  BY InitMail
<1>2. ProcessorTypeOK
  BY <1>1 DEF ProcessorTypeOK, MailInv
<1>3. TasksWithinReach /\ TasksInOrder
  BY DEF TasksWithinReach, TasksInOrder, Running
<1>4. \A m \in Messages : pc[m] = "new"
  BY DEF Init
<1>5. \A r \in Regs, m \in Messages : Out[r][m] # None => Out[r][m] \in Messages
  OBVIOUS
<1>6. SendsOfTasks
  BY <1>4, <1>5 DEF SendsOfTasks
<1>7. ForwardsAfterReceipt
  <2>1. \A r \in Regs : task[r] = "none" /\ inbox[r] = <<>>
    BY DEF Init
  <2> QED
    BY <1>4, <1>5, <2>1 DEF ForwardsAfterReceipt
<1> QED
  BY <1>1, <1>2, <1>3, <1>6, <1>7 DEF ProcInv

LEMMA ProcessorTypeStep == ProcInv /\ [ProcessorNext]_systemVars => ProcessorTypeOK'
<1> SUFFICES ASSUME ProcInv, [ProcessorNext]_systemVars  PROVE ProcessorTypeOK'
  OBVIOUS
<1> USE ProcessorAssumption DEF taskVars, managerVars, processorVars
<1>0. TypeOK'
  BY MailStep, ProcessorStepsAreMailSteps DEF ProcInv, MailInv
<1>1. /\ processors \in [Addresses -> Regs \cup {None}]
      /\ \A a \in Addresses : processors[a] # None => At[processors[a]] = a
      /\ lock \in Stops \cup {None}
      /\ reg \in [Regs -> {"new", "opened", "spawned", "registered", "failed"}]
      /\ task \in [Regs -> {"none", "polling", "processing", "sending", "ended"}]
      /\ hand \in [Regs -> Messages \cup {None}]
      /\ signalled \subseteq Regs
      /\ stop \in [Stops -> {"new", "holding", "returned"}]
      /\ \A s \in Stops : stop[s] = "holding" <=> lock = s
      /\ victim \in [Stops -> Regs \cup {None}]
      /\ cleaned \subseteq Regs
  BY DEF ProcInv, ProcessorTypeOK
<1>2. ASSUME NEW r \in Regs, OpenMailbox(r) \/ Spawn(r) \/ InitFails(r)  PROVE ProcessorTypeOK'
  <2>1. UNCHANGED <<hand, processors, lock, signalled, stop, victim, cleaned>>
    BY <1>2 DEF OpenMailbox, Spawn, InitFails
  <2>2. PICK l \in {"opened", "spawned", "failed"} : reg' = [reg EXCEPT ![r] = l]
    BY <1>2 DEF OpenMailbox, Spawn, InitFails
  <2>3. task' = task \/ task' = [task EXCEPT ![r] = "polling"]
    BY <1>2 DEF OpenMailbox, Spawn, InitFails
  <2>4. reg' \in [Regs -> {"new", "opened", "spawned", "registered", "failed"}]
    BY <1>1, <2>2
  <2>5. task' \in [Regs -> {"none", "polling", "processing", "sending", "ended"}]
    BY <1>1, <2>3
  <2> QED
    BY <1>0, <1>1, <2>1, <2>4, <2>5 DEF ProcessorTypeOK
<1>3. ASSUME NEW r \in Regs, Insert(r)  PROVE ProcessorTypeOK'
  <2>1. /\ processors' \in [Addresses -> Regs \cup {None}]
        /\ \A a \in Addresses : processors'[a] # None => At[processors'[a]] = a
    BY <1>1, <1>3 DEF Insert
  <2>2. signalled' \subseteq Regs /\ reg' \in [Regs -> {"new", "opened", "spawned", "registered", "failed"}]
    BY <1>1, <1>3 DEF Insert
  <2> QED
    BY <1>0, <1>1, <1>3, <2>1, <2>2 DEF Insert, ProcessorTypeOK
<1>4. ASSUME NEW r \in Regs, Poll(r)  PROVE ProcessorTypeOK'
  <2>1. UNCHANGED managerVars
    BY <1>4 DEF Poll
  <2>2. /\ task' \in [Regs -> {"none", "polling", "processing", "sending", "ended"}]
        /\ hand' \in [Regs -> Messages \cup {None}]
    <3>1. CASE ReadNext(r) \in Messages
      <4>1. PICK m \in Messages : hand' = [hand EXCEPT ![r] = m] /\ task' = [task EXCEPT ![r] = "processing"]
        BY <1>4, <3>1 DEF Poll
      <4> QED
        BY <1>1, <4>1
    <3>2. CASE ReadNext(r) \notin Messages
      BY <1>1, <1>4, <3>2 DEF Poll
    <3> QED
      BY <3>1, <3>2
  <2> QED
    BY <1>0, <1>1, <2>1, <2>2 DEF ProcessorTypeOK
<1>5. ASSUME NEW r \in Regs, TaskStep(r) \/ TaskEnds(r)  PROVE ProcessorTypeOK'
  <2>1. /\ task' \in [Regs -> {"none", "polling", "processing", "sending", "ended"}]
        /\ hand' \in [Regs -> Messages \cup {None}] /\ UNCHANGED managerVars
    <3>1. PICK l \in {"polling", "ended", "sending"} : task' = [task EXCEPT ![r] = l]
      BY <1>5 DEF TaskStep, TaskEnds, Ignore, Fail, Panic, Forward, Forwarded, Return
    <3>2. hand' = hand \/ hand' = [hand EXCEPT ![r] = None]
      BY <1>5 DEF TaskStep, TaskEnds, Ignore, Fail, Panic, Forward, Forwarded, Return
    <3>3. UNCHANGED managerVars
      BY <1>5 DEF TaskStep, TaskEnds, Ignore, Fail, Panic, Forward, Forwarded, Return
    <3>4. task' \in [Regs -> {"none", "polling", "processing", "sending", "ended"}]
      BY <1>1, <3>1
    <3>5. hand' \in [Regs -> Messages \cup {None}]
      BY <1>1, <3>2
    <3> QED
      BY <3>3, <3>4, <3>5
  <2> QED
    BY <1>0, <1>1, <2>1 DEF ProcessorTypeOK
<1>6. ASSUME NEW s \in Stops, Acquire(s)  PROVE ProcessorTypeOK'
  <2>1. \A t \in Stops : stop'[t] = "holding" <=> lock' = t
    BY <1>1, <1>6 DEF Acquire
  <2> QED
    BY <1>0, <1>1, <1>6, <2>1 DEF Acquire, ProcessorTypeOK
<1>7. ASSUME NEW s \in Stops, NEW r \in Regs, RemoveEntry(s, r)  PROVE ProcessorTypeOK'
  <2>1. /\ processors' \in [Addresses -> Regs \cup {None}]
        /\ \A a \in Addresses : processors'[a] # None => At[processors'[a]] = a
    BY <1>1, <1>7 DEF RemoveEntry
  <2>2. signalled' \subseteq Regs /\ victim' \in [Stops -> Regs \cup {None}]
    BY <1>1, <1>7 DEF RemoveEntry
  <2> QED
    BY <1>0, <1>1, <1>7, <2>1, <2>2 DEF RemoveEntry, ProcessorTypeOK
<1>8. ASSUME NEW s \in Stops, CleanUp(s)  PROVE ProcessorTypeOK'
  BY <1>0, <1>1, <1>8 DEF CleanUp, ProcessorTypeOK
<1>9. ASSUME NEW s \in Stops, Release(s)  PROVE ProcessorTypeOK'
  <2>1. \A t \in Stops : stop'[t] = "holding" <=> lock' = t
    BY <1>1, <1>9 DEF Release
  <2> QED
    BY <1>0, <1>1, <1>9, <2>1 DEF Release, ProcessorTypeOK
<1>10. CASE Host \/ UNCHANGED systemVars \/ \E m \in Messages : FinishSend(m)
  <2>1. UNCHANGED processorVars
    BY <1>10 DEF Host, FinishSend, systemVars
  <2> QED
    BY <1>0, <1>1, <2>1 DEF ProcessorTypeOK
<1> QED
  BY <1>2, <1>3, <1>4, <1>5, <1>6, <1>7, <1>8, <1>9, <1>10 DEF ProcessorNext, RegisterStep, StopStep

(* A registration leaves the table only with its task told to end.         *)
LEMMA ReachStep ==
  ProcInv /\ [ProcessorNext]_systemVars => TasksWithinReach' /\ TasksInOrder'
<1> SUFFICES ASSUME ProcInv, [ProcessorNext]_systemVars, NEW q \in Regs
             PROVE  /\ Running(q)' => processors'[At[q]] = q \/ q \in signalled' \/ reg'[q] = "spawned"
                    /\ reg'[q] \in {"new", "opened", "failed"} => task'[q] = "none"
                    /\ task'[q] \in {"processing", "sending"} => hand'[q] \in Messages
                    /\ q \in cleaned' => task'[q] = "ended"
  BY DEF TasksWithinReach, TasksInOrder
<1> USE ProcessorAssumption DEF taskVars, managerVars, processorVars
<1>1. /\ processors \in [Addresses -> Regs \cup {None}]
      /\ \A a \in Addresses : processors[a] # None => At[processors[a]] = a
      /\ reg \in [Regs -> {"new", "opened", "spawned", "registered", "failed"}]
      /\ task \in [Regs -> {"none", "polling", "processing", "sending", "ended"}]
      /\ hand \in [Regs -> Messages \cup {None}]
      /\ victim \in [Stops -> Regs \cup {None}]
  BY DEF ProcInv, ProcessorTypeOK
<1>2. /\ Running(q) => processors[At[q]] = q \/ q \in signalled \/ reg[q] = "spawned"
      /\ reg[q] \in {"new", "opened", "failed"} => task[q] = "none"
      /\ task[q] \in {"processing", "sending"} => hand[q] \in Messages
      /\ q \in cleaned => task[q] = "ended"
  BY DEF ProcInv, TasksWithinReach, TasksInOrder
<1> DEFINE Goal == /\ Running(q)' => processors'[At[q]] = q \/ q \in signalled' \/ reg'[q] = "spawned"
                   /\ reg'[q] \in {"new", "opened", "failed"} => task'[q] = "none"
                   /\ task'[q] \in {"processing", "sending"} => hand'[q] \in Messages
                   /\ q \in cleaned' => task'[q] = "ended"
<1>3. ASSUME NEW r \in Regs, OpenMailbox(r) \/ Spawn(r) \/ InitFails(r)  PROVE Goal
  BY <1>1, <1>2, <1>3 DEF OpenMailbox, Spawn, InitFails, Running
<1>4. ASSUME NEW r \in Regs, Insert(r)  PROVE Goal
  BY <1>1, <1>2, <1>4 DEF Insert, Running
<1>5. ASSUME NEW r \in Regs, Poll(r)  PROVE Goal
  BY <1>1, <1>2, <1>5 DEF Poll, Running
<1>6. ASSUME NEW r \in Regs, TaskStep(r) \/ TaskEnds(r)  PROVE Goal
  <2>1. PICK l \in {"polling", "ended", "sending"} :
          /\ task' = [task EXCEPT ![r] = l] /\ task[r] \in {"polling", "processing", "sending"}
          /\ l = "sending" => task[r] = "processing" /\ hand' = hand
          /\ \A p \in Regs : p # r => hand'[p] = hand[p]
    BY <1>1, <1>6 DEF TaskStep, TaskEnds, Ignore, Fail, Panic, Forward, Forwarded, Return
  <2>2. UNCHANGED managerVars
    BY <1>6 DEF TaskStep, TaskEnds, Ignore, Fail, Panic, Forward, Forwarded, Return
  <2> QED
    BY <1>1, <1>2, <2>1, <2>2 DEF Running
<1>7. ASSUME NEW s \in Stops, Acquire(s) \/ Release(s)  PROVE Goal
  BY <1>1, <1>2, <1>7 DEF Acquire, Release, Running
<1>8. ASSUME NEW s \in Stops, NEW r \in Regs, RemoveEntry(s, r)  PROVE Goal
  <2>1. processors[At[r]] = r
    <3>1. PICK a \in Addresses : r = processors[a] /\ r # None
      BY <1>8 DEF RemoveEntry, Entries
    <3> QED
      BY <1>1, <3>1
  <2> QED
    BY <1>1, <1>2, <1>8, <2>1 DEF RemoveEntry, Running
<1>9. ASSUME NEW s \in Stops, CleanUp(s)  PROVE Goal
  BY <1>1, <1>2, <1>9 DEF CleanUp, Running
<1>10. CASE Host \/ UNCHANGED systemVars \/ \E m \in Messages : FinishSend(m)
  <2>1. UNCHANGED processorVars
    BY <1>10 DEF Host, FinishSend, systemVars
  <2> QED
    BY <1>2, <2>1 DEF Running
<1> QED
  BY <1>3, <1>4, <1>5, <1>6, <1>7, <1>8, <1>9, <1>10 DEF ProcessorNext, RegisterStep, StopStep

LEMMA SendsStep == ProcInv /\ [ProcessorNext]_systemVars => SendsOfTasks'
<1> SUFFICES ASSUME ProcInv, [ProcessorNext]_systemVars, NEW q \in Regs, NEW m \in Messages,
                    Out[q][m] # None, pc'[Out[q][m]] \in {"stored", "numbered"}
             PROVE  task'[q] = "sending" /\ hand'[q] = m
  BY DEF SendsOfTasks
<1> USE DEF taskVars, managerVars, processorVars
<1>1. /\ task \in [Regs -> {"none", "polling", "processing", "sending", "ended"}]
      /\ hand \in [Regs -> Messages \cup {None}]
      /\ pc \in [Messages -> {"new", "stored", "numbered", "sent", "refused"}]
      /\ Out[q][m] \in Messages
  BY ProcessorAssumption DEF ProcInv, ProcessorTypeOK, TypeOK
<1>2. pc[Out[q][m]] \in {"stored", "numbered"} => task[q] = "sending" /\ hand[q] = m
  BY DEF ProcInv, SendsOfTasks
<1>3. ASSUME NEW r \in Regs, OpenMailbox(r) \/ RegisterStep(r)  PROVE task'[q] = "sending" /\ hand'[q] = m
  <2>1. pc' = pc /\ hand' = hand
    BY <1>3 DEF OpenMailbox, GetMailbox, NewHandle, RegisterStep, Spawn, InitFails, Insert, vars
  <2>2. task' = task \/ (reg[r] = "opened" /\ task' = [task EXCEPT ![r] = "polling"])
    BY <1>3 DEF OpenMailbox, RegisterStep, Spawn, InitFails, Insert
  <2>3. reg[r] = "opened" => task[r] = "none"
    BY DEF ProcInv, TasksInOrder
  <2> QED
    BY <1>1, <1>2, <2>1, <2>2, <2>3
<1>4. ASSUME NEW r \in Regs, Poll(r) \/ TaskEnds(r)  PROVE task'[q] = "sending" /\ hand'[q] = m
  <2>1. pc' = pc /\ task[r] = "polling"
    BY <1>4 DEF Poll, Receive, TaskEnds, vars
  <2>2. \A p \in Regs : p # r => task'[p] = task[p] /\ hand'[p] = hand[p]
    BY <1>1, <1>4 DEF Poll, TaskEnds
  <2> QED
    BY <1>2, <2>1, <2>2
<1>5. ASSUME NEW r \in Regs, Ignore(r) \/ Fail(r) \/ Panic(r) \/ Forwarded(r)
      PROVE  task'[q] = "sending" /\ hand'[q] = m
  <2>1. pc' = pc /\ (task[r] = "processing" \/ pc[Out[r][hand[r]]] \in {"sent", "refused"})
    BY <1>5 DEF Ignore, Fail, Panic, Forwarded, Return, vars
  <2>2. \A p \in Regs : p # r => task'[p] = task[p] /\ hand'[p] = hand[p]
    BY <1>1, <1>5 DEF Ignore, Fail, Panic, Forwarded, Return
  <2> QED
    BY <1>2, <2>1, <2>2
<1>6. ASSUME NEW r \in Regs, Forward(r)  PROVE task'[q] = "sending" /\ hand'[q] = m
  <2>1. /\ hand[r] \in Messages /\ Out[r][hand[r]] # None /\ task[r] = "processing"
        /\ task' = [task EXCEPT ![r] = "sending"] /\ hand' = hand
    BY <1>6 DEF Forward, ProcInv, TasksInOrder
  <2>2. \A n \in Messages : n # Out[r][hand[r]] => pc'[n] = pc[n]
    BY <1>1, <1>6 DEF Forward, Route
  <2>3. CASE Out[q][m] = Out[r][hand[r]]
    <3>1. q = r /\ m = hand[r]
      BY <2>1, <2>3, ProcessorAssumption
    <3> QED
      BY <1>1, <2>1, <3>1
  <2>4. CASE Out[q][m] # Out[r][hand[r]]
    BY <1>1, <1>2, <2>1, <2>2, <2>4
  <2> QED
    BY <2>3, <2>4
<1>7. ASSUME NEW s \in Stops, Acquire(s) \/ StopStep(s)  PROVE task'[q] = "sending" /\ hand'[q] = m
  BY <1>2, <1>7 DEF Acquire, StopStep, RemoveEntry, CleanUp, Release, vars
<1>8. ASSUME NEW n \in Messages, FinishSend(n)  PROVE task'[q] = "sending" /\ hand'[q] = m
  <2>1. pc[Out[q][m]] \in {"stored", "numbered"}
    BY <1>1, <1>8 DEF FinishSend, AssignOffset, InsertMapping
  <2> QED
    BY <1>2, <1>8, <2>1 DEF FinishSend
<1>9. CASE Host
  <2>1. Out[q][m] \in Outs
    BY DEF Outs
  <2>2. pc'[Out[q][m]] = pc[Out[q][m]]
    BY <1>1, <1>9, <2>1 DEF Host, CreateMailbox, GetMailbox, NewHandle, Route
  <2> QED
    BY <1>2, <1>9, <2>2 DEF Host
<1>10. CASE UNCHANGED systemVars
  BY <1>2, <1>10 DEF systemVars, vars
<1> QED
  BY <1>3, <1>4, <1>5, <1>6, <1>7, <1>8, <1>9, <1>10 DEF ProcessorNext, TaskStep

LEMMA ProcessorStep == ProcInv /\ [ProcessorNext]_systemVars => ProcInv'
<1> SUFFICES ASSUME ProcInv, [ProcessorNext]_systemVars  PROVE ProcInv'
  OBVIOUS
<1>1. MailInv'
  BY MailStep, ProcessorStepsAreMailSteps DEF ProcInv
<1> QED
  BY <1>1, ProcessorTypeStep, ReachStep, SendsStep DEF ProcInv

LEMMA QuietProcessors == ProcInv => QuietAfterShutdown
<1> SUFFICES ASSUME ProcInv, NEW r \in cleaned
             PROVE  /\ task[r] = "ended"
                    /\ \A m \in Messages : Out[r][m] # None => pc[Out[r][m]] \in {"new", "sent", "refused"}
  BY DEF QuietAfterShutdown
<1>1. r \in Regs /\ task[r] = "ended"
  BY DEF ProcInv, ProcessorTypeOK, TasksInOrder
<1>2. \A m \in Messages : Out[r][m] # None => Out[r][m] \in Messages
  BY <1>1, ProcessorAssumption
<1> QED
  BY <1>1, <1>2 DEF ProcInv, SendsOfTasks, MailInv, TypeOK

(* A task forwards what it received last, once no forward of it is under   *)
(* way, so the order of its forwards is that of its inbox.                 *)
LEMMA ForwardsStep ==
  ProcInv /\ InFile /\ InboxOrdered /\ ForwardsAfterReceipt /\ [ProcessorNext]_systemVars
    => ForwardsAfterReceipt'
<1> DEFINE
  HandLast(q) == task[q] \in {"processing", "sending"} =>
               inbox[q] # <<>> /\ hand[q] = inbox[q][Len(inbox[q])]
  Receipt(q) == \A m \in Messages : Out[q][m] # None /\ pc[Out[q][m]] # "new" =>
                  \E i \in 1..Len(inbox[q]) : inbox[q][i] = m
  Over(a, b) == a # None /\ b # None /\ pc[a] # "new" /\ pc[b] # "new"
                => pc[a] = "refused" \/ (pc[a] = "sent" /\ a \in before[b])
  OverNext(a, b) == a # None /\ b # None /\ pc'[a] # "new" /\ pc'[b] # "new"
                    => pc'[a] = "refused" \/ (pc'[a] = "sent" /\ a \in before'[b])
  InTurn(q) == \A i, j \in 1..Len(inbox[q]) : i < j => Over(Out[q][inbox[q][i]], Out[q][inbox[q][j]])
<1> SUFFICES ASSUME ProcInv, InFile, InboxOrdered, ForwardsAfterReceipt, [ProcessorNext]_systemVars,
                    NEW q \in Regs
             PROVE  HandLast(q)' /\ Receipt(q)' /\ InTurn(q)'
  BY DEF ForwardsAfterReceipt
<1> USE DEF taskVars, managerVars, processorVars
<1>0. /\ task \in [Regs -> {"none", "polling", "processing", "sending", "ended"}]
      /\ hand \in [Regs -> Messages \cup {None}]
      /\ pc \in [Messages -> {"new", "stored", "numbered", "sent", "refused"}]
      /\ before \in [Messages -> SUBSET Messages]
      /\ inbox \in [Handles -> Seq(Messages)] /\ Regs \subseteq Handles
      /\ Len(inbox[q]) \in Nat /\ \A i \in 1..Len(inbox[q]) : inbox[q][i] \in Messages
      /\ \A r \in Regs, m \in Messages : Out[r][m] # None => Out[r][m] \in Messages
  BY ProcessorAssumption DEF ProcInv, ProcessorTypeOK, TypeOK
<1>1. HandLast(q) /\ Receipt(q) /\ InTurn(q)
  BY DEF ForwardsAfterReceipt
<1>2. \A i, j \in 1..Len(inbox[q]) : i < j => inbox[q][i] # inbox[q][j]
  <2> SUFFICES ASSUME NEW i \in 1..Len(inbox[q]), NEW j \in 1..Len(inbox[q]), i < j
               PROVE  inbox[q][i] # inbox[q][j]
    OBVIOUS
  <2>1. offset[inbox[q][i]] < offset[inbox[q][j]]
    BY <1>0 DEF InboxOrdered
  <2>2. offset[inbox[q][i]] \in Nat
    BY <1>0 DEF ProcInv, MailInv, TypeOK
  <2> QED
    BY <2>1, <2>2
<1>3. ASSUME inbox'[q] = inbox[q],
             task'[q] \in {"processing", "sending"} => task[q] \in {"processing", "sending"} /\ hand'[q] = hand[q],
             \A m \in Messages : Out[q][m] # None =>
               /\ pc'[Out[q][m]] # "new" => pc[Out[q][m]] # "new"
               /\ pc[Out[q][m]] \in {"sent", "refused"} => pc'[Out[q][m]] = pc[Out[q][m]]
               /\ before'[Out[q][m]] = before[Out[q][m]]
      PROVE  HandLast(q)' /\ Receipt(q)' /\ InTurn(q)'
  <2>1. HandLast(q)' /\ Receipt(q)'
    BY <1>1, <1>3
  <2>2. ASSUME NEW i \in 1..Len(inbox[q]), NEW j \in 1..Len(inbox[q]), i < j
        PROVE  OverNext(Out[q][inbox[q][i]], Out[q][inbox[q][j]])
    <3>1. Over(Out[q][inbox[q][i]], Out[q][inbox[q][j]])
      BY <1>1, <2>2
    <3>2. inbox[q][i] \in Messages /\ inbox[q][j] \in Messages
      BY <1>0
    <3> QED
      BY <1>3, <3>1, <3>2
  <2> QED
    BY <1>3, <2>1, <2>2
<1>4. ASSUME NEW r \in Regs, Poll(r)  PROVE HandLast(q)' /\ Receipt(q)' /\ InTurn(q)'
  <2>1. task[r] = "polling" /\ Receive(r) /\ pc' = pc /\ before' = before
    BY <1>4 DEF Poll, Receive
  <2>2. CASE q # r
    <3>1. inbox'[q] = inbox[q] /\ task'[q] = task[q] /\ hand'[q] = hand[q]
      BY <1>0, <1>4, <2>1, <2>2 DEF Poll, Receive
    <3> QED
      BY <1>3, <2>1, <3>1
  <2>3. CASE q = r /\ ReadNext(r) \notin Messages
    <3>1. inbox'[q] = inbox[q] /\ task'[q] = task[q] /\ hand'[q] = hand[q]
      BY <1>4, <2>1, <2>3 DEF Poll, Receive
    <3> QED
      BY <1>3, <2>1, <3>1
  <2>4. CASE q = r /\ ReadNext(r) \in Messages
    <3>1. PICK m \in Messages : m = ReadNext(q)
      BY <2>4
    <3>2. /\ inbox'[q] = Append(inbox[q], m) /\ hand'[q] = m /\ task'[q] = "processing"
      BY <1>0, <1>4, <2>1, <2>4, <3>1 DEF Poll, Receive
    <3> DEFINE n == Len(inbox[q])
    <3>3. /\ Len(inbox'[q]) = n + 1 /\ inbox'[q][n + 1] = m /\ inbox'[q] # <<>>
          /\ \A i \in 1..n : inbox'[q][i] = inbox[q][i]
      <4>1. inbox[q] \in Seq(Messages)
        BY <1>0
      <4>2. /\ Len(Append(inbox[q], m)) = n + 1 /\ Append(inbox[q], m)[n + 1] = m
            /\ Append(inbox[q], m) # <<>>
            /\ \A i \in 1..n : Append(inbox[q], m)[i] = inbox[q][i]
        BY <4>1, AppendProperties
      <4> QED
        BY <3>2, <4>2
    <3>4. n \in Nat
      BY <1>0
    <3>5. \A i \in 1..n : inbox[q][i] # m
      <4>1. offset[m] = handle[q].read_offset /\ offset[m] \in Nat /\ Open(q)
        BY <1>0, <2>1, <2>4, <3>1, ReadResult DEF Receive, ProcInv, MailInv, TypeOK
      <4>2. \A i \in 1..n : offset[inbox[q][i]] < handle[q].read_offset
        BY <1>0, <4>1 DEF InboxOrdered
      <4> QED
        BY <4>1, <4>2
    <3>a. /\ Receipt(q)
          /\ \A i, j \in 1..n : i < j => Over(Out[q][inbox[q][i]], Out[q][inbox[q][j]])
      BY <1>1
    <3> HIDE DEF n, Over, OverNext
    <3>6. HandLast(q)'
      BY <3>2, <3>3
    <3>7. ASSUME NEW k \in Messages, Out[q][k] # None, pc'[Out[q][k]] # "new"
          PROVE  \E i \in 1..Len(inbox'[q]) : inbox'[q][i] = k
      <4>1. PICK i \in 1..n : inbox[q][i] = k
        BY <2>1, <3>7, <3>a DEF n
      <4>2. i \in 1..Len(inbox'[q])
        BY <3>3, <3>4
      <4> QED
        BY <3>3, <4>1, <4>2
    <3>8. ASSUME NEW i \in 1..(n + 1), NEW j \in 1..(n + 1), i < j
          PROVE  OverNext(Out[q][inbox'[q][i]], Out[q][inbox'[q][j]])
      <4>1. i \in 1..n /\ inbox'[q][i] = inbox[q][i]
        BY <3>3, <3>4, <3>8
      <4>2. CASE j = n + 1
        <5>1. Out[q][m] = None \/ pc[Out[q][m]] = "new"
          BY <3>5, <3>a DEF n
        <5> QED
          BY <2>1, <3>3, <4>2, <5>1 DEF OverNext
      <4>3. CASE j # n + 1
        <5>1. j \in 1..n /\ inbox'[q][j] = inbox[q][j]
          BY <3>3, <3>4, <4>3
        <5>2. Over(Out[q][inbox[q][i]], Out[q][inbox[q][j]])
          BY <3>8, <3>a, <4>1, <5>1
        <5> QED
          BY <2>1, <4>1, <5>1, <5>2 DEF Over, OverNext
      <4> QED
        BY <4>2, <4>3
    <3> QED
      BY <3>3, <3>6, <3>7, <3>8 DEF Over, OverNext
  <2> QED
    BY <2>2, <2>3, <2>4
<1>5. ASSUME NEW r \in Regs, Forward(r)  PROVE HandLast(q)' /\ Receipt(q)' /\ InTurn(q)'
  <2> DEFINE f == Out[r][hand[r]]
  <2>1. /\ hand[r] \in Messages /\ f # None /\ f \in Messages /\ task[r] = "processing"
        /\ task' = [task EXCEPT ![r] = "sending"] /\ hand' = hand /\ inbox' = inbox
    BY <1>0, <1>5 DEF Forward, Route, clientVars, ProcInv, TasksInOrder
  <2>2. /\ pc[f] = "new" /\ before'[f] = {k \in Messages : pc[k] = "sent"}
        /\ \A k \in Messages : k # f => pc'[k] = pc[k] /\ before'[k] = before[k]
    BY <1>0, <1>5, <2>1 DEF Forward, Route
  <2>3. \A p \in Regs, m \in Messages : Out[p][m] = f => p = r /\ m = hand[r]
    BY <2>1, ProcessorAssumption
  <2> HIDE DEF f
  <2>4. CASE q # r
    <3>1. \A m \in Messages : Out[q][m] # None =>
            pc'[Out[q][m]] = pc[Out[q][m]] /\ before'[Out[q][m]] = before[Out[q][m]]
      BY <1>0, <2>2, <2>3, <2>4
    <3>2. task'[q] = task[q]
      BY <1>0, <2>1, <2>4
    <3> QED
      BY <1>3, <2>1, <3>1, <3>2
  <2>5. CASE q = r
    <3> DEFINE n == Len(inbox[q])
    <3>1. inbox[q] # <<>> /\ hand[q] = inbox[q][n] /\ n \in 1..n /\ n \in Nat
      <4>1. inbox[q] # <<>> /\ hand[q] = inbox[q][n]
        BY <1>1, <2>1, <2>5
      <4>2. inbox[q] \in Seq(Messages)
        BY <1>0
      <4>3. n \in Nat /\ n # 0
        BY <4>1, <4>2, EmptySeq
      <4> QED
        BY <4>1, <4>3
    <3>2. HandLast(q)'
      BY <2>1, <3>1
    <3>3. Receipt(q)'
      <4> SUFFICES ASSUME NEW m \in Messages, Out[q][m] # None, pc'[Out[q][m]] # "new"
                   PROVE  \E i \in 1..Len(inbox[q]) : inbox[q][i] = m
        BY <2>1
      <4>1. CASE Out[q][m] = f
        BY <2>3, <2>5, <3>1, <4>1
      <4>2. CASE Out[q][m] # f
        BY <1>0, <1>1, <2>2, <4>2
      <4> QED
        BY <4>1, <4>2
    <3>4. ASSUME NEW i \in 1..n, NEW j \in 1..n, i < j
          PROVE  OverNext(Out[q][inbox[q][i]], Out[q][inbox[q][j]])
      <4> DEFINE a == Out[q][inbox[q][i]]  b == Out[q][inbox[q][j]]
      <4>1. inbox[q][i] # inbox[q][j] /\ inbox[q][i] # inbox[q][n]
        <5>1. i < n
          BY <3>1, <3>4
        <5> QED
          BY <1>2, <3>1, <3>4, <5>1
      <4>2. inbox[q][i] \in Messages /\ inbox[q][j] \in Messages
        BY <1>0
      <4>3. a # f
        BY <2>3, <2>5, <3>1, <4>1, <4>2
      <4>4. CASE a # None /\ b # None /\ pc'[a] # "new"
        <5>1. a \in Messages /\ b \in Messages /\ pc'[a] = pc[a]
          BY <1>0, <2>2, <4>2, <4>3, <4>4
        <5>2. CASE b = f
          <6>1. pc[a] \in {"sent", "refused"}
            BY <1>0, <2>1, <2>5, <4>2, <4>4, <5>1 DEF ProcInv, SendsOfTasks
          <6> QED
            BY <2>2, <5>1, <5>2, <6>1
        <5>3. CASE b # f
          <6>1. Over(a, b)
            BY <1>1, <3>4
          <6> QED
            BY <2>2, <5>1, <5>3, <6>1
        <5> QED
          BY <5>2, <5>3
      <4> QED
        BY <4>4
    <3> QED
      BY <2>1, <3>2, <3>3, <3>4
  <2> QED
    BY <2>4, <2>5
<1>6. ASSUME NEW r \in Regs, OpenMailbox(r) \/ RegisterStep(r)  PROVE HandLast(q)' /\ Receipt(q)' /\ InTurn(q)'
  <2>1. pc' = pc /\ before' = before /\ inbox' = inbox /\ hand' = hand
    BY <1>6 DEF OpenMailbox, GetMailbox, NewHandle, RegisterStep, Spawn, InitFails, Insert, vars
  <2>2. task' = task \/ task' = [task EXCEPT ![r] = "polling"]
    BY <1>6 DEF OpenMailbox, RegisterStep, Spawn, InitFails, Insert
  <2>3. task'[q] \in {"processing", "sending"} => task[q] \in {"processing", "sending"}
    BY <1>0, <2>2
  <2> QED
    BY <1>3, <2>1, <2>3
<1>7. ASSUME NEW r \in Regs, Ignore(r) \/ Fail(r) \/ Panic(r) \/ Forwarded(r) \/ TaskEnds(r)
      PROVE  HandLast(q)' /\ Receipt(q)' /\ InTurn(q)'
  <2>1. pc' = pc /\ before' = before /\ inbox' = inbox
    BY <1>7 DEF Ignore, Fail, Panic, Forwarded, TaskEnds, Return, vars
  <2>2. PICK l \in {"polling", "ended"} : task' = [task EXCEPT ![r] = l]
    BY <1>7 DEF Ignore, Fail, Panic, Forwarded, TaskEnds, Return
  <2>3. hand' = hand \/ hand' = [hand EXCEPT ![r] = None]
    BY <1>7 DEF Ignore, Fail, Panic, Forwarded, TaskEnds, Return
  <2>4. task'[q] \in {"processing", "sending"} => task[q] \in {"processing", "sending"} /\ hand'[q] = hand[q]
    BY <1>0, <2>2, <2>3
  <2> QED
    BY <1>3, <2>1, <2>4
<1>8. ASSUME NEW s \in Stops, Acquire(s) \/ StopStep(s)  PROVE HandLast(q)' /\ Receipt(q)' /\ InTurn(q)'
  <2>1. pc' = pc /\ before' = before /\ inbox' = inbox /\ task' = task /\ hand' = hand
    BY <1>8 DEF Acquire, StopStep, RemoveEntry, CleanUp, Release, vars
  <2> QED
    BY <1>3, <2>1
<1>9. ASSUME NEW k \in Messages, FinishSend(k)  PROVE HandLast(q)' /\ Receipt(q)' /\ InTurn(q)'
  <2>1. before' = before /\ inbox' = inbox /\ task' = task /\ hand' = hand
    BY <1>9 DEF FinishSend, AssignOffset, InsertMapping, clientVars
  <2>2. \A p \in Messages : /\ pc'[p] # "new" => pc[p] # "new"
                            /\ pc[p] \in {"sent", "refused"} => pc'[p] = pc[p]
    BY <1>0, <1>9 DEF FinishSend, AssignOffset, InsertMapping
  <2> QED
    BY <1>0, <1>3, <2>1, <2>2
<1>10. CASE Host
  <2>1. \A m \in Messages : Out[q][m] # None => Out[q][m] \in Outs
    BY DEF Outs
  <2>2. inbox' = inbox /\ task' = task /\ hand' = hand
    BY <1>10 DEF Host, CreateMailbox, GetMailbox, NewHandle, Route, clientVars
  <2>3. \A p \in Messages : p \in Outs => pc'[p] = pc[p] /\ before'[p] = before[p]
    BY <1>0, <1>10 DEF Host, CreateMailbox, GetMailbox, NewHandle, Route
  <2> QED
    BY <1>0, <1>3, <2>1, <2>2, <2>3
<1>11. CASE UNCHANGED systemVars
  <2>1. pc' = pc /\ before' = before /\ inbox' = inbox /\ task' = task /\ hand' = hand
    BY <1>11 DEF systemVars, vars
  <2> QED
    BY <1>3, <2>1
<1> QED
  BY <1>4, <1>5, <1>6, <1>7, <1>8, <1>9, <1>10, <1>11 DEF ProcessorNext, TaskStep

LEMMA ForwardsOrdered ==
  ProcInv /\ ForwardsAfterReceipt => ForwardsInOrder
<1> SUFFICES ASSUME ProcInv, ForwardsAfterReceipt, NEW r \in Regs,
                    NEW i \in DOMAIN inbox[r], NEW j \in DOMAIN inbox[r], i < j,
                    Out[r][inbox[r][i]] # None, Out[r][inbox[r][j]] # None,
                    pc[Out[r][inbox[r][j]]] # "new", pc[Out[r][inbox[r][i]]] # "new"
             PROVE  LET a == Out[r][inbox[r][i]]
                        b == Out[r][inbox[r][j]]
                    IN  /\ pc[a] \in {"sent", "refused"}
                        /\ pc[a] = "sent" /\ pc[b] = "sent" /\ Dest(a) = Dest(b) => offset[a] < offset[b]
  BY DEF ForwardsInOrder
<1> DEFINE a == Out[r][inbox[r][i]]  b == Out[r][inbox[r][j]]
<1>1. r \in Handles /\ inbox[r] \in Seq(Messages)
  BY ProcessorAssumption DEF ProcInv, MailInv, TypeOK
<1>2. /\ DOMAIN inbox[r] = 1..Len(inbox[r])
      /\ inbox[r][i] \in Messages /\ inbox[r][j] \in Messages
  BY <1>1
<1>3. pc[a] = "refused" \/ (pc[a] = "sent" /\ a \in before[b])
  BY <1>2 DEF ForwardsAfterReceipt
<1>4. a \in Messages /\ b \in Messages
  BY <1>2, ProcessorAssumption
<1> QED
  BY <1>3, <1>4 DEF ProcInv, MailInv, BeforeSmaller, Numbered

(* Every running task is within the manager's reach, and a processor is    *)
(* quiet once processor.shutdown was called, for any registrations, stop   *)
(* calls and messages in any order, whatever the mailboxes hold.           *)
THEOREM ProcessorsWithinReach ==
  ProcessorSpec => [](ProcessorTypeOK /\ TasksWithinReach /\ QuietAfterShutdown)
<1>1. ProcessorInit => ProcInv
  BY InitProcessor
<1>2. ProcInv /\ [ProcessorNext]_systemVars => ProcInv'
  BY ProcessorStep
<1>3. ProcInv => ProcessorTypeOK /\ TasksWithinReach /\ QuietAfterShutdown
  BY QuietProcessors DEF ProcInv
<1> QED
  BY <1>1, <1>2, <1>3, PTL DEF ProcessorSpec

(* With a directory for each address, the forwards of a processor keep the *)
(* order in which process_messages received as well.                       *)
THEOREM ProcessorInvariant ==
  ASSUME OwnDirs
  PROVE  ProcessorSpec => []ProcessorInv
<1> DEFINE All == ProcInv /\ InFile /\ InboxOrdered /\ ForwardsAfterReceipt
<1>1. ProcessorInit => All
  BY InitProcessor, InitMail DEF ProcessorInit
<1>2. All /\ [ProcessorNext]_systemVars => All'
  <2> SUFFICES ASSUME All, [ProcessorNext]_systemVars  PROVE All'
    OBVIOUS
  <2>1. [Next]_vars /\ MailInv
    BY ProcessorStepsAreMailSteps DEF ProcInv
  <2> QED
    BY <2>1, ProcessorStep, FileStep, InboxStep, ForwardsStep
<1>3. All => ProcessorInv
  BY QuietProcessors, ForwardsOrdered DEF ProcInv, ProcessorInv
<1> QED
  BY <1>1, <1>2, <1>3, PTL DEF ProcessorSpec
=============================================================================
