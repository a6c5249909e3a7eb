-------------------------- MODULE TransportProofs --------------------------
(***************************************************************************)
(* Proofs about the pooled connections, for any number of clients, calls   *)
(* and connections: callers that share a connection and abandon requests   *)
(* on it never get each other's answers, and get no answer at all once a   *)
(* request on it was abandoned and none half written.  And about the circuit breaker that such   *)
(* calls may be made under, for any number of callers, any thresholds and  *)
(* any timeout: no transition that a counter calls for is lost, and an     *)
(* open breaker is left early only by calls that are stale.                *)
(***************************************************************************)
EXTENDS Transport, CircuitBreaker, SequenceTheorems, FiniteSetTheorems, TLAPS

Of(types) == [type : types, id : Nat, call : Clients \X Nat]
Asked == Of({Kind[c] : c \in Clients})
Answers == Of({ResponseType(Kind[c]) : c \in Clients})

(* What TypeOK leaves open: the streams hold messages, a request that is    *)
(* cut off makes its connection a torn one, a connection that was not       *)
(* opened yet carries nothing, and a call that is past connecting has a     *)
(* connection and no result yet.                                            *)
Shape ==
  /\ requests \in [Conns -> Seq(Asked)] /\ responses \in [Conns -> Seq(Answers)]
  /\ cut \in [Conns -> Seq(Asked)] /\ \A k \in Conns : cut[k] # <<>> => k \in torn
  /\ result \in [Clients -> Seq(Answers)]
  /\ using \in [Clients -> 1..opened \cup {None}]
  /\ \A k \in Conns : k > opened =>
       requests[k] = <<>> /\ responses[k] = <<>> /\ abandoned[k] = 0
  /\ \A c \in Clients : pc[c] \in {"locking", "locked", "writing", "waiting"} => using[c] # None
  /\ \A c \in Clients : pc[c] # "idle" => result[c] = Err

(* How many messages are on their way on k *)
Sent(k) == Len(requests[k])
Back(k) == Len(responses[k])

(* The messages on k with the id of call c are that call's own, *)
OwnIds(c, k) ==
  /\ id[c] < next_id[k]
  /\ \A m \in Range(requests[k]) : m.id = id[c] => m.call = ThisCall(c) /\ m.type = Kind[c]
  /\ \A m \in Range(cut[k]) : m.id # id[c]
  /\ \A m \in Range(responses[k]) :
       m.id = id[c] => m.call = ThisCall(c) /\ m.type = ResponseType(Kind[c])

(* and they stand behind the answers of all requests abandoned on k. *)
Behind(c, k) ==
  /\ \A i \in 1..Sent(k) : requests[k][i].id = id[c] => Back(k) + i > abandoned[k]
  /\ \A i \in 1..Back(k) : responses[k][i].id = id[c] => i > abandoned[k]

InPlace(c, k) == OwnIds(c, k) /\ (k \notin torn => Behind(c, k))

AnswersInPlace ==
  \A c \in Clients, k \in Conns : using[c] = k /\ pc[c] \in {"writing", "waiting"} => InPlace(c, k)

(* Whether a request on k is waited for, as a number *)
Awaited(k) == IF \E c \in Clients : using[c] = k /\ pc[c] = "waiting" THEN 1 ELSE 0

Accounted ==
  \A k \in serving \ torn :
    /\ Sent(k) + Back(k) >= abandoned[k] + Awaited(k)
    /\ k \notin garbled => Sent(k) + Back(k) = abandoned[k] + Awaited(k)

LEMMA AtMostOne ==
  ASSUME NEW S, \A x, y \in S : x = y
  PROVE  Cardinality(S) = IF \E x \in S : TRUE THEN 1 ELSE 0
<1>1. CASE S = {}
  BY <1>1, FS_EmptySet
<1>2. CASE S # {}
  <2>1. PICK x \in S : S = {x}
    BY <1>2
  <2> QED
    BY <2>1, FS_Singleton
<1> QED
  BY <1>1, <1>2

(* The answer to a request *)
LEMMA AnswerType ==
  ASSUME NEW m \in Asked
  PROVE  Message(ResponseType(m.type), m.id, m.call) \in Answers
BY DEF Asked, Answers, Of, Message

LEMMA RequestType ==
  ASSUME NEW c \in Clients, TypeOK
  PROVE  /\ Request(c) \in Asked /\ Request(c).id = id[c]
         /\ Request(c).call = ThisCall(c) /\ Request(c).type = Kind[c]
BY DEF Request, Asked, Of, Message, ThisCall, TypeOK

LEMMA RangeOfAppend ==
  ASSUME NEW S, NEW s \in Seq(S), NEW e \in S
  PROVE  Range(Append(s, e)) = Range(s) \cup {e}
<1>1. /\ DOMAIN Append(s, e) = 1..(Len(s) + 1) /\ DOMAIN s = 1..Len(s) /\ Len(s) \in Nat
      /\ \A i \in 1..Len(s) : Append(s, e)[i] = s[i]
      /\ Append(s, e)[Len(s) + 1] = e
  BY AppendProperties
<1>2. 1..(Len(s) + 1) = 1..Len(s) \cup {Len(s) + 1}
  BY <1>1
<1> QED
  BY <1>1, <1>2 DEF Range

LEMMA RangeOfTail ==
  ASSUME NEW S, NEW s \in Seq(S), s # <<>>
  PROVE  Range(Tail(s)) \subseteq Range(s) /\ Head(s) \in Range(s)
BY HeadTailProperties DEF Range

LEMMA RangeOfConcat ==
  ASSUME NEW S, NEW s \in Seq(S), NEW t \in Seq(S)
  PROVE  s \o t \in Seq(S) /\ Range(s \o t) \subseteq Range(s) \cup Range(t)
<1>1. /\ s \o t \in Seq(S) /\ DOMAIN (s \o t) = 1..(Len(s) + Len(t))
      /\ DOMAIN s = 1..Len(s) /\ DOMAIN t = 1..Len(t) /\ Len(s) \in Nat /\ Len(t) \in Nat
      /\ \A i \in 1..(Len(s) + Len(t)) : (s \o t)[i] = IF i <= Len(s) THEN s[i] ELSE t[i - Len(s)]
  BY ConcatProperties
<1>2. ASSUME NEW i \in 1..(Len(s) + Len(t))  PROVE (s \o t)[i] \in Range(s) \cup Range(t)
  <2>1. CASE i <= Len(s)
    BY <1>1, <2>1 DEF Range
  <2>2. CASE ~ i <= Len(s)
    <3>1. i - Len(s) \in 1..Len(t)
      BY <1>1, <2>2
    <3> QED
      BY <1>1, <2>2, <3>1 DEF Range
  <2> QED
    BY <2>1, <2>2
<1> QED
  BY <1>1, <1>2 DEF Range

LEMMA RangeOfNothing == Range(<<>>) = {}
BY DEF Range

(* The bytes for the server end inside a message only on a torn connection, *)
LEMMA WholeUnlessTorn ==
  ASSUME TypeOK, Shape, NEW k \in Conns, k \notin torn
  PROVE  AtBoundary(k)
BY DEF AtBoundary, TypeOK, Shape

(* and there no message comes from what is written behind it. *)
LEMMA SwallowFacts ==
  ASSUME TypeOK, Shape, NEW k \in Conns, ~ AtBoundary(k), Swallow(k)
  PROVE  /\ requests' \in [Conns -> Seq(Asked)] /\ cut' \in [Conns -> Seq(Asked)]
         /\ \A j \in Conns : j # k => requests'[j] = requests[j] /\ cut'[j] = cut[j]
         /\ Range(requests'[k]) \subseteq Range(requests[k]) \cup Range(cut[k])
         /\ Range(cut'[k]) \subseteq Range(cut[k])
         /\ broken' \subseteq broken \cup {k}
         /\ k \in torn
<1>1. k \in torn
  BY WholeUnlessTorn
<1>2. requests[k] \in Seq(Asked) /\ cut[k] \in Seq(Asked) /\ <<>> \in Seq(Asked)
  BY DEF Shape
<1>3. CASE Completed(k)
  <2>1. requests[k] \o cut[k] \in Seq(Asked)
    BY <1>2, RangeOfConcat
  <2>2. requests' \in [Conns -> Seq(Asked)] /\ cut' \in [Conns -> Seq(Asked)]
    BY <1>2, <1>3, <2>1 DEF Completed, Shape
  <2>3. requests'[k] = requests[k] \o cut[k] /\ cut'[k] = <<>>
    BY <1>3 DEF Completed, Shape
  <2> QED
    BY <1>1, <1>2, <1>3, <2>2, <2>3, RangeOfConcat, RangeOfNothing DEF Completed, Shape
<1>4. CASE Spoilt(k)
  BY <1>1, <1>2, <1>4, RangeOfNothing DEF Spoilt, Shape
<1>5. CASE UNCHANGED <<requests, cut, broken>>
  BY <1>1, <1>5 DEF Shape
<1> QED
  BY <1>3, <1>4, <1>5 DEF Swallow

(* The messages of a stream by their index *)
LEMMA IdsBelow ==
  ASSUME IdsIssued, Shape, NEW k \in Conns
  PROVE  /\ \A m \in Range(requests[k]) \cup Range(cut[k]) \cup Range(responses[k]) :
              m.id \in Nat /\ m.id < next_id[k]
         /\ \A i \in 1..Len(requests[k]) : requests[k][i].id \in Nat /\ requests[k][i].id < next_id[k]
         /\ \A i \in 1..Len(responses[k]) : responses[k][i].id \in Nat /\ responses[k][i].id < next_id[k]
<1>1. /\ \A i \in 1..Len(requests[k]) : requests[k][i] \in Range(requests[k]) /\ requests[k][i] \in Asked
      /\ \A i \in 1..Len(responses[k]) : responses[k][i] \in Range(responses[k]) /\ responses[k][i] \in Answers
      /\ Range(requests[k]) \cup Range(cut[k]) \subseteq Asked /\ Range(responses[k]) \subseteq Answers
  BY DEF Shape, Range
<1> QED
  BY <1>1 DEF IdsIssued, Asked, Answers, Of

(* What is inductive, without the account of the streams *)
Core == TypeOK /\ Shape /\ IdsIssued /\ HolderUses

LEMMA InitInv == Init => Core /\ Accounted /\ AnswersInPlace /\ OwnResponse
<1> SUFFICES ASSUME Init  PROVE Core /\ Accounted /\ AnswersInPlace /\ OwnResponse
  OBVIOUS
<1> USE TransportAssumption DEF Init
<1>1. /\ \A k \in Conns : Range(requests[k]) = {} /\ Range(cut[k]) = {} /\ Range(responses[k]) = {}
      /\ \A c \in Clients : Range(result[c]) = {}
  BY DEF Range
<1>2. TypeOK
  BY DEF TypeOK, Conns
<1>3. Shape
  BY DEF Shape, Err, Conns
<1>4. IdsIssued /\ OwnResponse
  BY <1>1 DEF IdsIssued, OwnResponse
<1>5. HolderUses
  BY DEF HolderUses, Conns
<1> QED
  BY <1>2, <1>3, <1>4, <1>5 DEF Core, Accounted, AnswersInPlace

(* Connections that were opened, without the arithmetic of intervals *)
LEMMA OpenedConns ==
  ASSUME TypeOK
  PROVE  /\ 1..opened \subseteq Conns /\ None \notin Conns /\ opened \in Nat
         /\ opened < MaxConns => /\ opened + 1 \in Conns /\ opened + 1 \in 1..(opened + 1)
                                 /\ opened + 1 \in 0..MaxConns
                                 /\ 1..opened \subseteq 1..(opened + 1)
BY TransportAssumption DEF TypeOK, Conns

LEMMA TypeStep == Core /\ [Next]_vars => TypeOK'
<1> SUFFICES ASSUME Core, [Next]_vars  PROVE TypeOK'
  OBVIOUS
<1> USE TransportAssumption, OpenedConns DEF TypeOK, connVars, toServer, clientVars, Goto
<1>0. /\ TypeOK
      /\ \A c \in Clients : using[c] \in 1..opened \cup {None}
      /\ \A c \in Clients : pc[c] \in {"locking", "locked", "writing", "waiting"} => using[c] \in Conns
  BY DEF Core, Shape
<1>1. ASSUME NEW c \in Clients, Get(c)  PROVE TypeOK'
  <2>1. /\ using' \in [Clients -> Conns \cup {None}]
        /\ pc' \in [Clients -> {"idle", "connecting", "locking", "locked", "writing", "waiting"}]
    BY <1>0, <1>1 DEF Get
  <2>2. calls' \in [Clients -> Nat] /\ \A d \in Clients : calls'[d] <= MaxCalls[d]
    <3>1. /\ calls \in [Clients -> Nat] /\ \A d \in Clients : calls[d] <= MaxCalls[d]
          /\ calls[c] < MaxCalls[c] /\ calls' = [calls EXCEPT ![c] = @ + 1]
      BY <1>0, <1>1 DEF Get
    <3>2. \A d \in Clients : calls'[d] = IF d = c THEN calls[d] + 1 ELSE calls[d]
      BY <3>1
    <3> QED
      BY <3>1, <3>2
  <2> QED
    BY <1>0, <1>1, <2>1, <2>2 DEF Get
<1>2. ASSUME NEW c \in Clients, Connect(c)  PROVE TypeOK'
  BY <1>0, <1>2 DEF Connect
<1>3. ASSUME NEW c \in Clients, Lock(c)  PROVE TypeOK'
  BY <1>0, <1>3 DEF Lock
<1>4. ASSUME NEW c \in Clients, NextId(c)  PROVE TypeOK'
  <2>1. using[c] \in Conns
    BY <1>0, <1>4 DEF NextId
  <2>2. next_id' \in [Conns -> Nat \ {0}] /\ id' \in [Clients -> Nat]
    BY <1>0, <1>4, <2>1 DEF NextId
  <2>3. pc' \in [Clients -> {"idle", "connecting", "locking", "locked", "writing", "waiting"}]
    BY <1>0, <1>4 DEF NextId
  <2> QED
    BY <1>0, <1>4, <2>2, <2>3 DEF NextId
<1>w. ASSUME NEW c \in Clients, NEW k \in Conns, k = using[c], pc[c] = "writing",
             (~ AtBoundary(k) /\ Swallow(k)) \/ broken' = broken
      PROVE  broken' \subseteq torn \cup {k} /\ k \in 1..opened /\ (AtBoundary(k) \/ broken' \subseteq torn)
  <2>1. CASE ~ AtBoundary(k) /\ Swallow(k)
    <3>1. Shape /\ TypeOK
      BY DEF Core
    <3>2. broken' \subseteq broken \cup {k} /\ k \in torn
      BY <1>w, <2>1, <3>1, SwallowFacts
    <3> QED
      BY <1>0, <1>w, <2>1, <3>2
  <2> QED
    BY <1>0, <1>w, <2>1
<1>y. ASSUME NEW c \in Clients, Write(c)  PROVE TypeOK'
  <2>1. broken' \subseteq torn
    BY <1>0, <1>w, <1>y DEF Write
  <2>2. pc' \in [Clients -> {"idle", "connecting", "locking", "locked", "writing", "waiting"}]
    BY <1>0, <1>y DEF Write
  <2> QED
    BY <1>0, <1>y, <2>1, <2>2 DEF Write
<1>5. ASSUME NEW c \in Clients, Read(c)  PROVE TypeOK'
  BY <1>0, <1>5 DEF Read, Return
<1>6. ASSUME NEW c \in Clients, NEW v, Return(c, v), UNCHANGED <<next_id, serving>>,
             abandoned' \in [Conns -> Nat], garbled' \subseteq 1..opened,
             torn' \subseteq 1..opened, broken' \subseteq torn'
      PROVE  TypeOK'
  BY <1>0, <1>6 DEF Return
<1>z. ASSUME NEW c \in Clients, CancelMidWrite(c)  PROVE TypeOK'
  <2>1. using[c] \in 1..opened /\ broken' \subseteq torn'
    BY <1>0, <1>w, <1>z DEF CancelMidWrite
  <2> QED
    BY <1>0, <1>6, <1>z, <2>1 DEF CancelMidWrite
<1>7. ASSUME NEW c \in Clients, Closed(c)  PROVE TypeOK'
  BY <1>0, <1>6, <1>7 DEF Closed
<1>8. ASSUME NEW c \in Clients, ConnectFails(c)  PROVE TypeOK'
  BY <1>0, <1>6, <1>8 DEF ConnectFails
<1>9. ASSUME NEW c \in Clients, Cancel(c)  PROVE TypeOK'
  BY <1>0, <1>6, <1>9 DEF Cancel
<1>10. ASSUME NEW c \in Clients, CancelMidRead(c)  PROVE TypeOK'
  <2>1. using[c] \in Conns /\ using[c] \in 1..opened
    BY <1>0, <1>10 DEF CancelMidRead
  <2>2. abandoned' \in [Conns -> Nat]
    BY <1>0, <1>10, <2>1 DEF CancelMidRead
  <2>3. garbled' \subseteq 1..opened
    BY <1>0, <1>10, <2>1 DEF CancelMidRead
  <2> QED
    BY <1>0, <1>6, <1>10, <2>2, <2>3 DEF CancelMidRead
<1>11. ASSUME NEW k \in Conns, Handle(k)  PROVE TypeOK'
  BY <1>0, <1>11 DEF Handle
<1>12. ASSUME NEW k \in Conns, HandlerFails(k) \/ Misread(k)  PROVE TypeOK'
  BY <1>0, <1>12 DEF HandlerFails, Misread
<1>13. ASSUME NEW k \in Conns, HandleEof(k)  PROVE TypeOK'
  BY <1>0, <1>13 DEF HandleEof
<1>14. CASE RemoveConnection \/ UNCHANGED vars
  BY <1>0, <1>14 DEF RemoveConnection, vars
<1> QED
  BY <1>1, <1>2, <1>3, <1>4, <1>y, <1>5, <1>7, <1>8, <1>9, <1>z, <1>10, <1>11, <1>12, <1>13, <1>14
  DEF Next, ClientStep, ServerStep

LEMMA ShapeStep == Core /\ [Next]_vars => Shape'
<1> SUFFICES ASSUME Core, [Next]_vars  PROVE Shape'
  OBVIOUS
<1> USE OpenedConns DEF Shape, connVars, toServer, clientVars, Goto, Err
<1>0. /\ TypeOK /\ Shape
      /\ \A c \in Clients : pc[c] \in {"locking", "locked", "writing", "waiting"} => using[c] \in 1..opened
      /\ \A k \in Conns : k \in 1..opened <=> ~ k > opened
      /\ pc \in [Clients -> {"idle", "connecting", "locking", "locked", "writing", "waiting"}]
      /\ serving \subseteq 1..opened /\ pool \in 1..opened \cup {None}
  <2>1. TypeOK /\ Shape
    BY DEF Core
  <2>2. \A k \in Conns : k \in 1..opened <=> ~ k > opened
    BY <2>1, TransportAssumption DEF TypeOK, Conns
  <2> QED
    BY <2>1, <2>2 DEF TypeOK
<1>1. ASSUME NEW c \in Clients, Get(c)  PROVE Shape'
  BY <1>0, <1>1 DEF Get
<1>2. ASSUME NEW c \in Clients, Connect(c)  PROVE Shape'
  <2>1. \A k \in Conns : k > opened' => k > opened
    BY <1>0, <1>2 DEF Connect, Conns
  <2>2. using' \in [Clients -> 1..opened' \cup {None}]
    BY <1>0, <1>2 DEF Connect
  <2> QED
    BY <1>0, <1>2, <2>1, <2>2 DEF Connect
<1>3. ASSUME NEW c \in Clients, Lock(c)  PROVE Shape'
  BY <1>0, <1>3 DEF Lock
<1>4. ASSUME NEW c \in Clients, NextId(c)  PROVE Shape'
  BY <1>0, <1>4 DEF NextId
<1>w. ASSUME NEW c \in Clients, NEW k \in Conns, k = using[c], pc[c] = "writing",
             \/ AtBoundary(k) /\ requests' = [requests EXCEPT ![k] = Append(@, Request(c))] /\ cut' = cut
             \/ AtBoundary(k) /\ requests' = requests /\ cut' = [cut EXCEPT ![k] = <<Request(c)>>]
             \/ ~ AtBoundary(k) /\ Swallow(k)
      PROVE  /\ requests' \in [Conns -> Seq(Asked)] /\ cut' \in [Conns -> Seq(Asked)]
             /\ \A j \in Conns : j # k => requests'[j] = requests[j] /\ cut'[j] = cut[j]
             /\ \A j \in Conns : j > opened => j # k
             /\ AtBoundary(k) \/ k \in torn
  <2>1. Request(c) \in Asked
    BY <1>0, RequestType
  <2>2. CASE ~ AtBoundary(k) /\ Swallow(k)
    BY <1>0, <1>w, <2>2, SwallowFacts
  <2>3. CASE AtBoundary(k) /\ requests' = requests /\ cut' = [cut EXCEPT ![k] = <<Request(c)>>]
    BY <1>0, <1>w, <2>1, <2>3
  <2>4. CASE AtBoundary(k) /\ requests' = [requests EXCEPT ![k] = Append(@, Request(c))] /\ cut' = cut
    BY <1>0, <1>w, <2>1, <2>4
  <2> QED
    BY <1>w, <2>2, <2>3, <2>4
<1>y. ASSUME NEW c \in Clients, Write(c)  PROVE Shape'
  <2>1. PICK k \in Conns : k = using[c]
    BY <1>0, <1>y DEF Write
  <2>2. /\ requests' \in [Conns -> Seq(Asked)] /\ cut' \in [Conns -> Seq(Asked)]
        /\ \A j \in Conns : j # k => requests'[j] = requests[j] /\ cut'[j] = cut[j]
        /\ \A j \in Conns : j > opened => j # k
    BY <1>w, <1>y, <2>1 DEF Write
  <2>3. cut' = cut \/ k \in torn
    BY <1>w, <1>y, <2>1 DEF Write
  <2> QED
    BY <1>0, <1>y, <2>1, <2>2, <2>3 DEF Write
<1>5. ASSUME NEW c \in Clients, NEW v \in Seq(Answers), Return(c, v),
             requests' \in [Conns -> Seq(Asked)], cut' \in [Conns -> Seq(Asked)],
             \A k \in Conns : k > opened => requests'[k] = requests[k],
             \A k \in Conns : cut'[k] # <<>> => k \in torn',
             \/ responses' = responses
             \/ using[c] \in Conns /\ responses' = [responses EXCEPT ![using[c]] = Tail(@)]
                                   /\ responses[using[c]] # <<>>,
             \/ abandoned' = abandoned
             \/ using[c] \in Conns /\ abandoned' = [abandoned EXCEPT ![using[c]] = @ + 1]
      PROVE  Shape'
  <2>1. result' \in [Clients -> Seq(Answers)] /\ using' \in [Clients -> 1..opened' \cup {None}]
    BY <1>0, <1>5 DEF Return
  <2>2. responses' \in [Conns -> Seq(Answers)]
    <3>1. CASE responses' = [responses EXCEPT ![using[c]] = Tail(@)]
                 /\ using[c] \in Conns /\ responses[using[c]] # <<>>
      <4>1. Tail(responses[using[c]]) \in Seq(Answers)
        BY <1>0, <3>1
      <4> QED
        BY <1>0, <3>1, <4>1
    <3> QED
      BY <1>0, <1>5, <3>1
  <2>3. \A k \in Conns : k > opened => responses'[k] = responses[k] /\ abandoned'[k] = abandoned[k]
    <3>1. ASSUME NEW k \in Conns, k > opened  PROVE using[c] # k
      BY <1>0, <3>1
    <3>2. abandoned \in [Conns -> Nat]
      BY <1>0 DEF TypeOK
    <3> QED
      BY <1>0, <1>5, <3>1, <3>2
  <2> QED
    BY <1>0, <1>5, <2>1, <2>2, <2>3 DEF Return
<1>6. <<>> \in Seq(Answers)
  OBVIOUS
<1>7. ASSUME NEW c \in Clients, Read(c)  PROVE Shape'
  <2>1. using[c] \in Conns /\ responses[using[c]] \in Seq(Answers) /\ responses[using[c]] # <<>>
    BY <1>0, <1>7 DEF Read
  <2>2. <<Head(responses[using[c]])>> \in Seq(Answers)
    BY <2>1
  <2>3. PICK v \in Seq(Answers) : Return(c, v)
    BY <1>6, <1>7, <2>2 DEF Read
  <2> QED
    BY <1>0, <1>5, <1>7, <2>1, <2>3 DEF Read
<1>8. ASSUME NEW c \in Clients, Closed(c) \/ ConnectFails(c)  PROVE Shape'
  BY <1>0, <1>5, <1>6, <1>8 DEF Closed, ConnectFails
<1>z. ASSUME NEW c \in Clients, CancelMidWrite(c)  PROVE Shape'
  <2>1. PICK k \in Conns : k = using[c]
    BY <1>0, <1>z DEF CancelMidWrite
  <2>2. /\ requests' \in [Conns -> Seq(Asked)] /\ cut' \in [Conns -> Seq(Asked)]
        /\ \A j \in Conns : j # k => requests'[j] = requests[j] /\ cut'[j] = cut[j]
        /\ \A j \in Conns : j > opened => j # k
    BY <1>w, <1>z, <2>1 DEF CancelMidWrite
  <2> QED
    BY <1>0, <1>5, <1>6, <1>z, <2>1, <2>2 DEF CancelMidWrite
<1>9. ASSUME NEW c \in Clients, Cancel(c)  PROVE Shape'
  BY <1>0, <1>5, <1>6, <1>9 DEF Cancel
<1>10. ASSUME NEW c \in Clients, CancelMidRead(c)  PROVE Shape'
  BY <1>0, <1>5, <1>6, <1>10 DEF CancelMidRead
<1>11. ASSUME NEW k \in Conns, Handle(k)  PROVE Shape'
  <2>1. Head(requests[k]) \in Asked /\ Tail(requests[k]) \in Seq(Asked)
    BY <1>0, <1>11 DEF Handle
  <2>2. requests' \in [Conns -> Seq(Asked)]
    BY <1>0, <1>11, <2>1 DEF Handle
  <2>3. responses' \in [Conns -> Seq(Answers)]
    BY <1>0, <1>11, <2>1, AnswerType DEF Handle
  <2>4. \A j \in Conns : j > opened => requests'[j] = requests[j] /\ responses'[j] = responses[j]
    BY <1>0, <1>11 DEF Handle
  <2> QED
    BY <1>0, <1>11, <2>2, <2>3, <2>4 DEF Handle
<1>12. ASSUME NEW k \in Conns, HandlerFails(k) \/ Misread(k)  PROVE Shape'
  <2>1. CASE HandlerFails(k)
    BY <1>0, <2>1 DEF HandlerFails
  <2>2. CASE Misread(k)
    BY <1>0, <2>2 DEF Misread
  <2> QED
    BY <1>12, <2>1, <2>2
<1>13. ASSUME NEW k \in Conns, HandleEof(k)  PROVE Shape'
  <2>1. responses' \in [Conns -> Seq(Answers)]
    BY <1>0, <1>6, <1>13 DEF HandleEof
  <2>2. \A j \in Conns : j > opened => responses'[j] = <<>> /\ abandoned'[j] = 0
    BY <1>0, <1>13 DEF HandleEof, TypeOK
  <2> QED
    BY <1>0, <1>13, <2>1, <2>2 DEF HandleEof
<1>14. CASE RemoveConnection \/ UNCHANGED vars
  BY <1>0, <1>14 DEF RemoveConnection, vars
<1> QED
  BY <1>1, <1>2, <1>3, <1>4, <1>y, <1>7, <1>8, <1>9, <1>z, <1>10, <1>11, <1>12, <1>13, <1>14
  DEF Next, ClientStep, ServerStep

(* Reading, handling and dropping messages only makes the streams smaller. *)
LEMMA IdsStep == Core /\ AnswersInPlace /\ [Next]_vars => IdsIssued'
<1> SUFFICES ASSUME Core, AnswersInPlace, [Next]_vars  PROVE IdsIssued'
  OBVIOUS
<1> USE TransportAssumption DEF Core, connVars, toServer, clientVars
<1>0. /\ \A j \in Conns : next_id[j] \in Nat
      /\ \A j \in Conns : \A n \in Range(requests[j]) \cup Range(cut[j]) \cup Range(responses[j]) :
           n.id \in Nat /\ n.id < next_id[j]
      /\ \A c \in Clients : pc[c] \in {"locked", "writing", "waiting"} => using[c] \in Conns
      /\ \A j \in Conns : requests[j] \in Seq(Asked)
  BY IdsBelow, OpenedConns DEF TypeOK, Shape
<1>1. ASSUME NEW c \in Clients, NextId(c)  PROVE IdsIssued'
  <2>1. \A j \in Conns : next_id'[j] \in Nat /\ next_id[j] <= next_id'[j]
    BY <1>0, <1>1 DEF NextId, TypeOK
  <2> QED
    BY <1>0, <1>1, <2>1 DEF NextId, IdsIssued
<1>w. ASSUME NEW c \in Clients, NEW k \in Conns, k = using[c], pc[c] = "writing", id[c] < next_id[k],
             UNCHANGED <<next_id, responses>>,
             \/ AtBoundary(k) /\ requests' = [requests EXCEPT ![k] = Append(@, Request(c))] /\ cut' = cut
             \/ AtBoundary(k) /\ requests' = requests /\ cut' = [cut EXCEPT ![k] = <<Request(c)>>]
             \/ ~ AtBoundary(k) /\ Swallow(k)
      PROVE  IdsIssued'
  <2> DEFINE m == Request(c)
  <2>1. m \in Asked /\ m.id < next_id[k]
    BY <1>w, RequestType
  <2>2. Range(<<m>>) = {m}
    BY DEF Range
  <2>3. /\ \A j \in Conns : j # k => requests'[j] = requests[j] /\ cut'[j] = cut[j]
        /\ Range(requests'[k]) \cup Range(cut'[k]) \subseteq Range(requests[k]) \cup Range(cut[k]) \cup {m}
    <3>1. CASE ~ AtBoundary(k) /\ Swallow(k)
      BY <1>w, <3>1, SwallowFacts
    <3>2. CASE AtBoundary(k) /\ requests' = requests /\ cut' = [cut EXCEPT ![k] = <<m>>]
      BY <2>2, <3>2 DEF Shape
    <3>3. CASE AtBoundary(k) /\ requests' = [requests EXCEPT ![k] = Append(@, m)] /\ cut' = cut
      BY <1>0, <2>1, <3>3, RangeOfAppend DEF Shape
    <3> QED
      BY <1>w, <3>1, <3>2, <3>3
  <2> HIDE DEF m
  <2> QED
    BY <1>0, <1>w, <2>1, <2>3 DEF IdsIssued
<1>y. ASSUME NEW c \in Clients, Write(c) \/ CancelMidWrite(c)  PROVE IdsIssued'
  <2>1. using[c] \in Conns /\ pc[c] = "writing"
    BY <1>0, <1>y DEF Write, CancelMidWrite
  <2>2. id[c] < next_id[using[c]]
    BY <2>1 DEF AnswersInPlace, InPlace, OwnIds
  <2> QED
    BY <1>w, <1>y, <2>1, <2>2 DEF Write, CancelMidWrite, Return
<1>2. ASSUME NEW c \in Clients, Read(c)  PROVE IdsIssued'
  <2> DEFINE k == using[c]
  <2>1. k \in Conns /\ responses[k] \in Seq(Answers) /\ responses[k] # <<>>
    BY <1>2 DEF Read, TypeOK, Shape, Conns
  <2>2. Range(Tail(responses[k])) \subseteq Range(responses[k])
    BY <2>1, RangeOfTail
  <2> QED
    BY <1>2, <2>1, <2>2 DEF Read, Return, IdsIssued, TypeOK, Shape
<1>3. ASSUME NEW k \in Conns, Handle(k)  PROVE IdsIssued'
  <2> DEFINE m == Head(requests[k])  a == Message(ResponseType(m.type), m.id, m.call)
  <2>1. requests[k] \in Seq(Asked) /\ requests[k] # <<>> /\ responses[k] \in Seq(Answers)
    BY <1>3 DEF Handle, Shape
  <2>2. Range(Tail(requests[k])) \subseteq Range(requests[k]) /\ m \in Range(requests[k]) /\ m \in Asked
    BY <2>1, RangeOfTail
  <2>3. a \in Answers /\ a.id = m.id
    BY <2>2, AnswerType DEF Message
  <2>4. Range(Append(responses[k], a)) = Range(responses[k]) \cup {a}
    BY <2>1, <2>3, RangeOfAppend
  <2>5. /\ Range(requests'[k]) \subseteq Range(requests[k])
        /\ Range(responses'[k]) = Range(responses[k]) \cup {a}
    BY <1>3, <2>2, <2>4 DEF Handle, Shape
  <2> HIDE DEF a, m
  <2> QED
    BY <1>3, <2>2, <2>3, <2>5 DEF Handle, IdsIssued, TypeOK, Shape
<1>4. ASSUME NEW k \in Conns, HandlerFails(k) \/ HandleEof(k)  PROVE IdsIssued'
  BY <1>4, RangeOfNothing DEF HandlerFails, HandleEof, IdsIssued, Shape
<1>m. ASSUME NEW k \in Conns, Misread(k)  PROVE IdsIssued'
  BY <1>m DEF Misread, IdsIssued
<1>5. ASSUME NEW c \in Clients, Get(c) \/ Connect(c) \/ Lock(c)  PROVE IdsIssued'
  BY <1>5 DEF Get, Connect, Lock, IdsIssued
<1>6. ASSUME NEW c \in Clients, Closed(c) \/ ConnectFails(c) \/ Cancel(c) \/ CancelMidRead(c)
      PROVE  IdsIssued'
  BY <1>6 DEF Closed, ConnectFails, Cancel, CancelMidRead, Return, IdsIssued
<1>7. CASE RemoveConnection \/ UNCHANGED vars
  BY <1>7 DEF RemoveConnection, vars, IdsIssued
<1> QED
  BY <1>1, <1>y, <1>2, <1>3, <1>4, <1>m, <1>5, <1>6, <1>7 DEF Next, ClientStep, ServerStep

(* What the steps below use of it, without intervals *)
LEMMA CoreFacts ==
  ASSUME Core
  PROVE  /\ serving \subseteq Conns /\ None \notin Conns
         /\ holder \in [Conns -> Clients \cup {None}]
         /\ using \in [Clients -> Conns \cup {None}]
         /\ pc \in [Clients -> {"idle", "connecting", "locking", "locked", "writing", "waiting"}]
         /\ \A c \in Clients : pc[c] \in {"locking", "locked", "writing", "waiting"} => using[c] \in Conns
         /\ requests \in [Conns -> Seq(Asked)] /\ responses \in [Conns -> Seq(Answers)]
         /\ abandoned \in [Conns -> Nat] /\ next_id \in [Conns -> Nat \ {0}]
         /\ id \in [Clients -> Nat]
         /\ \A k \in Conns : Len(requests[k]) \in Nat /\ Len(responses[k]) \in Nat
<1>1. /\ serving \subseteq Conns /\ None \notin Conns
      /\ \A c \in Clients : pc[c] \in {"locking", "locked", "writing", "waiting"} => using[c] \in Conns
  BY OpenedConns DEF Core, TypeOK, Shape
<1>2. \A k \in Conns : Len(requests[k]) \in Nat /\ Len(responses[k]) \in Nat
  BY DEF Core, Shape
<1> QED
  BY <1>1, <1>2 DEF Core, TypeOK, Shape

(* The guard of the mutex moves with the call. *)
LEMMA HolderStep == Core /\ [Next]_vars => HolderUses'
<1> SUFFICES ASSUME Core, [Next]_vars  PROVE HolderUses'
  OBVIOUS
<1> USE TransportAssumption DEF HolderUses, connVars, toServer, clientVars, Goto
<1>0. /\ HolderUses
      /\ holder \in [Conns -> Clients \cup {None}] /\ using \in [Clients -> Conns \cup {None}]
      /\ pc \in [Clients -> {"idle", "connecting", "locking", "locked", "writing", "waiting"}]
      /\ \A c \in Clients : pc[c] \in {"locking", "locked", "writing", "waiting"} => using[c] \in Conns
      /\ None \notin Conns
  BY CoreFacts DEF Core
<1>1. ASSUME NEW c \in Clients, Get(c)  PROVE HolderUses'
  BY <1>0, <1>1 DEF Get
<1>2. ASSUME NEW c \in Clients, Connect(c)  PROVE HolderUses'
  BY <1>0, <1>2 DEF Connect
<1>3. ASSUME NEW c \in Clients, Lock(c)  PROVE HolderUses'
  <2> SUFFICES ASSUME NEW k \in Conns, NEW d \in Clients
               PROVE  holder'[k] = d <=> using'[d] = k /\ pc'[d] \in {"locked", "writing", "waiting"}
    OBVIOUS
  <2>1. CASE d = c
    BY <1>0, <1>3, <2>1 DEF Lock
  <2>2. CASE d # c
    BY <1>0, <1>3, <2>2 DEF Lock
  <2> QED
    BY <2>1, <2>2
<1>4. ASSUME NEW c \in Clients, NextId(c) \/ Write(c)  PROVE HolderUses'
  BY <1>0, <1>4 DEF NextId, Write
<1>5. ASSUME NEW c \in Clients, NEW v, Return(c, v)  PROVE HolderUses'
  <2> SUFFICES ASSUME NEW k \in Conns, NEW d \in Clients
               PROVE  holder'[k] = d <=> using'[d] = k /\ pc'[d] \in {"locked", "writing", "waiting"}
    OBVIOUS
  <2>1. CASE d = c
    BY <1>0, <1>5, <2>1 DEF Return
  <2>2. CASE d # c
    BY <1>0, <1>5, <2>2 DEF Return
  <2> QED
    BY <2>1, <2>2
<1>6. ASSUME NEW c \in Clients,
             Read(c) \/ Closed(c) \/ ConnectFails(c) \/ Cancel(c) \/ CancelMidWrite(c) \/ CancelMidRead(c)
      PROVE  HolderUses'
  BY <1>5, <1>6 DEF Read, Closed, ConnectFails, Cancel, CancelMidWrite, CancelMidRead
<1>7. ASSUME NEW k \in Conns, Handle(k) \/ HandlerFails(k) \/ Misread(k) \/ HandleEof(k)  PROVE HolderUses'
  BY <1>0, <1>7 DEF Handle, HandlerFails, Misread, HandleEof
<1>8. CASE RemoveConnection \/ UNCHANGED vars
  BY <1>0, <1>8 DEF RemoveConnection, vars
<1> QED
  BY <1>1, <1>2, <1>3, <1>4, <1>6, <1>7, <1>8 DEF Next, ClientStep, ServerStep

LEMMA CoreStep == Core /\ AnswersInPlace /\ [Next]_vars => Core'
BY TypeStep, ShapeStep, IdsStep, HolderStep DEF Core

-----------------------------------------------------------------------------
(* The mutex makes a connection's waiting call unique. *)
LEMMA OneWaits ==
  ASSUME Core, NEW c \in Clients, NEW d \in Clients, using[c] \in Conns, using[c] = using[d],
         pc[c] \in {"locked", "writing", "waiting"}, pc[d] \in {"locked", "writing", "waiting"}
  PROVE  c = d
BY DEF Core, HolderUses

(* Every step keeps the account of every open stream: a message is added   *)
(* when a call begins to wait, and taken out when it ends, and a call that *)
(* is dropped instead leaves its message to the abandoned ones.            *)
LEMMA AccountStep == Core /\ Accounted /\ [Next]_vars => Accounted'
<1> SUFFICES ASSUME Core, Accounted, [Next]_vars  PROVE Accounted'
  OBVIOUS
<1> USE DEF Accounted, connVars, toServer, clientVars, Goto
<1>0. TypeOK /\ Shape
  BY DEF Core
<1>a. \A k \in serving : /\ k \in Conns /\ Sent(k) \in Nat /\ Back(k) \in Nat
                         /\ abandoned[k] \in Nat /\ Awaited(k) \in Nat
  BY CoreFacts DEF Sent, Back, Awaited
<1>1. ASSUME NEW c \in Clients, Get(c)  PROVE Accounted'
  <2>1. \A k \in Conns : Awaited(k)' = Awaited(k) /\ Sent(k)' = Sent(k) /\ Back(k)' = Back(k)
    BY CoreFacts, <1>1 DEF Get, Awaited, Sent, Back
  <2> QED
    BY <1>a, <1>1, <2>1 DEF Get
<1>2. ASSUME NEW c \in Clients, Connect(c)  PROVE Accounted'
  <2>1. \A k \in Conns : Awaited(k)' = Awaited(k) /\ Sent(k)' = Sent(k) /\ Back(k)' = Back(k)
    BY CoreFacts, <1>2 DEF Connect, Awaited, Sent, Back
  <2>2. PICK n \in Conns : n = opened' /\ n > opened /\ n \notin 1..opened
    BY <1>0, <1>2, OpenedConns DEF Connect
  <2>3. Sent(n) = 0 /\ Back(n) = 0 /\ abandoned[n] = 0
    BY <1>0, <2>2 DEF Shape, Sent, Back
  <2>4. Awaited(n) = 0
    BY <1>0, <2>2 DEF Awaited, Shape
  <2>5. serving' = serving \cup {n} /\ UNCHANGED <<garbled, torn, abandoned>>
    BY <1>2, <2>2 DEF Connect
  <2> QED
    BY <1>a, <2>1, <2>3, <2>4, <2>5
<1>3. ASSUME NEW c \in Clients, Lock(c)  PROVE Accounted'
  <2>1. \A k \in Conns : Awaited(k)' = Awaited(k) /\ Sent(k)' = Sent(k) /\ Back(k)' = Back(k)
    BY CoreFacts, <1>3 DEF Lock, Awaited, Sent, Back
  <2> QED
    BY <1>a, <1>3, <2>1 DEF Lock
<1>n. ASSUME NEW c \in Clients, NextId(c)  PROVE Accounted'
  <2>1. \A k \in Conns : Awaited(k)' = Awaited(k) /\ Sent(k)' = Sent(k) /\ Back(k)' = Back(k)
    BY CoreFacts, <1>n DEF NextId, Awaited, Sent, Back
  <2> QED
    BY <1>a, <1>n, <2>1 DEF NextId
<1>4. ASSUME NEW c \in Clients, Write(c)  PROVE Accounted'
  <2>1. PICK k \in Conns : k = using[c] /\ pc[c] = "writing"
    BY CoreFacts, <1>4 DEF Write
  <2>2. Awaited(k) = 0
    BY CoreFacts, <2>1, OneWaits DEF Awaited
  <2>3. Awaited(k)' = 1 /\ \A j \in Conns : j # k => Awaited(j)' = Awaited(j)
    BY CoreFacts, <1>4, <2>1 DEF Write, Awaited
  <2>4. Request(c) \in Asked
    BY <1>0, RequestType
  <2>5. k \notin torn => Sent(k)' = Sent(k) + 1
    BY CoreFacts, <1>0, <1>4, <2>1, <2>4, WholeUnlessTorn, AppendProperties DEF Write, Sent
  <2>6. \A j \in Conns : j # k => Sent(j)' = Sent(j)
    BY CoreFacts, <1>0, <1>4, <2>1, SwallowFacts DEF Write, Sent
  <2>7. UNCHANGED <<serving, garbled, torn, abandoned>> /\ \A j \in Conns : Back(j)' = Back(j)
    BY <1>4 DEF Write, Back
  <2> QED
    BY <1>a, <2>2, <2>3, <2>5, <2>6, <2>7
<1>5. ASSUME NEW c \in Clients, NEW v, Return(c, v), pc[c] # "waiting",
             UNCHANGED <<requests, responses, serving, garbled, torn, abandoned>>
      PROVE  Accounted'
  <2>1. \A k \in Conns : Awaited(k)' = Awaited(k) /\ Sent(k)' = Sent(k) /\ Back(k)' = Back(k)
    BY CoreFacts, <1>5 DEF Return, Awaited, Sent, Back
  <2> QED
    BY <1>a, <1>5, <2>1
<1>6. ASSUME NEW c \in Clients, NEW v, Return(c, v), pc[c] = "waiting", NEW k \in Conns, k = using[c]
      PROVE  /\ Awaited(k) = 1 /\ Awaited(k)' = 0
             /\ \A j \in Conns : j # k => Awaited(j)' = Awaited(j)
  <2>1. Awaited(k) = 1
    BY <1>6 DEF Awaited
  <2>2. Awaited(k)' = 0
    BY CoreFacts, <1>6, OneWaits DEF Return, Awaited
  <2> QED
    BY CoreFacts, <1>6, <2>1, <2>2 DEF Return, Awaited
<1>7. ASSUME NEW c \in Clients, Read(c)  PROVE Accounted'
  <2>1. PICK k \in Conns : k = using[c]
    BY CoreFacts, <1>7 DEF Read
  <2>2. /\ Awaited(k) = 1 /\ Awaited(k)' = 0
        /\ \A j \in Conns : j # k => Awaited(j)' = Awaited(j)
    BY <1>6, <1>7, <2>1 DEF Read
  <2>3. /\ Back(k)' = Back(k) - 1 \/ (k \in garbled /\ Back(k)' = Back(k))
        /\ \A j \in Conns : j # k => Back(j)' = Back(j)
    BY CoreFacts, <1>7, <2>1, HeadTailProperties DEF Read, Back
  <2>4. UNCHANGED <<serving, garbled, torn, abandoned>> /\ \A j \in Conns : Sent(j)' = Sent(j)
    BY <1>7 DEF Read, Sent
  <2> QED
    BY <1>a, <2>2, <2>3, <2>4
<1>8. ASSUME NEW c \in Clients, Closed(c)  PROVE Accounted'
  <2>1. CASE pc[c] = "waiting"
    <3>1. PICK k \in Conns : k = using[c] /\ k \notin serving
      BY CoreFacts, <1>8, <2>1 DEF Closed
    <3>2. \A j \in Conns : j # k => Awaited(j)' = Awaited(j)
      BY <1>6, <1>8, <2>1, <3>1 DEF Closed
    <3>3. \A j \in Conns : Sent(j)' = Sent(j) /\ Back(j)' = Back(j)
      BY <1>8 DEF Closed, Sent, Back
    <3> QED
      BY <1>a, <1>8, <3>1, <3>2, <3>3 DEF Closed
  <2>2. CASE pc[c] # "waiting"
    BY <1>5, <1>8, <2>2 DEF Closed
  <2> QED
    BY <2>1, <2>2
<1>9. ASSUME NEW c \in Clients, ConnectFails(c)  PROVE Accounted'
  BY <1>5, <1>9 DEF ConnectFails
<1>10. ASSUME NEW c \in Clients, Cancel(c) \/ CancelMidRead(c)  PROVE Accounted'
  <2>1. CASE pc[c] = "waiting"
    <3>1. PICK k \in Conns : k = using[c]
      BY CoreFacts, <2>1
    <3>2. \A j \in Conns : abandoned'[j] = IF j = k THEN abandoned[j] + 1 ELSE abandoned[j]
      BY CoreFacts, <1>10, <2>1, <3>1 DEF Cancel, CancelMidRead
    <3>3. UNCHANGED <<requests, responses, serving, torn>> /\ garbled \subseteq garbled' /\ Return(c, Err)
      BY <1>10 DEF Cancel, CancelMidRead
    <3>4. /\ Awaited(k) = 1 /\ Awaited(k)' = 0
          /\ \A j \in Conns : j # k => Awaited(j)' = Awaited(j)
      BY <1>6, <2>1, <3>1, <3>3
    <3>5. \A j \in Conns : Sent(j)' = Sent(j) /\ Back(j)' = Back(j)
      BY <3>3 DEF Sent, Back
    <3> QED
      BY <1>a, <3>2, <3>3, <3>4, <3>5
  <2>2. CASE pc[c] # "waiting"
    BY <1>5, <1>10, <2>2 DEF Cancel, CancelMidRead
  <2> QED
    BY <2>1, <2>2
<1>z. ASSUME NEW c \in Clients, CancelMidWrite(c)  PROVE Accounted'
  <2>1. PICK k \in Conns : k = using[c] /\ pc[c] = "writing"
    BY CoreFacts, <1>z DEF CancelMidWrite
  <2>2. \A j \in Conns : Awaited(j)' = Awaited(j)
    BY CoreFacts, <1>z, <2>1 DEF CancelMidWrite, Return, Awaited
  <2>3. \A j \in Conns : j # k => Sent(j)' = Sent(j)
    BY CoreFacts, <1>0, <1>z, <2>1, SwallowFacts DEF CancelMidWrite, Sent
  <2>4. /\ UNCHANGED <<serving, garbled, abandoned>> /\ torn' = torn \cup {k}
        /\ \A j \in Conns : Back(j)' = Back(j)
    BY <1>z, <2>1 DEF CancelMidWrite, Back
  <2> QED
    BY <1>a, <2>2, <2>3, <2>4
<1>11. ASSUME NEW k \in Conns, Handle(k)  PROVE Accounted'
  <2>1. \A j \in Conns : Awaited(j)' = Awaited(j)
    BY <1>11 DEF Handle, Awaited
  <2>2. Head(requests[k]) \in Asked /\ Len(Tail(requests[k])) = Len(requests[k]) - 1
    BY CoreFacts, <1>11, HeadTailProperties DEF Handle
  <2>3. Sent(k)' = Sent(k) - 1 /\ \A j \in Conns : j # k => Sent(j)' = Sent(j)
    BY CoreFacts, <1>11, <2>2 DEF Handle, Sent
  <2>4. Back(k)' = Back(k) + 1 /\ \A j \in Conns : j # k => Back(j)' = Back(j)
    BY CoreFacts, <1>11, <2>2, AnswerType, AppendProperties DEF Handle, Back
  <2>5. UNCHANGED <<serving, garbled, torn, abandoned>>
    BY <1>11 DEF Handle
  <2> QED
    BY <1>a, <2>1, <2>3, <2>4, <2>5
<1>12. ASSUME NEW k \in Conns, HandlerFails(k) \/ Misread(k) \/ HandleEof(k)  PROVE Accounted'
  <2>1. \A j \in Conns : Awaited(j)' = Awaited(j)
    BY <1>12 DEF HandlerFails, Misread, HandleEof, Awaited
  <2>2. \A j \in Conns : j # k =>
          Sent(j)' = Sent(j) /\ Back(j)' = Back(j) /\ abandoned'[j] = abandoned[j]
    BY CoreFacts, <1>12 DEF HandlerFails, Misread, HandleEof, Sent, Back
  <2> QED
    BY <1>a, <1>12, <2>1, <2>2 DEF HandlerFails, Misread, HandleEof
<1>13. CASE RemoveConnection \/ UNCHANGED vars
  <2>1. \A k \in Conns : Awaited(k)' = Awaited(k) /\ Sent(k)' = Sent(k) /\ Back(k)' = Back(k)
    BY <1>13 DEF RemoveConnection, vars, Awaited, Sent, Back
  <2> QED
    BY <1>a, <1>13, <2>1 DEF RemoveConnection, vars
<1> QED
  BY <1>1, <1>2, <1>3, <1>n, <1>4, <1>7, <1>8, <1>9, <1>10, <1>z, <1>11, <1>12, <1>13
  DEF Next, ClientStep, ServerStep

(* A waiting call's answer stays in place: the mutex keeps every other call *)
(* off its connection, and the server answers in order and under the same   *)
(* id.                                                                      *)
LEMMA InPlaceStep == Core /\ Accounted /\ AnswersInPlace /\ [Next]_vars => AnswersInPlace'
<1> SUFFICES ASSUME Core, Accounted, AnswersInPlace, [Next]_vars  PROVE AnswersInPlace'
  OBVIOUS
<1> USE DEF connVars, toServer, clientVars, Goto
<1>0. TypeOK /\ Shape
  BY DEF Core
<1>a. ASSUME NEW d \in Clients, NEW k \in Conns, InPlace(d, k),
             id'[d] = id[d], calls'[d] = calls[d], next_id'[k] = next_id[k], torn \subseteq torn',
             requests'[k] = requests[k], cut'[k] = cut[k], responses'[k] = responses[k],
             abandoned'[k] = abandoned[k]
      PROVE  InPlace(d, k)'
  BY <1>a DEF InPlace, OwnIds, Behind, Sent, Back, ThisCall
<1>1. ASSUME NEW c \in Clients, Get(c) \/ Connect(c) \/ Lock(c)  PROVE AnswersInPlace'
  <2> SUFFICES ASSUME NEW d \in Clients, NEW k \in Conns, using'[d] = k, pc'[d] \in {"writing", "waiting"}
               PROVE  InPlace(d, k)'
    BY DEF AnswersInPlace
  <2>1. d # c /\ pc[d] \in {"writing", "waiting"} /\ using[d] = k
    BY CoreFacts, <1>1 DEF Get, Connect, Lock
  <2> QED
    BY CoreFacts, <1>a, <1>1, <2>1 DEF Get, Connect, Lock, AnswersInPlace, Core, TypeOK
<1>n. ASSUME NEW c \in Clients, NextId(c)  PROVE AnswersInPlace'
  <2> SUFFICES ASSUME NEW d \in Clients, NEW k \in Conns, using'[d] = k, pc'[d] \in {"writing", "waiting"}
               PROVE  InPlace(d, k)'
    BY DEF AnswersInPlace
  <2>1. CASE d # c
    <3>1. pc[d] \in {"writing", "waiting"} /\ using[d] = k /\ using[c] \in Conns /\ using[c] # k
      BY CoreFacts, <1>n, <2>1, OneWaits DEF NextId
    <3> QED
      BY CoreFacts, <1>a, <1>n, <2>1, <3>1 DEF NextId, AnswersInPlace
  <2>2. CASE d = c
    <3>1. using[c] = k /\ pc[c] = "locked"
      BY CoreFacts, <1>n, <2>2 DEF NextId
    <3>2. /\ id'[c] = next_id[k] /\ next_id'[k] = next_id[k] + 1 /\ next_id[k] \in Nat
          /\ UNCHANGED <<requests, cut, responses>>
      BY CoreFacts, <1>n, <3>1 DEF NextId
    <3>3. /\ \A m \in Range(requests[k]) \cup Range(cut[k]) \cup Range(responses[k]) :
               m.id \in Nat /\ m.id < next_id[k]
          /\ \A i \in 1..Sent(k) : requests[k][i].id \in Nat /\ requests[k][i].id < next_id[k]
          /\ \A i \in 1..Back(k) : responses[k][i].id \in Nat /\ responses[k][i].id < next_id[k]
      BY IdsBelow DEF Core, Sent, Back
    <3>4. OwnIds(c, k)'
      BY <3>2, <3>3 DEF OwnIds
    <3>5. Behind(c, k)'
      BY <3>2, <3>3 DEF Behind, Sent, Back
    <3> QED
      BY <2>2, <3>4, <3>5 DEF InPlace
  <2> QED
    BY <2>1, <2>2
<1>2. ASSUME NEW c \in Clients, Write(c)  PROVE AnswersInPlace'
  <2> SUFFICES ASSUME NEW d \in Clients, NEW k \in Conns, using'[d] = k, pc'[d] \in {"writing", "waiting"}
               PROVE  InPlace(d, k)'
    BY DEF AnswersInPlace
  <2>0. /\ using[c] \in Conns /\ pc[c] = "writing"
        /\ UNCHANGED <<id, next_id, torn, responses, abandoned, calls, using>>
    BY CoreFacts, <1>2 DEF Write
  <2>1. CASE d # c
    <3>1. pc[d] \in {"writing", "waiting"} /\ using[d] = k /\ using[c] # k
      BY CoreFacts, <1>2, <2>0, <2>1, OneWaits DEF Write
    <3>2. requests'[k] = requests[k] /\ cut'[k] = cut[k]
      BY CoreFacts, <1>0, <1>2, <2>0, <3>1, SwallowFacts DEF Write
    <3> QED
      BY <1>a, <2>0, <3>1, <3>2 DEF AnswersInPlace
  <2>2. CASE d = c /\ ~ AtBoundary(k)
    <3>1. InPlace(c, k) /\ Swallow(k)
      BY <1>2, <2>0, <2>2 DEF Write, AnswersInPlace
    <3>2. /\ Range(requests'[k]) \subseteq Range(requests[k]) \cup Range(cut[k])
          /\ Range(cut'[k]) \subseteq Range(cut[k]) /\ k \in torn
      BY <1>0, <2>2, <3>1, SwallowFacts
    <3>3. OwnIds(c, k)'
      BY <2>0, <3>1, <3>2 DEF InPlace, OwnIds, ThisCall
    <3> QED
      BY <2>0, <2>2, <3>2, <3>3 DEF InPlace
  <2>3. CASE d = c /\ AtBoundary(k)
    <3> DEFINE m == Request(c)
    <3>1. InPlace(c, k) /\ k \in serving /\ cut' = cut
      BY <1>2, <2>0, <2>3 DEF Write, AnswersInPlace
    <3>2. m \in Asked /\ m.id = id[c] /\ m.call = ThisCall(c) /\ m.type = Kind[c]
      BY <1>0, RequestType
    <3>3. requests[k] \in Seq(Asked) /\ requests'[k] = Append(requests[k], m)
      BY CoreFacts, <1>2, <2>0, <2>3 DEF Write
    <3>4. Range(requests'[k]) = Range(requests[k]) \cup {m}
      BY <3>2, <3>3, RangeOfAppend
    <3>5. /\ Sent(k)' = Sent(k) + 1 /\ Back(k)' = Back(k)
          /\ \A i \in 1..Sent(k) : requests'[k][i] = requests[k][i]
          /\ Sent(k) \in Nat /\ Back(k) \in Nat /\ abandoned[k] \in Nat
      BY CoreFacts, <2>0, <3>2, <3>3, AppendProperties DEF Sent, Back
    <3> HIDE DEF m
    <3>6. OwnIds(c, k)'
      BY <2>0, <3>1, <3>2, <3>4 DEF InPlace, OwnIds, ThisCall
    <3>7. ASSUME k \notin torn  PROVE Behind(c, k)'
      <4>1. Back(k) + Sent(k) >= abandoned[k] + Awaited(k) /\ Awaited(k) \in Nat
        BY <3>1, <3>5, <3>7 DEF Accounted, Awaited
      <4>2. Back(k) + Sent(k) >= abandoned[k]
        BY <3>5, <4>1
      <4>3. Behind(c, k)
        BY <3>1, <3>7 DEF InPlace
      <4>4. ASSUME NEW i \in 1..Sent(k)', requests'[k][i].id = id[c]
            PROVE  Back(k) + i > abandoned[k]
        <5>1. CASE i \in 1..Sent(k)
          BY <3>5, <4>3, <4>4, <5>1 DEF Behind
        <5>2. CASE i = Sent(k) + 1
          BY <3>5, <4>2, <5>2
        <5> QED
          BY <3>5, <5>1, <5>2
      <4> QED
        BY <2>0, <3>5, <4>3, <4>4 DEF Behind
    <3> QED
      BY <2>0, <2>3, <3>6, <3>7 DEF InPlace
  <2> QED
    BY <2>1, <2>2, <2>3
<1>3. ASSUME NEW c \in Clients, NEW v, Return(c, v), next_id' = next_id, torn \subseteq torn',
             \A k \in Conns : k # using[c] \/ pc[c] \notin {"writing", "waiting"} =>
               /\ requests'[k] = requests[k] /\ cut'[k] = cut[k]
               /\ responses'[k] = responses[k] /\ abandoned'[k] = abandoned[k]
      PROVE  AnswersInPlace'
  <2> SUFFICES ASSUME NEW d \in Clients, NEW k \in Conns, using'[d] = k, pc'[d] \in {"writing", "waiting"}
               PROVE  InPlace(d, k)'
    BY DEF AnswersInPlace
  <2>1. d # c /\ pc[d] \in {"writing", "waiting"} /\ using[d] = k
    BY CoreFacts, <1>3 DEF Return
  <2>2. k # using[c] \/ pc[c] \notin {"writing", "waiting"}
    BY CoreFacts, <2>1, OneWaits
  <2>3. id'[d] = id[d] /\ calls'[d] = calls[d]
    BY CoreFacts, <1>3, <2>1 DEF Return
  <2> QED
    BY <1>a, <1>3, <2>1, <2>2, <2>3 DEF AnswersInPlace
<1>4. ASSUME NEW c \in Clients, Read(c)  PROVE AnswersInPlace'
  BY CoreFacts, <1>3, <1>4 DEF Read
<1>5. ASSUME NEW c \in Clients, Closed(c) \/ ConnectFails(c)  PROVE AnswersInPlace'
  BY <1>3, <1>5 DEF Closed, ConnectFails
<1>6. ASSUME NEW c \in Clients, Cancel(c) \/ CancelMidRead(c)  PROVE AnswersInPlace'
  BY CoreFacts, <1>3, <1>6 DEF Cancel, CancelMidRead
<1>z. ASSUME NEW c \in Clients, CancelMidWrite(c)  PROVE AnswersInPlace'
  <2>1. using[c] \in Conns /\ pc[c] = "writing"
    BY CoreFacts, <1>z DEF CancelMidWrite
  <2>2. \A k \in Conns : k # using[c] => requests'[k] = requests[k] /\ cut'[k] = cut[k]
    BY CoreFacts, <1>0, <1>z, <2>1, SwallowFacts DEF CancelMidWrite, Shape
  <2> QED
    BY <1>3, <1>z, <2>1, <2>2 DEF CancelMidWrite
<1>7. ASSUME NEW k \in Conns, Handle(k)  PROVE AnswersInPlace'
  <2> SUFFICES ASSUME NEW d \in Clients, NEW j \in Conns, InPlace(d, j)
               PROVE  InPlace(d, j)'
    BY <1>7 DEF AnswersInPlace, Handle
  <2>1. CASE j # k
    BY CoreFacts, <1>a, <1>7, <2>1 DEF Handle
  <2>2. CASE j = k
    <3> DEFINE m == Head(requests[k])  a == Message(ResponseType(m.type), m.id, m.call)
    <3>1. /\ requests[k] \in Seq(Asked) /\ requests[k] # <<>> /\ responses[k] \in Seq(Answers)
          /\ m \in Asked /\ m = requests[k][1] /\ Sent(k) >= 1 /\ Sent(k) \in Nat /\ Back(k) \in Nat
          /\ abandoned[k] \in Nat
      BY CoreFacts, <1>7, HeadTailProperties DEF Handle, Sent, Back
    <3>2. a \in Answers /\ a.id = m.id /\ a.call = m.call /\ a.type = ResponseType(m.type)
      BY <3>1, AnswerType DEF Message
    <3>3. /\ Sent(k)' = Sent(k) - 1
          /\ \A i \in 1..Sent(k)' : requests'[k][i] = requests[k][i + 1]
      BY CoreFacts, <1>7, HeadTailProperties DEF Handle, Sent
    <3>4. /\ Back(k)' = Back(k) + 1 /\ responses'[k][Back(k) + 1] = a
          /\ \A i \in 1..Back(k) : responses'[k][i] = responses[k][i]
      BY CoreFacts, <1>7, <3>2, AppendProperties DEF Handle, Back
    <3>5. /\ id' = id /\ next_id' = next_id /\ abandoned' = abandoned /\ torn' = torn /\ cut' = cut
          /\ ThisCall(d)' = ThisCall(d)
      BY <1>7 DEF Handle, ThisCall
    <3>6. /\ Range(requests'[k]) \subseteq Range(requests[k]) /\ m \in Range(requests[k])
          /\ Range(responses'[k]) = Range(responses[k]) \cup {a}
      BY CoreFacts, <1>7, <3>1, <3>2, RangeOfTail, RangeOfAppend DEF Handle
    <3> HIDE DEF m, a
    <3>7. OwnIds(d, k)'
      BY <2>2, <3>2, <3>5, <3>6 DEF InPlace, OwnIds
    <3>8. ASSUME k \notin torn  PROVE Behind(d, k)'
      <4>1. Behind(d, k)
        BY <2>2, <3>8 DEF InPlace
      <4>2. ASSUME NEW i \in 1..Sent(k)', requests'[k][i].id = id[d]
            PROVE  Back(k)' + i > abandoned[k]
        <5>1. i \in Nat /\ i + 1 \in 1..Sent(k) /\ requests'[k][i] = requests[k][i + 1]
          BY <3>1, <3>3
        <5>2. Back(k) + (i + 1) > abandoned[k]
          BY <4>1, <4>2, <5>1 DEF Behind
        <5> QED
          BY <3>1, <3>4, <5>1, <5>2
      <4>3. ASSUME NEW i \in 1..Back(k)', responses'[k][i].id = id[d]
            PROVE  i > abandoned[k]
        <5>1. CASE i \in 1..Back(k)
          BY <3>4, <4>1, <4>3, <5>1 DEF Behind
        <5>2. CASE i = Back(k) + 1
          <6>1. 1 \in 1..Sent(k) /\ requests[k][1].id = id[d]
            BY <3>1, <3>2, <3>4, <4>3, <5>2
          <6> QED
            BY <4>1, <5>2, <6>1 DEF Behind
        <5> QED
          BY <3>1, <3>4, <5>1, <5>2
      <4> QED
        BY <3>5, <4>2, <4>3 DEF Behind
    <3> QED
      BY <2>2, <3>5, <3>7, <3>8 DEF InPlace
  <2> QED
    BY <2>1, <2>2
<1>8. ASSUME NEW k \in Conns, HandlerFails(k)  PROVE AnswersInPlace'
  <2> SUFFICES ASSUME NEW d \in Clients, NEW j \in Conns, InPlace(d, j)
               PROVE  InPlace(d, j)'
    BY <1>8 DEF AnswersInPlace, HandlerFails
  <2>1. CASE j # k
    BY CoreFacts, <1>a, <1>8, <2>1 DEF HandlerFails
  <2>2. CASE j = k
    <3>1. requests'[k] = <<>> /\ Sent(k)' = 0 /\ Back(k)' = Back(k)
      BY CoreFacts, <1>8 DEF HandlerFails, Sent, Back
    <3> QED
      BY <1>8, <2>2, <3>1, RangeOfNothing DEF HandlerFails, InPlace, OwnIds, Behind, ThisCall
  <2> QED
    BY <2>1, <2>2
<1>9. ASSUME NEW k \in Conns, Misread(k) \/ HandleEof(k)  PROVE AnswersInPlace'
  <2> SUFFICES ASSUME NEW d \in Clients, NEW j \in Conns, using[d] = j, InPlace(d, j)
               PROVE  InPlace(d, j)'
    BY <1>9 DEF AnswersInPlace, Misread, HandleEof
  <2>1. Misread(k) \/ j # k
    BY <1>9 DEF HandleEof, Dropped
  <2> QED
    BY CoreFacts, <1>a, <1>9, <2>1 DEF Misread, HandleEof
<1>10. CASE RemoveConnection \/ UNCHANGED vars
  BY <1>a, <1>10 DEF RemoveConnection, vars, AnswersInPlace
<1> QED
  BY <1>1, <1>n, <1>2, <1>4, <1>5, <1>6, <1>z, <1>7, <1>8, <1>9, <1>10 DEF Next, ClientStep, ServerStep

(* A response that is returned stood first in the stream, under the id of  *)
(* the call.                                                               *)
LEMMA ReturnedResponse ==
  ASSUME Core, AnswersInPlace, NEW c \in Clients, Read(c), result'[c] # Err
  PROVE  /\ result'[c] = <<Head(responses[using[c]])>>
         /\ Head(responses[using[c]]).call = ThisCall(c)
         /\ Head(responses[using[c]]).type = ResponseType(Kind[c])
         /\ using[c] \notin torn => abandoned[using[c]] = 0
<1>1. PICK k \in Conns : k = using[c] /\ pc[c] = "waiting"
  BY CoreFacts DEF Read
<1>2. result'[c] = <<Head(responses[k])>> /\ Head(responses[k]).id = id[c]
  BY <1>1 DEF Read, Return, Err, Core, Shape
<1>3. /\ Head(responses[k]) = responses[k][1] /\ 1 \in 1..Back(k) /\ abandoned[k] \in Nat
      /\ Head(responses[k]) \in Range(responses[k])
  BY CoreFacts, <1>1, RangeOfTail DEF Read, Back
<1>4. InPlace(c, k)
  BY <1>1 DEF AnswersInPlace
<1>5. Head(responses[k]).call = ThisCall(c) /\ Head(responses[k]).type = ResponseType(Kind[c])
  BY <1>2, <1>3, <1>4 DEF InPlace, OwnIds
<1>6. ASSUME k \notin torn  PROVE abandoned[k] = 0
  <2>1. 1 > abandoned[k]
    BY <1>2, <1>3, <1>4, <1>6 DEF InPlace, Behind
  <2> QED
    BY <1>3, <2>1
<1> QED
  BY <1>1, <1>2, <1>3, <1>5, <1>6

LEMMA ResponseStep == Core /\ AnswersInPlace /\ OwnResponse /\ [Next]_vars => OwnResponse'
<1> SUFFICES ASSUME Core, AnswersInPlace, OwnResponse, [Next]_vars  PROVE OwnResponse'
  OBVIOUS
<1> USE DEF connVars, toServer, clientVars
<1>a. result \in [Clients -> Seq(Answers)] /\ calls \in [Clients -> Nat] /\ Range(<<>>) = {}
  BY DEF Core, Shape, TypeOK, Range
<1>1. ASSUME NEW c \in Clients, Get(c)  PROVE OwnResponse'
  BY <1>a, <1>1 DEF Get, OwnResponse, ThisCall
<1>2. ASSUME NEW c \in Clients, Return(c, Err)  PROVE OwnResponse'
  BY <1>a, <1>2 DEF Return, Err, OwnResponse, ThisCall
<1>3. ASSUME NEW c \in Clients, Read(c)  PROVE OwnResponse'
  <2>1. CASE result'[c] = Err
    BY <1>a, <1>3, <2>1 DEF Read, Return, Err, OwnResponse, ThisCall
  <2>2. CASE result'[c] # Err
    <3>1. \A m \in Range(result'[c]) : m.call = ThisCall(c) /\ m.type = ResponseType(Kind[c])
      BY <1>3, <2>2, ReturnedResponse DEF Range
    <3>2. /\ \A d \in Clients : d # c => result'[d] = result[d]
          /\ calls' = calls
      BY <1>a, <1>3 DEF Read, Return
    <3> QED
      BY <3>1, <3>2 DEF OwnResponse, ThisCall
  <2> QED
    BY <2>1, <2>2
<1>4. ASSUME NEW c \in Clients,
             Closed(c) \/ ConnectFails(c) \/ Cancel(c) \/ CancelMidWrite(c) \/ CancelMidRead(c)
      PROVE  OwnResponse'
  BY <1>2, <1>4 DEF Closed, ConnectFails, Cancel, CancelMidWrite, CancelMidRead
<1>5. ASSUME NEW c \in Clients, Connect(c) \/ Lock(c) \/ NextId(c) \/ Write(c)  PROVE OwnResponse'
  BY <1>5 DEF Connect, Lock, NextId, Write, OwnResponse, ThisCall
<1>6. ASSUME NEW k \in Conns, Handle(k) \/ HandlerFails(k) \/ Misread(k) \/ HandleEof(k)
      PROVE  OwnResponse'
  BY <1>6 DEF Handle, HandlerFails, Misread, HandleEof, OwnResponse, ThisCall
<1>7. CASE RemoveConnection \/ UNCHANGED vars
  BY <1>7 DEF RemoveConnection, vars, OwnResponse, ThisCall
<1> QED
  BY <1>1, <1>3, <1>4, <1>5, <1>6, <1>7 DEF Next, ClientStep, ServerStep

-----------------------------------------------------------------------------
Inv == Core /\ Accounted /\ AnswersInPlace /\ OwnResponse

LEMMA TransportInvariant == Spec => []Inv
<1>1. Init => Inv
  BY InitInv DEF Inv
<1>2. Inv /\ [Next]_vars => Inv'
  BY CoreStep, AccountStep, InPlaceStep, ResponseStep DEF Inv
<1> QED
  BY <1>1, <1>2, PTL DEF Spec

(* The types, and the account of every open stream, for any number of      *)
(* clients of a ConnectionPool: requests and answers under way on a        *)
(* connection are one for the call that holds its mutex and waits, and one *)
(* for each request that was abandoned, as long as no response was half    *)
(* read; at least as many as long as no request was half written.          *)
THEOREM StreamsAccounted == Spec => []StreamInv
<1>1. Inv => StreamInv
  <2> SUFFICES ASSUME Inv  PROVE StreamAccounted
    BY DEF StreamInv, Inv, Core
  <2> SUFFICES ASSUME NEW k \in serving \ torn
               PROVE  Cardinality({c \in Clients : using[c] = k /\ pc[c] = "waiting"}) = Awaited(k)
    BY DEF StreamAccounted, Inv, Accounted, Sent, Back
  <2> DEFINE S == {c \in Clients : using[c] = k /\ pc[c] = "waiting"}
  <2>1. \A c, d \in S : c = d
    BY CoreFacts, OneWaits DEF Inv
  <2>2. Awaited(k) = IF \E c \in S : TRUE THEN 1 ELSE 0
    BY DEF Awaited
  <2> HIDE DEF S
  <2>3. Cardinality(S) = Awaited(k)
    BY <2>1, <2>2, AtMostOne
  <2> QED
    BY <2>3 DEF S
<1> QED
  BY <1>1, TransportInvariant, PTL

(* What send_request returns is the answer to the call's own request, for  *)
(* any number of callers that share connections and drop calls at any      *)
(* await, half-written requests included.                                  *)
THEOREM ResponsesAreOwn == Spec => []OwnResponse
<1>1. Inv => OwnResponse
  BY DEF Inv
<1> QED
  BY <1>1, TransportInvariant, PTL

(* A connection on which a request was abandoned never answers again, as   *)
(* long as no request on it was half written: the answer to a later call   *)
(* stands behind those of the abandoned ones, and send_request compares    *)
(* the id of the first one only.                                           *)
THEOREM AbandonedStaysUseless == Spec => AbandonedNeverRecovers
<1> DEFINE Useless == \A c \in Clients :
              pc[c] = "waiting" /\ result'[c] # Err => abandoned[using[c]] = 0 \/ using[c] \in torn
<1>1. Inv /\ [Next]_vars => [Useless]_vars
  <2> SUFFICES ASSUME Inv, Next, NEW c \in Clients, pc[c] = "waiting", result'[c] # Err
               PROVE  abandoned[using[c]] = 0 \/ using[c] \in torn
    OBVIOUS
  <2>1. result[c] = Err /\ result \in [Clients -> Seq(Answers)]
    BY DEF Inv, Core, Shape
  <2>2. Read(c)
    BY <2>1 DEF Next, ClientStep, ServerStep, Get, Connect, Lock, NextId, Write, Read, Closed, ConnectFails,
         Cancel, CancelMidWrite, CancelMidRead, Return, RemoveConnection, Handle, HandlerFails, Misread,
         HandleEof, clientVars, Err
  <2> QED
    BY <2>2, ReturnedResponse DEF Inv
<1> QED
  BY <1>1, TransportInvariant, PTL DEF Spec, AbandonedNeverRecovers

-----------------------------------------------------------------------------
(* While the breaker is open, whoever is about to take it out of that      *)
(* state either read it before it opened or has seen the timeout elapse.   *)
OpenGuard ==
  state = "Open" => \A c \in Callers :
    /\ at[c] \in {"ok_half", "closing"} => c \in stale
    /\ at[c] = "reopening" => c \in stale \/ age >= Timeout

LEMMA BreakerInitInv == BreakerInit => BreakerInv /\ OpenGuard
BY BreakerAssumption
   DEF BreakerInit, BreakerInv, BreakerTypeOK, States, ThresholdOpens, ThresholdCloses, OpenGuard

LEMMA BreakerTypeStep == BreakerTypeOK /\ [BreakerNext]_breakerVars => BreakerTypeOK'
<1> SUFFICES ASSUME BreakerTypeOK, [BreakerNext]_breakerVars  PROVE BreakerTypeOK'
  OBVIOUS
<1> USE BreakerAssumption DEF BreakerTypeOK, States, Move, Fresh, breaker
<1>1. ASSUME NEW c \in Callers, CanProceed(c)  PROVE BreakerTypeOK'
  BY <1>1 DEF CanProceed
<1>2. ASSUME NEW c \in Callers, CheckTimeout(c)  PROVE BreakerTypeOK'
  BY <1>2 DEF CheckTimeout
<1>3. ASSUME NEW c \in Callers, TransitionToHalfOpen(c)  PROVE BreakerTypeOK'
  BY <1>3 DEF TransitionToHalfOpen
<1>4. ASSUME NEW c \in Callers, Operation(c)  PROVE BreakerTypeOK'
  BY <1>4 DEF Operation
<1>5. ASSUME NEW c \in Callers, ResetFailures(c)  PROVE BreakerTypeOK'
  BY <1>5 DEF ResetFailures, Succeed
<1>6. ASSUME NEW c \in Callers, CountSuccess(c)  PROVE BreakerTypeOK'
  BY <1>6 DEF CountSuccess, Succeed
<1>7. ASSUME NEW c \in Callers, TransitionToClosed(c)  PROVE BreakerTypeOK'
  BY <1>7 DEF TransitionToClosed, Succeed
<1>8. ASSUME NEW c \in Callers, CountFailure(c)  PROVE BreakerTypeOK'
  BY <1>8 DEF CountFailure
<1>9. ASSUME NEW c \in Callers, TransitionToOpen(c)  PROVE BreakerTypeOK'
  BY <1>9 DEF TransitionToOpen
<1>10. ASSUME NEW c \in Callers, Retry(c)  PROVE BreakerTypeOK'
  BY <1>10 DEF Retry
<1>11. ASSUME NEW c \in Callers, Wake(c) \/ TimeOut(c)  PROVE BreakerTypeOK'
  BY <1>11 DEF Wake, TimeOut
<1>12. CASE Tick
  BY <1>12 DEF Tick
<1>13. CASE Flip
  BY <1>13 DEF Flip
<1>14. CASE UNCHANGED breakerVars
  BY <1>14 DEF breakerVars
<1> QED
  BY <1>1, <1>2, <1>3, <1>4, <1>5, <1>6, <1>7, <1>8, <1>9, <1>10, <1>11, <1>12, <1>13, <1>14
  DEF BreakerNext, Step

(* A threshold that is reached has its transition on the way: the call     *)
(* that reaches it keeps its at until it makes the transition itself.      *)
LEMMA ThresholdStep ==
  BreakerInv /\ [BreakerNext]_breakerVars => ThresholdOpens' /\ ThresholdCloses'
<1> SUFFICES ASSUME BreakerInv, [BreakerNext]_breakerVars  PROVE ThresholdOpens' /\ ThresholdCloses'
  OBVIOUS
<1> USE BreakerAssumption DEF BreakerInv, BreakerTypeOK, Move, breaker, ThresholdOpens, ThresholdCloses
<1>1. ASSUME NEW c \in Callers,
             CanProceed(c) \/ CheckTimeout(c) \/ Operation(c) \/ Retry(c) \/ Wake(c) \/ TimeOut(c)
      PROVE  ThresholdOpens' /\ ThresholdCloses'
  BY <1>1 DEF CanProceed, CheckTimeout, Operation, Retry, Wake, TimeOut
<1>2. ASSUME NEW c \in Callers, TransitionToHalfOpen(c)  PROVE ThresholdOpens' /\ ThresholdCloses'
  BY <1>2 DEF TransitionToHalfOpen
<1>3. ASSUME NEW c \in Callers, ResetFailures(c)  PROVE ThresholdOpens' /\ ThresholdCloses'
  BY <1>3 DEF ResetFailures
<1>4. ASSUME NEW c \in Callers, CountSuccess(c)  PROVE ThresholdOpens' /\ ThresholdCloses'
  BY <1>4 DEF CountSuccess
<1>5. ASSUME NEW c \in Callers, TransitionToClosed(c)  PROVE ThresholdOpens' /\ ThresholdCloses'
  BY <1>5 DEF TransitionToClosed
<1>6. ASSUME NEW c \in Callers, CountFailure(c)  PROVE ThresholdOpens' /\ ThresholdCloses'
  BY <1>6 DEF CountFailure
<1>7. ASSUME NEW c \in Callers, TransitionToOpen(c)  PROVE ThresholdOpens' /\ ThresholdCloses'
  BY <1>7 DEF TransitionToOpen
<1>8. CASE Tick \/ Flip \/ UNCHANGED breakerVars
  BY <1>8 DEF Tick, Flip, breakerVars
<1> QED
  BY <1>1, <1>2, <1>3, <1>4, <1>5, <1>6, <1>7, <1>8 DEF BreakerNext, Step

(* TransitionToOpen marks the calls that are about to leave the state;     *)
(* afterwards a call becomes one of them only in another state, or after   *)
(* it has compared the age of this one.                                    *)
LEMMA GuardStep == BreakerTypeOK /\ OpenGuard /\ [BreakerNext]_breakerVars => OpenGuard'
<1> SUFFICES ASSUME BreakerTypeOK, OpenGuard, [BreakerNext]_breakerVars  PROVE OpenGuard'
  OBVIOUS
<1> USE BreakerAssumption DEF BreakerTypeOK, Move, Fresh, breaker, OpenGuard
<1>1. ASSUME NEW c \in Callers, CanProceed(c) \/ CheckTimeout(c)  PROVE OpenGuard'
  BY <1>1 DEF CanProceed, CheckTimeout
<1>2. ASSUME NEW c \in Callers, Operation(c)  PROVE OpenGuard'
  BY <1>2 DEF Operation
<1>3. ASSUME NEW c \in Callers, TransitionToHalfOpen(c) \/ TransitionToClosed(c)  PROVE OpenGuard'
  BY <1>3 DEF TransitionToHalfOpen, TransitionToClosed
<1>4. ASSUME NEW c \in Callers, ResetFailures(c) \/ CountSuccess(c)  PROVE OpenGuard'
  BY <1>4 DEF ResetFailures, CountSuccess
<1>5. ASSUME NEW c \in Callers, TransitionToOpen(c)  PROVE OpenGuard'
  BY <1>5 DEF TransitionToOpen
<1>6. ASSUME NEW c \in Callers, CountFailure(c) \/ Retry(c) \/ Wake(c) \/ TimeOut(c)  PROVE OpenGuard'
  BY <1>6 DEF CountFailure, Retry, Wake, TimeOut
<1>7. CASE Tick \/ Flip \/ UNCHANGED breakerVars
  BY <1>7 DEF Tick, Flip, breakerVars
<1> QED
  BY <1>1, <1>2, <1>3, <1>4, <1>5, <1>6, <1>7 DEF BreakerNext, Step

-----------------------------------------------------------------------------
(* Counters and state agree in every reachable state, for any number of    *)
(* callers of record_success, record_failure and can_proceed: whenever     *)
(* failure_count or success_count has reached its threshold in a state     *)
(* where that matters, some call is about to make the transition.          *)
THEOREM BreakerInvariant == BreakerSpec => []BreakerInv
<1>1. BreakerInit => BreakerInv
  BY BreakerInitInv
<1>2. BreakerInv /\ [BreakerNext]_breakerVars => BreakerInv'
  BY BreakerTypeStep, ThresholdStep DEF BreakerInv
<1> QED
  BY <1>1, <1>2, PTL DEF BreakerSpec

(* An open breaker admits nobody before its timeout: it leaves the Open    *)
(* state early only through a call that had read the state or the elapsed  *)
(* time before the breaker opened, for any number of callers.              *)
THEOREM BreakerStaysOpen == BreakerSpec => OpenUntilTimeout
<1> DEFINE Early == state = "Open" /\ state' # "Open" =>
                      age >= Timeout \/ \E c \in stale : at'[c] # at[c]
<1>1. BreakerInit => BreakerTypeOK /\ OpenGuard
  BY BreakerInitInv DEF BreakerInv
<1>2. BreakerTypeOK /\ OpenGuard /\ [BreakerNext]_breakerVars => (BreakerTypeOK /\ OpenGuard)'
  BY BreakerTypeStep, GuardStep
<1>3. BreakerTypeOK /\ OpenGuard /\ [BreakerNext]_breakerVars => [Early]_breakerVars
  <2> SUFFICES ASSUME BreakerTypeOK, OpenGuard, BreakerNext, state = "Open", state' # "Open"
               PROVE  age >= Timeout \/ \E c \in stale : at'[c] # at[c]
    OBVIOUS
  <2>1. PICK c \in Callers : TransitionToHalfOpen(c) \/ TransitionToClosed(c)
    BY DEF BreakerNext, Step, CanProceed, CheckTimeout, Operation, ResetFailures, CountSuccess, CountFailure,
           TransitionToOpen, Retry, Wake, TimeOut, Tick, Flip, breaker
  <2>2. at[c] \in {"reopening", "closing"} /\ at'[c] # at[c]
    BY <2>1 DEF TransitionToHalfOpen, TransitionToClosed, Move, BreakerTypeOK
  <2> QED
    BY <2>2 DEF OpenGuard
<1> QED
  BY <1>1, <1>2, <1>3, PTL DEF BreakerSpec, OpenUntilTimeout
=============================================================================
