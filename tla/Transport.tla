------------------------------ MODULE Transport ------------------------------
(***************************************************************************)
(* Request and response over pooled TCP connections                        *)
(* (src/src/network.rs): ConnectionPool, Connection::send_request and      *)
(* NetworkServer::handle_connection, for one remote address.               *)
(*                                                                         *)
(* Clients share the pooled connection behind its mutex.  A caller may     *)
(* drop a call at any await, as with_timeout does.  The answer of a        *)
(* request that was written whole then stays in the stream; a response     *)
(* that was half read leaves bytes there that do not decode; and behind a  *)
(* request that was half written the server takes the bytes of the next    *)
(* ones for the rest of it.                                                *)
(*                                                                         *)
(* Bytes are told apart only as far as that needs.  No payload contains    *)
(* the bytes of a header, and an id put together from the bytes of two     *)
(* requests is nobody's.                                                   *)
(***************************************************************************)
EXTENDS Integers, Sequences, FiniteSets, SequencesExt

CONSTANTS Clients,   \* tasks that make requests
          Kind,      \* Kind[c]: the MessageType of c's requests
          MaxCalls,  \* MaxCalls[c], bound: requests that c makes
          MaxConns,  \* bound: connections; as many as calls are always enough
          None

ASSUME TransportAssumption ==
  /\ Kind \in [Clients -> {"Ping", "AppendRequest", "ReadRequest", "ReplicateRequest", "HealthRequest", "Pong"}]
  /\ MaxCalls \in [Clients -> Nat]
  /\ MaxConns \in Nat
  /\ None \notin Clients /\ None \notin Nat

Conns == 1..MaxConns

VARIABLES
  pool,       \* ConnectionPool.connections, for the address
  opened,     \* how many connections were opened
  next_id,    \* next_id[k]: next_request_id of connection k
  holder,     \* holder[k]: the client that has the mutex, or None
  requests,   \* requests[k]: messages on their way to the server
  responses,  \* responses[k]: messages on their way back
  serving,    \* the connections whose handle_connection task runs
  garbled,    \* the connections on which a response was half read
  torn,       \* the connections on which a request was half written
  cut,        \* cut[k]: the request that the bytes to the server end in, if it is not whole
  broken,     \* the connections on which the next bytes for the server are no header
  pc,         \* pc[c]: where the call of c is
  using,      \* using[c]: the connection it holds a reference to
  id,         \* id[c]: the id of its request
  calls,      \* calls[c]: how many calls c has begun
  result,     \* result[c]: the response that its last call returned, if any
  abandoned   \* abandoned[k]: requests on k that were dropped after they were written

toServer == <<requests, torn, cut, broken>>
connVars == <<next_id, holder, toServer, responses, serving, garbled, abandoned>>
clientVars == <<pc, using, id, calls, result>>
vars == <<pool, opened, connVars, clientVars>>

(* A message: its type, its request id and the call that it belongs to *)
Message(type, i, call) == [type |-> type, id |-> i, call |-> call]

ThisCall(c) == <<c, calls[c]>>

(* get_response_type *)
ResponseType(type) ==
  CASE type = "Ping" -> "Pong"
    [] type = "AppendRequest" -> "AppendResponse"
    [] type = "ReadRequest" -> "ReadResponse"
    [] type = "ReplicateRequest" -> "ReplicateResponse"
    [] type = "HealthRequest" -> "HealthResponse"
    [] OTHER -> "Error"

TypeOK ==
  /\ pool \in 1..opened \cup {None}
  /\ opened \in 0..MaxConns
  /\ next_id \in [Conns -> Nat \ {0}]
  /\ holder \in [Conns -> Clients \cup {None}]
  /\ serving \subseteq 1..opened /\ garbled \subseteq 1..opened
  /\ torn \subseteq 1..opened /\ broken \subseteq torn
  /\ pc \in [Clients -> {"idle", "connecting", "locking", "locked", "writing", "waiting"}]
  /\ using \in [Clients -> Conns \cup {None}]
  /\ id \in [Clients -> Nat]
  /\ calls \in [Clients -> Nat] /\ \A c \in Clients : calls[c] <= MaxCalls[c]
  /\ abandoned \in [Conns -> Nat]

(* The ids on a connection were issued by its counter. *)
IdsIssued ==
  \A k \in Conns :
    \A m \in Range(requests[k]) \cup Range(cut[k]) \cup Range(responses[k]) : m.id < next_id[k]

(* The mutex of a connection is held by the call that uses it, until that   *)
(* call returns or is dropped.                                              *)
HolderUses ==
  \A k \in Conns, c \in Clients :
    holder[k] = c <=> using[c] = k /\ pc[c] \in {"locked", "writing", "waiting"}

Init ==
  /\ pool = None
  /\ opened = 0
  /\ next_id = [k \in Conns |-> 1]
  /\ holder = [k \in Conns |-> None]
  /\ requests = [k \in Conns |-> <<>>]
  /\ responses = [k \in Conns |-> <<>>]
  /\ cut = [k \in Conns |-> <<>>]
  /\ serving = {} /\ garbled = {} /\ torn = {} /\ broken = {}
  /\ pc = [c \in Clients |-> "idle"]
  /\ using = [c \in Clients |-> None]
  /\ id = [c \in Clients |-> 0]
  /\ calls = [c \in Clients |-> 0]
  /\ result = [c \in Clients |-> <<>>]
  /\ abandoned = [k \in Conns |-> 0]

Goto(c, l) == pc' = [pc EXCEPT ![c] = l]

-----------------------------------------------------------------------------
(* get_connection: a hit, *)
Get(c) ==
  /\ pc[c] = "idle" /\ calls[c] < MaxCalls[c]
  /\ calls' = [calls EXCEPT ![c] = @ + 1]
  /\ result' = [result EXCEPT ![c] = <<>>]
  /\ using' = [using EXCEPT ![c] = pool]
  /\ Goto(c, IF pool = None THEN "connecting" ELSE "locking")
  /\ UNCHANGED <<pool, opened, connVars, id>>

(* or a miss: a new connection, put into the pool over whatever is there *)
Connect(c) ==
  /\ pc[c] = "connecting" /\ opened < MaxConns
  /\ opened' = opened + 1
  /\ serving' = serving \cup {opened'}
  /\ pool' = opened'
  /\ using' = [using EXCEPT ![c] = opened']
  /\ Goto(c, "locking")
  /\ UNCHANGED <<next_id, holder, toServer, responses, garbled, abandoned, id, calls, result>>

Err == <<>>   \* an error, or nothing at all

(* The call returns; its guard and its reference are dropped. *)
Return(c, value) ==
  /\ Goto(c, "idle")
  /\ using' = [using EXCEPT ![c] = None]
  /\ result' = [result EXCEPT ![c] = value]
  /\ id' = [id EXCEPT ![c] = 0]
  /\ holder' = [k \in Conns |-> IF holder[k] = c THEN None ELSE holder[k]]
  /\ UNCHANGED <<pool, opened, calls>>

ConnectFails(c) ==
  /\ pc[c] = "connecting"
  /\ Return(c, Err)
  /\ UNCHANGED <<next_id, toServer, responses, serving, garbled, abandoned>>

(* lock().await on the connection *)
Lock(c) ==
  /\ pc[c] = "locking" /\ holder[using[c]] = None
  /\ holder' = [holder EXCEPT ![using[c]] = c]
  /\ Goto(c, "locked")
  /\ UNCHANGED <<pool, opened, next_id, toServer, responses, serving, garbled, abandoned,
                 using, id, calls, result>>

(* Mutant: every request has the same id *)
SameId(c) ==
  LET k == using[c]
  IN  /\ pc[c] = "locked"
      /\ id' = [id EXCEPT ![c] = 1]
      /\ next_id' = [next_id EXCEPT ![k] = 2]
      /\ Goto(c, "writing")
      /\ UNCHANGED <<pool, opened, holder, toServer, responses, serving, garbled, abandoned,
                     using, calls, result>>

(* send_request: the next id of the connection *)
NextId(c) ==
  LET k == using[c]
  IN  /\ pc[c] = "locked"
      /\ id' = [id EXCEPT ![c] = next_id[k]]
      /\ next_id' = [next_id EXCEPT ![k] = @ + 1]
      /\ Goto(c, "writing")
      /\ UNCHANGED <<pool, opened, holder, toServer, responses, serving, garbled, abandoned,
                     using, calls, result>>

Request(c) == Message(Kind[c], id[c], ThisCall(c))

(* The bytes to the server on k end where a message ends. *)
AtBoundary(k) == cut[k] = <<>> /\ k \notin broken

(* Bytes written behind a request that is not whole are taken for the rest  *)
(* of it by read_from: they complete it, with bytes to spare or without,    *)
Completed(k) ==
  /\ cut[k] # <<>>
  /\ requests' = [requests EXCEPT ![k] = @ \o cut[k]]
  /\ cut' = [cut EXCEPT ![k] = <<>>]
  /\ broken' \in {broken, broken \cup {k}}

(* or make a header of it that does not decode *)
Spoilt(k) ==
  /\ cut' = [cut EXCEPT ![k] = <<>>]
  /\ broken' = broken \cup {k}
  /\ UNCHANGED requests

(* or are not enough *)
Swallow(k) == Completed(k) \/ Spoilt(k) \/ UNCHANGED <<requests, cut, broken>>

(* write_all: all bytes of the request are written *)
Write(c) ==
  LET k == using[c]
  IN  /\ pc[c] = "writing" /\ k \in serving
      /\ \/ /\ AtBoundary(k)
            /\ requests' = [requests EXCEPT ![k] = Append(@, Request(c))]
            /\ UNCHANGED <<cut, broken>>
         \/ ~ AtBoundary(k) /\ Swallow(k)
      /\ Goto(c, "waiting")
      /\ UNCHANGED <<pool, opened, next_id, holder, torn, responses, serving, garbled, abandoned,
                     using, id, calls, result>>

(* Mutant: the id of the response is not compared *)
ReadAnyId(c) ==
  LET k == using[c]
      m == Head(responses[k])
  IN  /\ pc[c] = "waiting" /\ responses[k] # <<>>
      /\ responses' = [responses EXCEPT ![k] = Tail(@)]
      /\ Return(c, IF k \in garbled THEN Err ELSE <<m>>)
      /\ UNCHANGED <<next_id, toServer, serving, garbled, abandoned>>

(* The next response is read: it does not decode, which takes a header's    *)
(* length out of the stream and not a message, or has another id, or is not *)
(* the Pong that a ping expects, or is returned                             *)
Read(c) ==
  LET k == using[c]
      m == Head(responses[k])
      good == k \notin garbled /\ m.id = id[c] /\ (Kind[c] = "Ping" => m.type = "Pong")
  IN  /\ pc[c] = "waiting" /\ responses[k] # <<>>
      /\ \/ responses' = [responses EXCEPT ![k] = Tail(@)]
         \/ k \in garbled /\ UNCHANGED responses
      /\ Return(c, IF good THEN <<m>> ELSE Err)
      /\ UNCHANGED <<next_id, toServer, serving, garbled, abandoned>>

(* Mutant: a closed stream is noticed by writes only *)
ClosedOnWrite(c) ==
  /\ pc[c] = "writing" /\ using[c] \notin serving
  /\ Return(c, Err)
  /\ UNCHANGED <<next_id, toServer, responses, serving, garbled, abandoned>>

(* The server has closed the connection: the write or the read fails. *)
Closed(c) ==
  /\ pc[c] \in {"writing", "waiting"} /\ using[c] \notin serving
  /\ pc[c] = "waiting" => responses[using[c]] = <<>>
  /\ Return(c, Err)
  /\ UNCHANGED <<next_id, toServer, responses, serving, garbled, abandoned>>

(* The caller drops the call between two messages, which releases           *)
(* everything at once.                                                      *)
Cancel(c) ==
  /\ pc[c] # "idle"
  /\ abandoned' = IF pc[c] = "waiting" THEN [abandoned EXCEPT ![using[c]] = @ + 1] ELSE abandoned
  /\ Return(c, Err)
  /\ UNCHANGED <<next_id, toServer, responses, serving, garbled>>

(* It drops the call inside write_all, when some of the bytes are written. *)
CancelMidWrite(c) ==
  LET k == using[c]
  IN  /\ pc[c] = "writing" /\ k \in serving
      /\ \/ AtBoundary(k) /\ cut' = [cut EXCEPT ![k] = <<Request(c)>>] /\ UNCHANGED <<requests, broken>>
         \/ ~ AtBoundary(k) /\ Swallow(k)
      /\ torn' = torn \cup {k}
      /\ Return(c, Err)
      /\ UNCHANGED <<next_id, responses, serving, garbled, abandoned>>

(* It drops the call inside read_exact, in the middle of a response. *)
CancelMidRead(c) ==
  /\ pc[c] = "waiting" /\ responses[using[c]] # <<>>
  /\ garbled' = garbled \cup {using[c]}
  /\ abandoned' = [abandoned EXCEPT ![using[c]] = @ + 1]
  /\ Return(c, Err)
  /\ UNCHANGED <<next_id, toServer, responses, serving>>

(* remove_connection, which callers may use after an error *)
RemoveConnection ==
  /\ pool # None
  /\ pool' = None
  /\ UNCHANGED <<opened, connVars, clientVars>>

-----------------------------------------------------------------------------
(* Mutant: the request stays in the buffer that was read *)
HandleAgain(k) ==
  LET m == Head(requests[k])
  IN  /\ k \in serving /\ requests[k] # <<>> /\ responses[k] = <<>>
      /\ responses' = [responses EXCEPT ![k] = Append(@, Message(ResponseType(m.type), m.id, m.call))]
      /\ UNCHANGED <<pool, opened, next_id, holder, toServer, serving, garbled, abandoned, clientVars>>

(* handle_connection reads a request, and the handler's answer goes back    *)
(* under the same id                                                        *)
Handle(k) ==
  LET m == Head(requests[k])
  IN  /\ k \in serving /\ requests[k] # <<>>
      /\ requests' = [requests EXCEPT ![k] = Tail(@)]
      /\ responses' = [responses EXCEPT ![k] = Append(@, Message(ResponseType(m.type), m.id, m.call))]
      /\ UNCHANGED <<pool, opened, next_id, holder, torn, cut, broken, serving, garbled, abandoned,
                     clientVars>>

(* or its error ends the task and the connection *)
HandlerFails(k) ==
  /\ k \in serving /\ requests[k] # <<>>
  /\ requests' = [requests EXCEPT ![k] = <<>>]
  /\ serving' = serving \ {k}
  /\ UNCHANGED <<pool, opened, next_id, holder, torn, cut, broken, responses, garbled, abandoned,
                 clientVars>>

(* or the next bytes are no header, which ends them as well *)
Misread(k) ==
  /\ k \in serving /\ requests[k] = <<>> /\ k \in broken
  /\ serving' = serving \ {k}
  /\ UNCHANGED <<pool, opened, next_id, holder, toServer, responses, garbled, abandoned, clientVars>>

(* Nobody has the connection any more: its Arc is dropped *)
Dropped(k) == k \in 1..opened /\ pool # k /\ \A c \in Clients : using[c] # k

(* and the task reads the end of the stream, be it inside a message; unread *)
(* responses are gone                                                       *)
HandleEof(k) ==
  /\ k \in serving /\ Dropped(k) /\ requests[k] = <<>>
  /\ serving' = serving \ {k}
  /\ responses' = [responses EXCEPT ![k] = <<>>]
  /\ abandoned' = [abandoned EXCEPT ![k] = 0]
  /\ UNCHANGED <<pool, opened, next_id, holder, toServer, garbled, clientVars>>

ClientStep(c) == Get(c) \/ Connect(c) \/ Lock(c) \/ NextId(c) \/ Write(c) \/ Read(c) \/ Closed(c)
ServerStep(k) == Handle(k) \/ HandleEof(k)

Next ==
  \/ \E c \in Clients :
       ClientStep(c) \/ ConnectFails(c) \/ Cancel(c) \/ CancelMidWrite(c) \/ CancelMidRead(c)
  \/ \E k \in Conns : ServerStep(k) \/ HandlerFails(k) \/ Misread(k)
  \/ RemoveConnection

(* The connections on which a call was dropped after it had written a byte *)
Spoiled == {k \in Conns : abandoned[k] > 0 \/ k \in torn}

(* Calls that were begun and server tasks run on; tokio's mutex serves its  *)
(* waiters in turn.  A write goes through, unless a call was dropped on the *)
(* connection before: the server may then be in the middle of an answer     *)
(* that nobody reads, and does not read itself.                             *)
Spec ==
  /\ Init /\ [][Next]_vars
  /\ \A c \in Clients :
       /\ WF_vars(Connect(c) \/ NextId(c) \/ Read(c) \/ Closed(c))
       /\ WF_vars(Write(c) /\ using[c] \notin Spoiled)
       /\ SF_vars(Lock(c))
  /\ \A k \in Conns : WF_vars(ServerStep(k))

-----------------------------------------------------------------------------
(* A response that send_request returns answers the very call that made the *)
(* request, although callers share connections and abandon requests.        *)
OwnResponse ==
  \A c \in Clients : \A m \in Range(result[c]) :
    m.call = ThisCall(c) /\ m.type = ResponseType(Kind[c])

(* On a connection with an abandoned request every later call returns an    *)
(* error: each reads the answer of the one before.  Nothing takes such a    *)
(* connection out of the pool but remove_connection.  Only a request that   *)
(* was half written may swallow another one and so realign the answers.     *)
AbandonedNeverRecovers ==
  [][\A c \in Clients :
       pc[c] = "waiting" /\ result'[c] # Err => abandoned[using[c]] = 0 \/ using[c] \in torn]_vars

(* The stream holds one answer, or a request for it, for the call under way *)
(* and one for each abandoned request, as long as the server keeps it open  *)
(* and every request on it was written whole.  Calls that fail on the rest  *)
(* of a half-read response leave their answers there as well.               *)
StreamAccounted ==
  \A k \in serving \ torn :
    LET due == abandoned[k] + Cardinality({c \in Clients : using[c] = k /\ pc[c] = "waiting"})
        there == Len(requests[k]) + Len(responses[k])
    IN  there >= due /\ (k \notin garbled => there = due)

(* Every call comes to an end, wherever it is, unless its connection has    *)
(* seen a call dropped after it had written a byte; and a call that has     *)
(* written its request does even then, unless some request on the           *)
(* connection was half written: the server may then have taken this one for *)
(* the rest of that one.                                                    *)
CallsReturn ==
  \A c \in Clients :
    /\ pc[c] # "idle" ~> pc[c] = "idle" \/ using[c] \in Spoiled
    /\ pc[c] = "waiting" ~> pc[c] = "idle" \/ using[c] \in torn

(* The server's task for a connection that no client has any more ends:     *)
(* a connection displaced by a racing connect does not stay open.           *)
NoOrphanTasks == \A k \in Conns : Dropped(k) ~> k \notin serving

(* The types and the account of what a shared connection carries, which is  *)
(* what makes its request ids trustworthy.                                  *)
StreamInv == TypeOK /\ IdsIssued /\ HolderUses /\ StreamAccounted

(* Who never waits for ever: send_request on a connection on which no call  *)
(* was dropped half way, and handle_connection once its peer is gone.       *)
CallsAndTasksEnd == CallsReturn /\ NoOrphanTasks
=============================================================================
