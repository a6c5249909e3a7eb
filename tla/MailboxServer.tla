---------------------------- MODULE MailboxServer ----------------------------
(***************************************************************************)
(* Mailboxes over the network (src/src/mailbox_network.rs): MailboxServer  *)
(* answers requests with handles that it keeps in a cache, MailboxClient   *)
(* sends one request at a time.  The server is composed with the mailbox   *)
(* system of Mailbox.tla, which the host program goes on using directly.   *)
(*                                                                         *)
(* A request is named by the client call that makes it: a Send by the      *)
(* message it carries, a Receive or Peek by itself.  The handle that the   *)
(* server opens for a request has the name of the request.                 *)
(***************************************************************************)
EXTENDS Mailbox

CONSTANTS Sends,      \* messages that travel as NetworkMessage::Send
          Polls,      \* clients that call receive in a loop
          Peeks,      \* clients that send NetworkMessage::Peek once
          Mbox,       \* the mailbox that a poll or peek asks for
          Garbled,    \* requests that may exceed max_message_size or not decode
          Protocols,  \* Tcp, Udp or both
          MaxFaults   \* bound: how many requests, answers and creations fail

Requests == Sends \cup Polls \cup Peeks
Locals == Handles \ Requests

ASSUME ServerAssumption ==
  /\ Sends \subseteq Messages /\ Requests \subseteq Handles
  /\ IsFiniteSet(Requests) /\ None \notin Requests
  /\ Sends \cap Polls = {} /\ Sends \cap Peeks = {} /\ Polls \cap Peeks = {}
  /\ Messages \cap {"Success", "Error"} = {}
  /\ \A m \in Sends : ReplyTo[m] = None
  /\ Mbox \in [Polls \cup Peeks -> Addresses]
  /\ Garbled \subseteq Sends \cup Peeks
  /\ Protocols \subseteq {"Tcp", "Udp"}
  /\ MaxFaults \in Nat

VARIABLES
  protocol,  \* NetworkConfig.protocol, the same at both ends
  cache,     \* MailboxServer.mailboxes: address -> handle, or None
  at,        \* at[r]: where request r is
  using,     \* using[r]: the handle that get_or_create_mailbox returned
  answer,    \* answer[r]: the response on its way to the client
  got,       \* got[m]: how often pollers were given m
  lost,      \* lost[m]: how often the network lost an answer to them with m
  faults     \* how many have failed

serverVars == <<protocol, cache, at, using, answer, got, lost, faults>>
clientSide == <<got, lost, faults>>

Addr(r) == IF r \in Sends THEN From[r] ELSE Mbox[r]

InServer == {"miss", "opened", "ready", "sending"}

ServerTypeOK ==
  /\ TypeOK
  /\ protocol \in Protocols
  /\ cache \in [Addresses -> Requests \cup {None}]
  /\ \A a \in Addresses : cache[a] # None => Open(cache[a]) /\ handle[cache[a]].address = a
  /\ at \in [Requests -> InServer \cup {"idle", "response", "stuck", "done"}]
  /\ using \in [Requests -> Requests \cup {None}]
  /\ answer \in [Requests -> Messages \cup {None, "Success", "Error"}]
  /\ got \in [Messages -> Nat]
  /\ lost \in [Messages -> Nat]
  /\ faults \in 0..MaxFaults

ServerInit ==
  /\ Init
  /\ protocol \in Protocols
  /\ cache = [a \in Addresses |-> None]
  /\ at = [r \in Requests |-> "idle"]
  /\ using = [r \in Requests |-> None]
  /\ answer = [r \in Requests |-> None]
  /\ got = [m \in Messages |-> 0]
  /\ lost = [m \in Messages |-> 0]
  /\ faults = 0

-----------------------------------------------------------------------------
(* The client call is over, or waits for ever: over TCP it has an answer or *)
(* the error of its connection, and a poller calls again; over UDP a client *)
(* that gets no answer stays in recv_from, which has no timeout.            *)
After(r) == IF r \in Polls THEN "idle" ELSE "done"
Unanswered(r) == IF protocol = "Tcp" THEN After(r) ELSE "stuck"

(* A TCP connection has a task of its own; the UDP loop takes a request when *)
(* it has answered the one before.                                           *)
Turn == protocol = "Udp" => \A q \in Requests : at[q] \notin InServer

(* A request that is too large or does not decode: the TCP task ends and    *)
(* with it the connection, the UDP loop continues; neither answers.         *)
Refuse(r) ==
  /\ at[r] = "idle" /\ r \in Garbled
  /\ Turn
  /\ at' = [at EXCEPT ![r] = Unanswered(r)]
  /\ UNCHANGED <<vars, protocol, cache, using, answer, clientSide>>

(* Mutant: start_udp spawns a task for each datagram *)
LookupSpawned(r) ==
  /\ at[r] = "idle"
  /\ using' = [using EXCEPT ![r] = cache[Addr(r)]]
  /\ at' = [at EXCEPT ![r] = IF cache[Addr(r)] = None THEN "miss" ELSE "ready"]
  /\ UNCHANGED <<vars, protocol, cache, answer, clientSide>>

(* The client sends its request and the server looks the mailbox up in its  *)
(* cache.                                                                   *)
Lookup(r) ==
  /\ at[r] = "idle"
  /\ Turn
  /\ using' = [using EXCEPT ![r] = cache[Addr(r)]]
  /\ at' = [at EXCEPT ![r] = IF cache[Addr(r)] = None THEN "miss" ELSE "ready"]
  /\ UNCHANGED <<vars, protocol, cache, answer, clientSide>>

(* The write lock of the MailboxSystem, from Fetch to Cache *)
SystemLocked == \E r \in Requests : at[r] = "opened"

(* get_or_create_mailbox after a miss: get_mailbox, else create_mailbox *)
Fetch(r) ==
  /\ at[r] = "miss" /\ ~ SystemLocked
  /\ GetMailbox(r, Addr(r)) \/ CreateMailbox(r, Addr(r))
  /\ at' = [at EXCEPT ![r] = "opened"]
  /\ UNCHANGED <<protocol, cache, using, answer, clientSide>>

(* get_mailbox or create_mailbox returns an error, which is the answer. *)
FetchFails(r) ==
  /\ at[r] = "miss" /\ ~ SystemLocked /\ faults < MaxFaults
  /\ faults' = faults + 1
  /\ answer' = [answer EXCEPT ![r] = "Error"]
  /\ at' = [at EXCEPT ![r] = "response"]
  /\ UNCHANGED <<vars, protocol, cache, using, got, lost>>

(* It is cached, over whatever another request has cached meanwhile. *)
Cache(r) ==
  /\ at[r] = "opened"
  /\ cache' = [cache EXCEPT ![Addr(r)] = r]
  /\ using' = [using EXCEPT ![r] = r]
  /\ at' = [at EXCEPT ![r] = "ready"]
  /\ UNCHANGED <<vars, protocol, answer, clientSide>>

-----------------------------------------------------------------------------
(* handle_send: send_to or send_with_subject on the sender's handle *)
ServeSend(r) ==
  /\ at[r] = "ready" /\ r \in Sends
  /\ Route(r)
  /\ at' = [at EXCEPT ![r] = "sending"]
  /\ UNCHANGED <<protocol, cache, using, answer, clientSide>>

(* The send has returned, and the response says how. *)
SendReturns(r) ==
  /\ at[r] = "sending" /\ pc[r] \in {"sent", "refused"}
  /\ answer' = [answer EXCEPT ![r] = IF pc[r] = "sent" THEN "Success" ELSE "Error"]
  /\ at' = [at EXCEPT ![r] = "response"]
  /\ UNCHANGED <<vars, protocol, cache, using, clientSide>>

(* What a read of the handle is answered with: the message, or the error   *)
(* that an empty mailbox and text that does not parse both are             *)
ReadAnswer(h) == IF ReadNext(h) \in Messages THEN ReadNext(h) ELSE "Error"

(* Mutant: handle_receive maps a message it has consumed to an error *)
ServeReceiveDrops(r) ==
  /\ at[r] = "ready" /\ r \in Polls
  /\ Receive(using[r])
  /\ answer' = [answer EXCEPT ![r] = "Error"]
  /\ at' = [at EXCEPT ![r] = "response"]
  /\ UNCHANGED <<protocol, cache, using, clientSide>>

(* handle_receive consumes the message before the response is written. *)
ServeReceive(r) ==
  /\ at[r] = "ready" /\ r \in Polls
  /\ Receive(using[r])
  /\ answer' = [answer EXCEPT ![r] = ReadAnswer(using[r])]
  /\ at' = [at EXCEPT ![r] = "response"]
  /\ UNCHANGED <<protocol, cache, using, clientSide>>

(* handle_peek *)
ServePeek(r) ==
  /\ at[r] = "ready" /\ r \in Peeks
  /\ answer' = [answer EXCEPT ![r] = ReadAnswer(using[r])]
  /\ at' = [at EXCEPT ![r] = "response"]
  /\ UNCHANGED <<vars, protocol, cache, using, clientSide>>

-----------------------------------------------------------------------------
(* One more answer to a poller that carries a message *)
Count(f, r) ==
  IF r \in Polls /\ answer[r] \in Messages THEN [f EXCEPT ![answer[r]] = @ + 1] ELSE f

(* The client has the response.  send returns Ok whatever it says, receive  *)
(* returns the message or the error.                                        *)
ClientReturns(r) ==
  /\ at[r] = "response"
  /\ got' = Count(got, r)
  /\ at' = [at EXCEPT ![r] = After(r)]
  /\ using' = [using EXCEPT ![r] = None]
  /\ answer' = [answer EXCEPT ![r] = None]
  /\ UNCHANGED <<vars, protocol, cache, lost, faults>>

(* A request that the server has not read, or a response, is lost. *)
Lose(r) ==
  /\ at[r] \in {"idle", "response"} /\ faults < MaxFaults
  /\ faults' = faults + 1
  /\ lost' = Count(lost, r)
  /\ at' = [at EXCEPT ![r] = Unanswered(r)]
  /\ using' = [using EXCEPT ![r] = None]
  /\ answer' = [answer EXCEPT ![r] = None]
  /\ UNCHANGED <<vars, protocol, cache, got>>

(* The program around the server uses the same MailboxSystem.  What it      *)
(* receives does not show here: its handles have offsets of their own.      *)
Local ==
  /\ \/ /\ ~ SystemLocked
        /\ \E h \in Locals, a \in Addresses : CreateMailbox(h, a) \/ GetMailbox(h, a)
     \/ \E m \in Messages \ Sends : Route(m)
  /\ UNCHANGED serverVars

(* The rest of a send, whoever began it *)
Finish(m) == (AssignOffset(m) \/ InsertMapping(m)) /\ UNCHANGED serverVars

Handle(r) ==
  \/ Refuse(r) \/ Lookup(r) \/ Fetch(r) \/ Cache(r)
  \/ ServeSend(r) \/ SendReturns(r) \/ ServeReceive(r) \/ ServePeek(r)

ServerNext ==
  \/ \E r \in Requests : Handle(r) \/ ClientReturns(r) \/ Lose(r) \/ FetchFails(r)
  \/ \E m \in Messages : Finish(m)
  \/ Local

allVars == <<vars, serverVars>>

(* Server tasks and sends run on, clients read their answers and pollers   *)
(* ask again.  The network owes nothing, and so does the host program.     *)
ServerSpec ==
  /\ ServerInit /\ [][ServerNext]_allVars
  /\ \A r \in Requests : WF_allVars(Handle(r)) /\ WF_allVars(ClientReturns(r))
  /\ \A m \in Messages : WF_allVars(Finish(m))

-----------------------------------------------------------------------------
(* The handles of the server whose read_offset has passed m *)
PassedBy(m) ==
  {h \in Requests :
     /\ Open(h) /\ handle[h].address = Dest(m)
     /\ pc[m] \in {"numbered", "sent"} /\ offset[m] < handle[h].read_offset}

(* Every offset that receive passed is accounted for.  Each time a handle   *)
(* of the server consumed a message, a poller was given it, or its answer   *)
(* is under way, or the network lost that answer, or receive dropped it     *)
(* without parsing it; and it drops only a message behind which another one *)
(* was stored.  No message is handed out a second time by the same handle.  *)
ConsumptionsAccounted ==
  \A m \in Messages :
    LET dropped == {h \in PassedBy(m) : m \notin Range(inbox[h])}
    IN  /\ Cardinality(PassedBy(m))
             = got[m] + lost[m] + Cardinality({r \in Polls : answer[r] = m}) + Cardinality(dropped)
        /\ dropped # {} => slot[m] < write_pos[Dest(m)]

(* A UDP server, which handles requests in turn, opens one handle for an   *)
(* address; over TCP two requests that both miss the cache open two, the   *)
(* second replaces the first, and its offset starts again at 0.            *)
OneHandleOverUdp ==
  protocol = "Udp" =>
    \A r, q \in Requests : Open(r) /\ Open(q) /\ handle[r].address = handle[q].address => r = q

(* Over TCP every call of a client returns, wherever in the server it is   *)
(* and whatever became of the others.                                      *)
TcpCallsReturn ==
  \A r \in Requests :
    at[r] \in InServer \cup {"response", "stuck"} /\ protocol = "Tcp" ~> at[r] \in {"idle", "done"}

(* Polling a mailbox over TCP in the end yields the message stored last to *)
(* one of the pollers, unless the network lost an answer: a handle that    *)
(* replaces another skips what it cannot parse and catches up.             *)
LastMessageReachesPollers ==
  \A a \in Addresses : <>[](
    /\ protocol = "Tcp" /\ faults = 0 /\ write_pos[a] > 0
    /\ \E r \in Polls : Mbox[r] = a
    => got[file[Dir[a]][write_pos[a]]] > 0)

(* The types, among them that the cache holds an open handle of its own     *)
(* address, and that a UDP server keeps to one handle per address.          *)
ServerInv == ServerTypeOK /\ OneHandleOverUdp

(* What TCP clients may count on, whatever get_or_create_mailbox does for   *)
(* the others: their calls return and pollers get the last message.         *)
TcpProgress == TcpCallsReturn /\ LastMessageReachesPollers
=============================================================================
