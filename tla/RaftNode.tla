------------------------------ MODULE RaftNode ------------------------------
(***************************************************************************)
(* One Raft node (src/src/raft.rs): the command loop of RaftNode::run, its *)
(* election and heartbeat timers, and the handlers of vote requests and    *)
(* heartbeats.                                                             *)
(*                                                                         *)
(* All handlers run one at a time in the command loop; the timers are      *)
(* tasks of their own that read the state and then put a command into the  *)
(* unbounded channel, where it waits behind others.  The repository has no *)
(* sender of RPCs (start_election and send_heartbeats say that a real      *)
(* implementation would send them), so vote requests and heartbeats come   *)
(* from an environment that may send any of them at any time.              *)
(***************************************************************************)
EXTENDS Integers, Sequences, FiniteSets

CONSTANTS Self,          \* node_id
          Peers,         \* the nodes that send RPCs
          ClusterSizes,  \* the values that cluster_nodes.len() may have
          NoNode,        \* None
          MaxRpcTerm,    \* bound on the terms of received RPCs
          MaxElections,  \* bound on the election timeouts
          MaxQueue       \* bound on the commands in the channel

ASSUME RaftAssumption ==
  /\ ClusterSizes \subseteq Nat
  /\ MaxRpcTerm \in Nat /\ MaxElections \in Nat /\ MaxQueue \in Nat
  /\ Self \notin Peers /\ NoNode \notin Peers \cup {Self}

VARIABLES
  cluster_size,                        \* cluster_nodes.len() of the RaftConfig
  current_term, voted_for,             \* PersistentState
  state, leader_id, votes_received,    \* VolatileState
  queue,       \* command channel
  timer,       \* election_timer: "sleep", or "fire" between its check and its send
  elections,   \* election timeouts so far
  granted      \* history: the votes this node has given, [term, candidate]

persistent == <<current_term, voted_for>>
volatile == <<state, leader_id, votes_received>>
vars == <<cluster_size, persistent, volatile, queue, timer, elections, granted>>

Nodes == Peers \cup {Self}
Command ==
  [kind : {"vote"}, term : 0..MaxRpcTerm, from : Peers] \cup
  [kind : {"heartbeat"}, term : 0..MaxRpcTerm, from : Peers] \cup
  [kind : {"elect", "beat"}]
Vote == [term : Nat, candidate : Nodes]
VotesNeeded == (cluster_size + 1) \div 2 + 1

TypeOK ==
  /\ cluster_size \in ClusterSizes
  /\ current_term \in Nat
  /\ voted_for \in Nodes \cup {NoNode}
  /\ state \in {"Follower", "Candidate", "Leader"}
  /\ leader_id \in Nodes \cup {NoNode}
  /\ votes_received \subseteq Nodes
  /\ queue \in Seq(Command)
  /\ timer \in {"sleep", "fire"}
  /\ elections \in Nat
  /\ granted \subseteq Vote

Init ==
  /\ cluster_size \in ClusterSizes
  /\ current_term = 0 /\ voted_for = NoNode
  /\ state = "Follower" /\ leader_id = NoNode /\ votes_received = {}
  /\ queue = <<>> /\ timer = "sleep" /\ elections = 0
  /\ granted = {}

-----------------------------------------------------------------------------
Enqueue(c) == Len(queue) < MaxQueue /\ queue' = Append(queue, c)

(* An RPC arrives *)
Rpc(c) ==
  /\ c.kind \in {"vote", "heartbeat"}
  /\ Enqueue(c)
  /\ UNCHANGED <<persistent, volatile, timer, elections, granted>>

(* election_timer: the state is checked after the sleep ... *)
TimerCheck ==
  /\ timer = "sleep" /\ elections < MaxElections
  /\ state # "Leader"
  /\ timer' = "fire" /\ elections' = elections + 1
  /\ UNCHANGED <<persistent, volatile, queue, granted>>

(* ... and StartElection is sent in a later step *)
TimerSend ==
  /\ timer = "fire"
  /\ Enqueue([kind |-> "elect"])
  /\ timer' = "sleep"
  /\ UNCHANGED <<persistent, volatile, elections, granted>>

HeartbeatTick ==
  /\ state = "Leader"
  /\ Enqueue([kind |-> "beat"])
  /\ UNCHANGED <<persistent, volatile, timer, elections, granted>>

-----------------------------------------------------------------------------
(* The command loop takes the first command *)
Take(kind) ==
  /\ queue # <<>> /\ Head(queue).kind = kind
  /\ queue' = Tail(queue)
  /\ UNCHANGED <<timer, elections>>

Gives(t, c) == granted' = granted \cup {[term |-> t, candidate |-> c]}

(* start_election, and become_leader when the own vote is enough *)
StartElection ==
  /\ Take("elect")
  /\ current_term' = current_term + 1
  /\ voted_for' = Self
  /\ Gives(current_term + 1, Self)
  /\ votes_received' = {Self}
  /\ IF Cardinality({Self}) >= VotesNeeded
     THEN state' = "Leader" /\ leader_id' = Self
     ELSE state' = "Candidate" /\ UNCHANGED leader_id

(* Mutant: an earlier vote of the term does not matter *)
HandleVoteRequestAgain ==
  /\ Take("vote")
  /\ LET req == Head(queue)
         newer == req.term > current_term
     IN  /\ current_term' = IF newer THEN req.term ELSE current_term
         /\ state' = IF newer THEN "Follower" ELSE state
         /\ leader_id' = IF newer THEN NoNode ELSE leader_id
         /\ IF req.term >= current_term
            THEN voted_for' = req.from /\ Gives(req.term, req.from)
            ELSE UNCHANGED <<voted_for, granted>>
  /\ UNCHANGED votes_received

(* handle_vote_request *)
HandleVoteRequest ==
  /\ Take("vote")
  /\ LET req == Head(queue)
         newer == req.term > current_term
         can_vote == newer \/ voted_for \in {NoNode, req.from}
     IN  /\ current_term' = IF newer THEN req.term ELSE current_term
         /\ state' = IF newer THEN "Follower" ELSE state
         /\ leader_id' = IF newer THEN NoNode ELSE leader_id
         /\ IF req.term >= current_term /\ can_vote
            THEN voted_for' = req.from /\ Gives(req.term, req.from)
            ELSE UNCHANGED <<voted_for, granted>>
  /\ UNCHANGED votes_received

(* Mutant: a heartbeat of the current term clears the vote too *)
HandleHeartbeatClearing ==
  /\ Take("heartbeat")
  /\ LET hb == Head(queue)
     IN  IF hb.term < current_term
         THEN UNCHANGED <<persistent, volatile>>
         ELSE /\ current_term' = hb.term
              /\ voted_for' = NoNode
              /\ state' = IF state = "Candidate" THEN "Follower" ELSE state
              /\ leader_id' = hb.from
              /\ UNCHANGED votes_received
  /\ UNCHANGED granted

(* Mutant: a candidate ignores the leader it hears from *)
HandleHeartbeatUnmoved ==
  /\ Take("heartbeat")
  /\ LET hb == Head(queue)
     IN  IF hb.term < current_term
         THEN UNCHANGED <<persistent, volatile>>
         ELSE /\ current_term' = hb.term
              /\ voted_for' = IF hb.term > current_term THEN NoNode ELSE voted_for
              /\ leader_id' = hb.from
              /\ UNCHANGED <<state, votes_received>>
  /\ UNCHANGED granted

(* handle_heartbeat: only a candidate becomes a follower *)
HandleHeartbeat ==
  /\ Take("heartbeat")
  /\ LET hb == Head(queue)
     IN  IF hb.term < current_term
         THEN UNCHANGED <<persistent, volatile>>
         ELSE /\ current_term' = hb.term
              /\ voted_for' = IF hb.term > current_term THEN NoNode ELSE voted_for
              /\ state' = IF state = "Candidate" THEN "Follower" ELSE state
              /\ leader_id' = hb.from
              /\ UNCHANGED votes_received
  /\ UNCHANGED granted

(* send_heartbeats sends nothing yet *)
SendHeartbeats ==
  /\ Take("beat")
  /\ UNCHANGED <<persistent, volatile, granted>>

Next ==
  /\ \/ \E c \in Command : Rpc(c)
     \/ TimerCheck \/ TimerSend \/ HeartbeatTick
     \/ StartElection \/ HandleVoteRequest \/ HandleHeartbeat \/ SendHeartbeats
  /\ UNCHANGED cluster_size

Spec == Init /\ [][Next]_vars

-----------------------------------------------------------------------------
(* A node gives at most one vote per term, whether to itself in            *)
(* start_election or to a candidate in handle_vote_request, and also after *)
(* a heartbeat of a newer term has cleared voted_for.                      *)
OneVotePerTerm ==
  \A v, w \in granted : v.term = w.term => v.candidate = w.candidate

(* A candidate's vote of the current term is its own: a heartbeat or a     *)
(* vote request that moves the term or takes the vote (handle_heartbeat,   *)
(* handle_vote_request) also ends the candidacy.                           *)
CandidateOwnsVote == state = "Candidate" => voted_for = Self

(* The term never goes back, and within a term a vote is never withdrawn   *)
(* or changed.                                                             *)
TermsAndVotesStick ==
  [][/\ current_term' >= current_term
     /\ current_term' = current_term /\ voted_for # NoNode => voted_for' = voted_for]_vars
=============================================================================
