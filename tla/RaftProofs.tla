----------------------------- MODULE RaftProofs -----------------------------
(***************************************************************************)
(* Proofs about one Raft node that is not restarted: it votes once per     *)
(* term, and neither terms nor votes go back, for any RPCs, terms and      *)
(* interleaving of the timers.                                             *)
(***************************************************************************)
EXTENDS RaftNode, TLAPS

(* Votes given so far belong to past terms, or agree with voted_for.       *)
VotesTracked ==
  \A v \in granted :
    /\ v.term <= current_term
    /\ v.term = current_term => v.candidate = voted_for

RaftInv == TypeOK /\ VotesTracked /\ OneVotePerTerm

(* What the command at the head of the channel can be.                     *)
LEMMA HeadCommand ==
  ASSUME TypeOK, queue # <<>>
  PROVE  /\ Head(queue) \in Command /\ Tail(queue) \in Seq(Command)
         /\ Head(queue).kind \in {"vote", "heartbeat"} =>
              Head(queue).term \in Nat /\ Head(queue).from \in Peers
<1>1. Head(queue) \in Command /\ Tail(queue) \in Seq(Command)
  BY DEF TypeOK
<1>2. \A c \in Command : c.kind \in {"vote", "heartbeat"} => c.term \in Nat /\ c.from \in Peers
  BY RaftAssumption DEF Command
<1> QED
  BY <1>1, <1>2

(* A new vote in term t keeps the invariant when no vote of term t or      *)
(* later was given, or when it repeats the one that was.                   *)
LEMMA VoteStep ==
  ASSUME RaftInv, NEW t \in Nat, NEW c \in Nodes, Gives(t, c),
         t >= current_term, current_term' = t, voted_for' = c,
         t = current_term => voted_for \in {NoNode, c}
  PROVE  VotesTracked' /\ OneVotePerTerm'
<1> USE RaftAssumption
<1>0. current_term \in Nat /\ \A v \in granted : v.term \in Nat /\ v.candidate \in Nodes
  BY DEF RaftInv, TypeOK, Vote
<1>1. \A v \in granted' : v \in granted \/ (v.term = t /\ v.candidate = c)
  BY DEF Gives
<1>2. \A v \in granted : v.term <= t /\ (v.term = t => v.candidate = c)
  <2> TAKE v \in granted
  <2>1. v.term <= current_term /\ (v.term = current_term => v.candidate = voted_for)
    BY DEF RaftInv, VotesTracked
  <2>2. v.candidate # NoNode
    BY <1>0 DEF Nodes
  <2> QED
    BY <1>0, <2>1, <2>2
<1>3. \A v \in granted' : v.term <= t /\ (v.term = t => v.candidate = c)
  BY <1>1, <1>2
<1>4. VotesTracked'
  BY <1>3 DEF VotesTracked
<1>5. OneVotePerTerm'
  BY <1>1, <1>2 DEF RaftInv, OneVotePerTerm
<1> QED
  BY <1>4, <1>5

(* A step that gives no vote keeps the invariant when it leaves the term   *)
(* and the vote alone or enters a newer term.                              *)
LEMMA NoVoteStep ==
  ASSUME RaftInv, UNCHANGED granted, current_term' \in Nat,
         \/ UNCHANGED persistent
         \/ current_term' > current_term
  PROVE  VotesTracked' /\ OneVotePerTerm'
<1>1. current_term \in Nat /\ \A v \in granted : v.term \in Nat
  BY DEF RaftInv, TypeOK, Vote
<1>2. VotesTracked'
  BY <1>1 DEF RaftInv, VotesTracked, persistent
<1>3. OneVotePerTerm'
  BY DEF RaftInv, OneVotePerTerm
<1> QED
  BY <1>2, <1>3

LEMMA ElectionStep ==
  ASSUME RaftInv, StartElection, UNCHANGED cluster_size
  PROVE  RaftInv' /\ current_term' > current_term
<1> USE RaftAssumption
<1>1. /\ current_term' = current_term + 1 /\ voted_for' = Self /\ votes_received' = {Self}
      /\ Gives(current_term + 1, Self) /\ UNCHANGED <<timer, elections>>
      /\ queue # <<>> /\ queue' = Tail(queue)
      /\ state' \in {"Leader", "Candidate"} /\ leader_id' \in {Self, leader_id}
  BY DEF StartElection, Take
<1>2. current_term \in Nat /\ queue' \in Seq(Command)
  BY <1>1, HeadCommand DEF RaftInv, TypeOK
<1>3. VotesTracked' /\ OneVotePerTerm'
  BY <1>1, <1>2, VoteStep DEF Nodes
<1>4. granted' \subseteq Vote
  BY <1>1, <1>2 DEF Gives, RaftInv, TypeOK, Vote, Nodes
<1>5. TypeOK'
  BY <1>1, <1>2, <1>4 DEF RaftInv, TypeOK, Nodes
<1> QED
  BY <1>1, <1>2, <1>3, <1>5 DEF RaftInv

LEMMA VoteRequestStep ==
  ASSUME RaftInv, HandleVoteRequest, UNCHANGED cluster_size
  PROVE  /\ RaftInv' /\ current_term' >= current_term
         /\ current_term' = current_term /\ voted_for # NoNode => voted_for' = voted_for
<1> USE RaftAssumption
<1> DEFINE t == Head(queue).term
           c == Head(queue).from
<1>1. /\ queue # <<>> /\ Head(queue).kind = "vote" /\ queue' = Tail(queue)
      /\ UNCHANGED <<timer, elections, votes_received>>
      /\ current_term' = IF t > current_term THEN t ELSE current_term
      /\ state' \in {"Follower", state} /\ leader_id' \in {NoNode, leader_id}
      /\ IF t >= current_term /\ (t > current_term \/ voted_for \in {NoNode, c})
         THEN voted_for' = c /\ Gives(t, c)
         ELSE UNCHANGED <<voted_for, granted>>
  BY DEF HandleVoteRequest, Take
<1>2. /\ t \in Nat /\ c \in Peers /\ c \in Nodes /\ current_term \in Nat
      /\ Tail(queue) \in Seq(Command)
  BY <1>1, HeadCommand DEF RaftInv, TypeOK, Nodes
<1> HIDE DEF t, c
<1>3. CASE t >= current_term /\ (t > current_term \/ voted_for \in {NoNode, c})
  <2>1. current_term' = t /\ voted_for' = c /\ Gives(t, c)
    BY <1>1, <1>2, <1>3
  <2>2. VotesTracked' /\ OneVotePerTerm'
    BY <1>2, <1>3, <2>1, VoteStep
  <2>3. granted' \subseteq Vote
    BY <1>2, <2>1 DEF Gives, RaftInv, TypeOK, Vote
  <2>4. TypeOK'
    BY <1>1, <1>2, <2>1, <2>3 DEF RaftInv, TypeOK
  <2> QED
    BY <1>2, <1>3, <2>1, <2>2, <2>4 DEF RaftInv
<1>4. CASE ~ (t >= current_term /\ (t > current_term \/ voted_for \in {NoNode, c}))
  <2>1. UNCHANGED <<current_term, voted_for, granted>>
    BY <1>1, <1>2, <1>4
  <2>2. VotesTracked' /\ OneVotePerTerm'
    BY <1>2, <2>1, NoVoteStep DEF persistent
  <2>3. TypeOK'
    BY <1>1, <1>2, <2>1 DEF RaftInv, TypeOK
  <2> QED
    BY <1>2, <2>1, <2>2, <2>3 DEF RaftInv
<1> QED
  BY <1>3, <1>4

LEMMA HeartbeatStep ==
  ASSUME RaftInv, HandleHeartbeat, UNCHANGED cluster_size
  PROVE  /\ RaftInv' /\ current_term' >= current_term
         /\ current_term' = current_term /\ voted_for # NoNode => voted_for' = voted_for
<1> USE RaftAssumption
<1> DEFINE t == Head(queue).term
           l == Head(queue).from
<1>1. /\ queue # <<>> /\ Head(queue).kind = "heartbeat" /\ queue' = Tail(queue)
      /\ UNCHANGED <<timer, elections, granted, votes_received>>
      /\ \/ t < current_term /\ UNCHANGED <<current_term, voted_for, state, leader_id>>
         \/ /\ ~ (t < current_term) /\ current_term' = t
            /\ voted_for' = IF t > current_term THEN NoNode ELSE voted_for
            /\ state' \in {"Follower", state} /\ leader_id' = l
  BY DEF HandleHeartbeat, Take, persistent, volatile
<1>2. /\ t \in Nat /\ l \in Nodes /\ current_term \in Nat /\ Tail(queue) \in Seq(Command)
  BY <1>1, HeadCommand DEF RaftInv, TypeOK, Nodes
<1> HIDE DEF t, l
<1>3. /\ current_term' \in Nat /\ current_term' >= current_term
      /\ current_term' > current_term \/ UNCHANGED persistent
  BY <1>1, <1>2 DEF persistent
<1>4. VotesTracked' /\ OneVotePerTerm'
  BY <1>1, <1>3, NoVoteStep
<1>5. TypeOK'
  BY <1>1, <1>2, <1>3 DEF RaftInv, TypeOK
<1> QED
  BY <1>2, <1>3, <1>4, <1>5 DEF RaftInv, persistent

LEMMA RaftStep ==
  ASSUME RaftInv, [Next]_vars
  PROVE  /\ RaftInv' /\ current_term' >= current_term
         /\ current_term' = current_term /\ voted_for # NoNode => voted_for' = voted_for
<1>0. current_term \in Nat
  BY DEF RaftInv, TypeOK
<1>1. ASSUME UNCHANGED <<persistent, granted>>, TypeOK'
      PROVE  /\ RaftInv' /\ current_term' >= current_term
             /\ current_term' = current_term /\ voted_for # NoNode => voted_for' = voted_for
  BY <1>0, <1>1, NoVoteStep DEF RaftInv, persistent
<1>2. ASSUME NEW c \in Command, Enqueue(c)  PROVE queue' \in Seq(Command)
  BY <1>2 DEF Enqueue, RaftInv, TypeOK
<1>3. ASSUME NEW c \in Command, Rpc(c), UNCHANGED cluster_size  PROVE UNCHANGED <<persistent, granted>> /\ TypeOK'
  BY <1>2, <1>3 DEF Rpc, RaftInv, TypeOK, persistent, volatile
<1>4. ASSUME TimerCheck, UNCHANGED cluster_size  PROVE UNCHANGED <<persistent, granted>> /\ TypeOK'
  <2>1. /\ UNCHANGED <<current_term, voted_for, state, leader_id, votes_received, queue, granted>>
        /\ timer' = "fire" /\ elections' = elections + 1
    BY <1>4 DEF TimerCheck, persistent, volatile
  <2>2. elections' \in Nat
    <3>1. elections \in Nat
      BY DEF RaftInv, TypeOK
    <3> QED
      BY <2>1, <3>1
  <2> QED
    BY <1>4, <2>1, <2>2 DEF RaftInv, TypeOK, persistent
<1>5. ASSUME TimerSend \/ HeartbeatTick, UNCHANGED cluster_size  PROVE UNCHANGED <<persistent, granted>> /\ TypeOK'
  <2>1. [kind |-> "elect"] \in Command /\ [kind |-> "beat"] \in Command
    BY DEF Command
  <2>2. queue' \in Seq(Command)
    BY <1>2, <1>5, <2>1 DEF TimerSend, HeartbeatTick
  <2> QED
    BY <1>5, <2>2 DEF TimerSend, HeartbeatTick, RaftInv, TypeOK, persistent, volatile
<1>6. ASSUME SendHeartbeats, UNCHANGED cluster_size  PROVE UNCHANGED <<persistent, granted>> /\ TypeOK'
  <2>1. queue' \in Seq(Command)
    BY <1>6, HeadCommand DEF SendHeartbeats, Take, RaftInv
  <2> QED
    BY <1>6, <2>1 DEF SendHeartbeats, Take, RaftInv, TypeOK, persistent, volatile
<1>7. ASSUME UNCHANGED vars  PROVE UNCHANGED <<persistent, granted>> /\ TypeOK'
  BY <1>7 DEF vars, RaftInv, TypeOK, persistent, volatile
<1>8. ASSUME StartElection, UNCHANGED cluster_size
      PROVE  /\ RaftInv' /\ current_term' >= current_term
             /\ current_term' = current_term /\ voted_for # NoNode => voted_for' = voted_for
  <2>1. current_term' \in Nat
    BY <1>8, ElectionStep DEF RaftInv, TypeOK
  <2> QED
    BY <1>0, <1>8, <2>1, ElectionStep
<1> QED
  BY <1>1, <1>3, <1>4, <1>5, <1>6, <1>7, <1>8, VoteRequestStep, HeartbeatStep DEF Next

LEMMA RaftInvariant == Spec => []RaftInv
<1>1. ASSUME Init  PROVE RaftInv
  <2>1. granted = {} /\ votes_received = {} /\ queue = <<>>
    BY <1>1 DEF Init
  <2>2. VotesTracked /\ OneVotePerTerm
    BY <2>1 DEF VotesTracked, OneVotePerTerm
  <2>3. queue \in Seq(Command)
    BY <2>1
  <2>4. granted \subseteq Vote /\ votes_received \subseteq Nodes
    BY <2>1
  <2>5. current_term \in Nat /\ elections \in Nat
    BY <1>1 DEF Init
  <2>6. TypeOK
    BY <1>1, <2>3, <2>4, <2>5 DEF Init, TypeOK
  <2> QED
    BY <2>2, <2>6 DEF RaftInv
<1>2. RaftInv /\ [Next]_vars => RaftInv'
  BY RaftStep
<1> QED
  BY <1>1, <1>2, PTL DEF Spec

(* A node that is not restarted votes for one candidate per term at most,  *)
(* itself included, however vote requests, heartbeats and its own election *)
(* timeouts are interleaved.                                               *)
THEOREM RaftOneVote == Spec => []OneVotePerTerm
<1>1. RaftInv => OneVotePerTerm
  BY DEF RaftInv
<1> QED
  BY <1>1, RaftInvariant, PTL

(* Terms never go back, and a vote is never changed within its term.       *)
THEOREM RaftMonotone == Spec => TermsAndVotesStick
<1>1. RaftInv /\ [Next]_vars =>
        [/\ current_term' >= current_term
         /\ current_term' = current_term /\ voted_for # NoNode => voted_for' = voted_for]_vars
  BY RaftStep
<1> QED
  BY <1>1, RaftInvariant, PTL DEF Spec, TermsAndVotesStick

LEMMA CandidateStep ==
  ASSUME TypeOK, CandidateOwnsVote, [Next]_vars
  PROVE  CandidateOwnsVote'
<1> USE RaftAssumption
<1>1. ASSUME UNCHANGED <<persistent, volatile>>  PROVE CandidateOwnsVote'
  BY <1>1 DEF CandidateOwnsVote, persistent, volatile
<1>2. CASE StartElection
  BY <1>2 DEF StartElection, CandidateOwnsVote
<1>3. CASE HandleVoteRequest
  <2>1. queue # <<>> /\ Head(queue).kind = "vote" /\ Head(queue).from # Self
    BY <1>3, HeadCommand DEF HandleVoteRequest, Take
  <2> QED
    BY <1>3, <2>1 DEF HandleVoteRequest, CandidateOwnsVote
<1>4. CASE HandleHeartbeat
  BY <1>4 DEF HandleHeartbeat, CandidateOwnsVote, persistent, volatile
<1> QED
  BY <1>1, <1>2, <1>3, <1>4
  DEF Next, Rpc, TimerCheck, TimerSend, HeartbeatTick, SendHeartbeats, vars

(* A candidate's vote of the current term is its own.                      *)
THEOREM RaftCandidate == Spec => []CandidateOwnsVote
<1>1. Init => CandidateOwnsVote
  BY DEF Init, CandidateOwnsVote
<1>2. TypeOK /\ CandidateOwnsVote /\ [Next]_vars => CandidateOwnsVote'
  BY CandidateStep
<1>3. RaftInv => TypeOK
  BY DEF RaftInv
<1> QED
  BY <1>1, <1>2, <1>3, RaftInvariant, PTL DEF Spec
=============================================================================
