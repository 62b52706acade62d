----------------------------- MODULE ConsensusProofs ----------------------------
(***************************************************************************)
(* Theorems about Consensus, for every set of drones: types, and that a    *)
(* term has one leader at most.                                            *)
(***************************************************************************)
EXTENDS Consensus, FiniteSetTheorems, TLAPS

LEMMA InitType == Init => TypeOK
BY ConsensusAssumption DEF Init, TypeOK, Terms, Roles, InitRaft

LEMMA NextType == TypeOK /\ [Next]_vars => TypeOK'
<1> SUFFICES ASSUME TypeOK, [Next]_vars  PROVE TypeOK'
  OBVIOUS
<1> USE ConsensusAssumption
<1>1. ASSUME NEW d \in Drones, Pass(d)  PROVE TypeOK'
  <2>0. based' \in [Drones -> BOOLEAN] /\ running' \in [Drones -> BOOLEAN]
        /\ approved' \in [Drones -> 0..MaxApprovals]
    BY <1>1 DEF Pass, TypeOK, Roles
  <2>1. CASE StartElection(d)
    <3>1. term[d] + 1 \in Terms
      BY <2>1 DEF StartElection, TypeOK, Terms, Roles
    <3>2. role' \in [Drones -> Roles]
      BY <2>1 DEF StartElection, TypeOK, Roles
    <3>3. term' \in [Drones -> Terms]
      BY <2>1, <3>1 DEF StartElection, TypeOK, Roles
    <3>4. votes' \in [Drones -> SUBSET Drones] /\ voted' \in [Drones -> Drones \cup {Nobody}]
      BY <2>1 DEF StartElection, TypeOK, Roles
    <3>5. stood' \subseteq Drones \X Terms /\ granted' \subseteq Drones \X Drones \X Terms
      BY <2>1, <3>1 DEF StartElection, TypeOK, Roles
    <3> QED
      BY <2>0, <2>1, <3>2, <3>3, <3>4, <3>5 DEF StartElection, TypeOK, Roles
  <2>2. CASE CountVotes(d)
    <3>1. led' \subseteq Drones \X Terms
      BY <2>2 DEF CountVotes, TypeOK, Roles
    <3>2. /\ role' \in [Drones -> Roles]
          /\ leader' \in [Drones -> Drones \cup {Nobody}]
      BY <2>2 DEF CountVotes, TypeOK, Roles
    <3> QED
      BY <2>0, <2>2, <3>1, <3>2 DEF CountVotes, TypeOK, Roles
  <2>3. CASE GiveUp(d)
    BY <1>1, <2>3 DEF Pass, GiveUp, TypeOK, mail, Roles
  <2>4. CASE UNCHANGED <<raft, mail>>
    BY <1>1, <2>4 DEF Pass, TypeOK, raft, mail, Roles
  <2> QED
    BY <1>1, <2>1, <2>2, <2>3, <2>4 DEF Pass, Tick
<1>2. ASSUME NEW d \in Drones, OnBaseHeartbeat(d)  PROVE TypeOK'
  BY <1>2 DEF OnBaseHeartbeat, TypeOK, mail, Roles
<1>3. ASSUME NEW d \in Drones, NEW e \in Drones, NEW t \in Terms, OnVoteRequest(d, e, t)
      PROVE  TypeOK'
  BY <1>3 DEF OnVoteRequest, TypeOK, Roles
<1>4. ASSUME NEW d \in Drones, NEW e \in Drones, NEW t \in Terms, OnVoteResponse(d, e, t)
      PROVE  TypeOK'
  BY <1>4 DEF OnVoteResponse, TypeOK, mail, Roles
<1>5. ASSUME NEW d \in Drones, NEW e \in Drones, NEW t \in Terms, OnLeaderHeartbeat(d, e, t)
      PROVE  TypeOK'
  BY <1>5 DEF OnLeaderHeartbeat, TypeOK, mail, Roles
<1>6. ASSUME NEW d \in Drones, NEW level, Decide(d, level)  PROVE TypeOK'
  BY <1>6 DEF Decide, Approves, TypeOK, raft, mail, Roles
<1>7. CASE UNCHANGED vars
  BY <1>7 DEF vars, raft, mail, TypeOK, Roles
<1> QED
  BY <1>1, <1>2, <1>3, <1>4, <1>5, <1>6, <1>7 DEF Next, Step

\* TypeOK: types of what the drones and the mail hold, and the limit on approvals of
\* the rules of engagement (decide_escalation).
THEOREM TypeCorrect == Spec => []TypeOK
<1>1. Init => TypeOK
  BY InitType
<1>2. TypeOK /\ [Next]_vars => TypeOK'
  BY NextType
<1> QED
  BY <1>1, <1>2, PTL DEF Spec

-----------------------------------------------------------------------------
(* The inductive invariant.  What a drone has voted outlives its state, which knows *)
(* the vote of the present term only.                                               *)

\* A drone votes once in a term.
VotesOnce ==
  \A v, c, e \in Drones, t \in Terms :
    <<v, c, t>> \in granted /\ <<v, e, t>> \in granted => c = e

\* It has voted in no later term, and in the present one as it remembers.
VotesRemembered ==
  \A v, c \in Drones, t \in Terms :
    <<v, c, t>> \in granted => t <= term[v] /\ (t = term[v] => voted[v] = c)

\* A candidate counts votes of its present term.
VotesCounted ==
  \A c \in Drones :
    role[c] = "candidate" => \A v \in votes[c] : <<v, c, term[c]>> \in granted

\* Whoever has led was voted for by a majority.
Elected ==
  \A l \in Drones, t \in Terms :
    <<l, t>> \in led =>
      \E some \in SUBSET Drones :
        Majority(some) /\ \A v \in some : <<v, l, t>> \in granted

IInv == TypeOK /\ VotesOnce /\ VotesRemembered /\ VotesCounted /\ Elected

LEMMA MajoritiesMeet ==
  ASSUME NEW P \in SUBSET Drones, NEW Q \in SUBSET Drones, Majority(P), Majority(Q)
  PROVE  \E v \in Drones : v \in P /\ v \in Q
<1>1. /\ Cardinality(Drones) \in Nat /\ Cardinality(P) \in Nat /\ Cardinality(Q) \in Nat
  BY ConsensusAssumption, FS_Subset, FS_CardinalityType
<1>2. Cardinality(P) + Cardinality(Q) > Cardinality(Drones)
  BY <1>1 DEF Majority
<1> QED
  BY <1>2, ConsensusAssumption, FS_MajoritiesIntersect

LEMMA ElectedIsUnique == IInv => OneLeaderPerTerm
<1> SUFFICES ASSUME IInv, NEW x \in led, NEW y \in led, x[2] = y[2]
             PROVE  x[1] = y[1]
  BY DEF OneLeaderPerTerm
<1>1. PICK k \in Drones, t \in Terms : x = <<k, t>>
  BY DEF IInv, TypeOK, Roles
<1>2. PICK l \in Drones, s \in Terms : y = <<l, s>>
  BY DEF IInv, TypeOK, Roles
<1>3. s = t
  BY <1>1, <1>2
<1>4. PICK P \in SUBSET Drones : Majority(P) /\ \A v \in P : <<v, k, t>> \in granted
  BY <1>1 DEF IInv, Elected
<1>5. PICK Q \in SUBSET Drones : Majority(Q) /\ \A v \in Q : <<v, l, t>> \in granted
  BY <1>2, <1>3 DEF IInv, Elected
<1>6. PICK v \in Drones : v \in P /\ v \in Q
  BY <1>4, <1>5, MajoritiesMeet
<1>7. k = l
  BY <1>4, <1>5, <1>6 DEF IInv, VotesOnce
<1> QED
  BY <1>1, <1>2, <1>7

-----------------------------------------------------------------------------
(* Every step keeps it *)

\* A step that grants nothing new and makes nobody leader keeps Elected.
LEMMA ElectedStays ==
  ASSUME IInv, granted \subseteq granted', led' \subseteq led
  PROVE  Elected'
<1> SUFFICES ASSUME NEW l \in Drones, NEW t \in Terms, <<l, t>> \in led'
             PROVE  \E some \in SUBSET Drones :
                      Majority(some) /\ \A v \in some : <<v, l, t>> \in granted'
  BY DEF Elected, Majority
<1>1. PICK some \in SUBSET Drones :
        Majority(some) /\ \A v \in some : <<v, l, t>> \in granted
  BY DEF IInv, Elected
<1> QED
  BY <1>1

\* d votes for c in term t, as it may.
LEMMA OneMoreVote ==
  ASSUME IInv, TypeOK', NEW d \in Drones, NEW c \in Drones, NEW t \in Terms,
         t > term[d] \/ (t = term[d] /\ voted[d] \in {Nobody, c}),
         granted' = granted \cup {<<d, c, t>>},
         term' = [term EXCEPT ![d] = t], voted' = [voted EXCEPT ![d] = c]
  PROVE  VotesOnce' /\ VotesRemembered'
<1> USE DEF IInv, TypeOK, Terms, Roles
<1>1. \A e \in Drones : <<d, e, t>> \in granted => e = c
  BY ConsensusAssumption DEF VotesRemembered
<1>2. VotesOnce'
  BY <1>1 DEF VotesOnce
<1>3. VotesRemembered'
  <2> SUFFICES ASSUME NEW v \in Drones, NEW e \in Drones, NEW s \in Terms,
                      <<v, e, s>> \in granted'
               PROVE  s <= term'[v] /\ (s = term'[v] => voted'[v] = e)
    BY DEF VotesRemembered
  <2>1. CASE v # d
    BY <2>1 DEF VotesRemembered
  <2>2. CASE v = d /\ <<v, e, s>> \in granted
    BY <2>2, <1>1, ConsensusAssumption DEF VotesRemembered
  <2>3. CASE v = d /\ <<v, e, s>> = <<d, c, t>>
    BY <2>3
  <2> QED
    BY <2>1, <2>2, <2>3
<1> QED
  BY <1>2, <1>3

LEMMA PassKeeps ==
  ASSUME IInv, TypeOK', NEW d \in Drones, Pass(d)
  PROVE  IInv'
<1>1. CASE StartElection(d)
  <2> USE <1>1 DEF StartElection
  <2>1. term[d] + 1 \in Terms /\ term[d] \in Nat
    BY ConsensusAssumption DEF IInv, TypeOK, Terms, Roles
  <2>2. VotesOnce' /\ VotesRemembered'
    <3>1. /\ granted' = granted \cup {<<d, d, term[d] + 1>>}
          /\ term' = [term EXCEPT ![d] = term[d] + 1]
          /\ voted' = [voted EXCEPT ![d] = d]
          /\ term[d] + 1 > term[d]
      BY <2>1
    <3> QED
      BY <2>1, <3>1, OneMoreVote
  <2>3. VotesCounted'
    BY <2>1 DEF IInv, TypeOK, VotesCounted, Roles
  <2>4. Elected'
    BY ElectedStays
  <2> QED
    BY <2>2, <2>3, <2>4 DEF IInv
<1>2. CASE CountVotes(d)
  <2> USE <1>2 DEF CountVotes
  <2>1. VotesOnce' /\ VotesRemembered' /\ VotesCounted'
    BY DEF IInv, TypeOK, VotesOnce, VotesRemembered, VotesCounted, Roles
  <2>2. \A v \in votes[d] : <<v, d, term[d]>> \in granted
    BY DEF IInv, VotesCounted
  <2>3. votes[d] \in SUBSET Drones
    BY DEF IInv, TypeOK, Roles
  <2>4. Elected'
    <3> SUFFICES ASSUME NEW l \in Drones, NEW t \in Terms, <<l, t>> \in led'
                 PROVE  \E some \in SUBSET Drones :
                          Majority(some) /\ \A v \in some : <<v, l, t>> \in granted
      BY DEF Elected, Majority
    <3>1. CASE <<l, t>> \in led
      BY <3>1 DEF IInv, Elected
    <3>2. CASE <<l, t>> = <<d, term[d]>>
      BY <3>2, <2>2, <2>3
    <3> QED
      BY <3>1, <3>2
  <2> QED
    BY <2>1, <2>4 DEF IInv
<1>3. CASE GiveUp(d) \/ UNCHANGED <<raft, mail>>
  <2>0. UNCHANGED <<term, voted, votes, granted>>
        /\ \A e \in Drones : role'[e] = "candidate" => role[e] = "candidate"
    BY <1>3 DEF GiveUp, IInv, TypeOK, mail, raft
  <2>1. VotesOnce' /\ VotesRemembered' /\ VotesCounted'
    BY <2>0 DEF IInv, VotesOnce, VotesRemembered, VotesCounted
  <2>2. Elected'
    BY <1>3, ElectedStays DEF GiveUp, mail
  <2> QED
    BY <2>1, <2>2 DEF IInv
<1> QED
  BY <1>1, <1>2, <1>3 DEF Pass, Tick

LEMMA MessagesKeep ==
  ASSUME IInv, TypeOK', NEW d \in Drones, NEW e \in Drones, NEW t \in Terms,
         OnVoteRequest(d, e, t) \/ OnVoteResponse(d, e, t) \/ OnLeaderHeartbeat(d, e, t)
  PROVE  IInv'
<1> USE DEF Terms
<1>1. CASE OnVoteRequest(d, e, t)
  <2> USE <1>1 DEF OnVoteRequest
  <2>1. VotesOnce' /\ VotesRemembered'
    BY OneMoreVote DEF Grants
  <2>2. VotesCounted'
    BY DEF IInv, TypeOK, VotesCounted, Grants, Roles
  <2>3. Elected'
    BY ElectedStays
  <2> QED
    BY <2>1, <2>2, <2>3 DEF IInv
<1>2. CASE OnVoteResponse(d, e, t)
  <2> USE <1>2 DEF OnVoteResponse, mail
  <2>1. VotesOnce' /\ VotesRemembered'
    BY DEF IInv, VotesOnce, VotesRemembered
  <2>2. VotesCounted'
    BY DEF IInv, TypeOK, VotesCounted, Roles
  <2>3. Elected'
    BY ElectedStays
  <2> QED
    BY <2>1, <2>2, <2>3 DEF IInv
<1>3. CASE OnLeaderHeartbeat(d, e, t)
  <2> USE <1>3 DEF OnLeaderHeartbeat, mail
  <2>0. VotesOnce'
    BY DEF IInv, VotesOnce
  <2>1. VotesCounted'
    BY DEF IInv, TypeOK, VotesCounted, Roles
  <2>2. VotesRemembered'
    <3> SUFFICES ASSUME NEW v \in Drones, NEW c \in Drones, NEW s \in Terms,
                        <<v, c, s>> \in granted
                 PROVE  s <= term'[v] /\ (s = term'[v] => voted'[v] = c)
      BY DEF VotesRemembered
    <3>1. s <= term[v] /\ (s = term[v] => voted[v] = c) /\ voted' = voted
      BY DEF IInv, VotesRemembered
    <3>2. term[v] \in Nat /\ term'[v] \in Nat /\ term[v] <= term'[v] /\ s \in Nat
      BY ConsensusAssumption DEF IInv, TypeOK
    <3> QED
      BY <3>1, <3>2
  <2>3. Elected'
    BY ElectedStays
  <2> QED
    BY <2>0, <2>1, <2>2, <2>3 DEF IInv
<1> QED
  BY <1>1, <1>2, <1>3

LEMMA NextKeeps == IInv /\ [Next]_vars => IInv'
<1> SUFFICES ASSUME IInv, [Next]_vars  PROVE IInv'
  OBVIOUS
<1>1. TypeOK'
  BY NextType DEF IInv
<1>2. ASSUME NEW d \in Drones, Pass(d)  PROVE IInv'
  BY <1>1, <1>2, PassKeeps
<1>3. ASSUME NEW d \in Drones, NEW e \in Drones, NEW t \in Terms,
             OnVoteRequest(d, e, t) \/ OnVoteResponse(d, e, t) \/ OnLeaderHeartbeat(d, e, t)
      PROVE  IInv'
  BY <1>1, <1>3, MessagesKeep
<1>4. ASSUME NEW d \in Drones, OnBaseHeartbeat(d)  PROVE IInv'
  <2>1. VotesOnce' /\ VotesRemembered' /\ VotesCounted'
    BY <1>4 DEF OnBaseHeartbeat, mail, IInv, TypeOK, VotesOnce, VotesRemembered, VotesCounted, Roles
  <2>2. Elected'
    BY <1>4, ElectedStays DEF OnBaseHeartbeat, mail
  <2> QED
    BY <1>1, <2>1, <2>2 DEF IInv
<1>5. ASSUME UNCHANGED <<raft, mail>>  PROVE IInv'
  <2>1. VotesOnce' /\ VotesRemembered' /\ VotesCounted'
    BY <1>5 DEF raft, mail, IInv, VotesOnce, VotesRemembered, VotesCounted
  <2>2. Elected'
    BY <1>5, ElectedStays DEF mail
  <2> QED
    BY <1>1, <2>1, <2>2 DEF IInv
<1>6. ASSUME NEW d \in Drones, NEW level, Decide(d, level)  PROVE IInv'
  BY <1>5, <1>6 DEF Decide
<1>7. CASE UNCHANGED vars
  BY <1>5, <1>7 DEF vars
<1> QED
  BY <1>2, <1>3, <1>4, <1>6, <1>7 DEF Next, Step

\* OneLeaderPerTerm: however requests, votes and heartbeats are lost, repeated or late,
\* two drones never lead in the same term, as long as no drone restarts
\* (_consensus_tick, on_vote_request).
THEOREM LeadersAreUnique == Spec => []OneLeaderPerTerm
<1>1. Init => IInv
  BY InitType DEF Init, IInv, VotesOnce, VotesRemembered, VotesCounted, Elected, InitRaft
<1>2. IInv /\ [Next]_vars => IInv'
  BY NextKeeps
<1>3. IInv => OneLeaderPerTerm
  BY ElectedIsUnique
<1> QED
  BY <1>1, <1>2, <1>3, PTL DEF Spec

\* BaseDecides: a drone that hears the base neither leads nor stands (on_base_heartbeat).
THEOREM BaseComesFirst == Spec => []BaseDecides
<1> DEFINE Inv == TypeOK /\ BaseDecides
<1>1. Init => Inv
  BY InitType DEF Init, BaseDecides, InitRaft
<1>2. Inv /\ [Next]_vars => Inv'
  <2> SUFFICES ASSUME Inv, [Next]_vars  PROVE BaseDecides'
    BY NextType
  <2>1. ASSUME NEW d \in Drones, Pass(d)  PROVE BaseDecides'
    BY <2>1 DEF Pass, Tick, StartElection, CountVotes, GiveUp, raft, TypeOK, BaseDecides, Roles
  <2>2. ASSUME NEW d \in Drones, OnBaseHeartbeat(d)  PROVE BaseDecides'
    BY <2>2 DEF OnBaseHeartbeat, TypeOK, BaseDecides, Roles
  <2>3. ASSUME NEW d \in Drones, NEW e \in Drones, NEW t \in Terms,
               OnVoteRequest(d, e, t) \/ OnVoteResponse(d, e, t) \/ OnLeaderHeartbeat(d, e, t)
        PROVE  BaseDecides'
    BY <2>3 DEF OnVoteRequest, OnVoteResponse, OnLeaderHeartbeat, TypeOK, BaseDecides, Roles
  <2>4. ASSUME NEW d \in Drones, NEW level, Decide(d, level)  PROVE BaseDecides'
    BY <2>4 DEF Decide, raft, BaseDecides
  <2>5. CASE UNCHANGED vars
    BY <2>5 DEF vars, raft, BaseDecides
  <2> QED
    BY <2>1, <2>2, <2>3, <2>4, <2>5 DEF Next, Step
<1> QED
  BY <1>1, <1>2, PTL DEF Spec
================================================================================
