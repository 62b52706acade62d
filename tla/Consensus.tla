-------------------------------- MODULE Consensus ------------------------------
(***************************************************************************)
(* olympus_brain/swarm_consensus.py: drones that have lost the base elect  *)
(* a leader among themselves, which decides what a human would have        *)
(* approved.                                                               *)
(*                                                                         *)
(* One pass of the loop of a drone runs without suspending; what arrives   *)
(* is handled between two passes.  The transport is the caller's: here a   *)
(* request, a vote or a heartbeat may arrive late, repeatedly or never, so *)
(* what has ever been sent is kept.  Clocks and the random timeouts are    *)
(* left open.                                                              *)
(***************************************************************************)
EXTENDS Naturals, FiniteSets

CONSTANTS
  Drones,       \* each has all the others for its known_peers
  MaxApprovals, \* max_tasks_autonomous
  MaxTerm,      \* bound: terms
  Nobody

ASSUME ConsensusAssumption ==
  /\ IsFiniteSet(Drones) /\ Nobody \notin Drones
  /\ MaxApprovals \in Nat /\ MaxTerm \in Nat

VARIABLES
  role,     \* RaftState.role
  term,     \* .term
  voted,    \* .voted_for
  leader,   \* .leader_id
  votes,    \* .votes_received
  based,    \* _base_connected
  running,  \* _running
  approved, \* _tasks_approved_autonomous
  stood,    \* <<c, t>>: c has asked for votes in term t
  granted,  \* <<v, c, t>>: v has voted for c in term t
  led       \* <<l, t>>: l has been leader of term t, and has said so

raft  == <<role, term, voted, leader, votes>>
mail  == <<stood, granted, led>>
vars == <<raft, based, running, approved, mail>>

Terms == 0..MaxTerm

\* RaftRole
Roles == {"follower", "candidate", "leader"}

\* Types; no drone approves more than its rules of engagement allow.
TypeOK ==
  /\ role \in [Drones -> Roles]
  /\ term \in [Drones -> Terms]
  /\ voted \in [Drones -> Drones \cup {Nobody}]
  /\ leader \in [Drones -> Drones \cup {Nobody}]
  /\ votes \in [Drones -> SUBSET Drones]
  /\ based \in [Drones -> BOOLEAN] /\ running \in [Drones -> BOOLEAN]
  /\ approved \in [Drones -> 0..MaxApprovals]
  /\ stood \subseteq Drones \X Terms
  /\ granted \subseteq Drones \X Drones \X Terms
  /\ led \subseteq Drones \X Terms

\* The defaults of RaftState
InitRaft ==
  /\ role = [d \in Drones |-> "follower"]
  /\ term = [d \in Drones |-> 0]
  /\ voted = [d \in Drones |-> Nobody] /\ leader = [d \in Drones |-> Nobody]
  /\ votes = [d \in Drones |-> {}]

Init ==
  /\ InitRaft
  /\ based = [d \in Drones |-> TRUE] /\ running = [d \in Drones |-> TRUE]
  /\ approved = [d \in Drones |-> 0]
  /\ stood = {} /\ granted = {} /\ led = {}

-----------------------------------------------------------------------------
(* The loop of a drone that has lost the base, for longer than now or just now *)

\* Mutant of Majority: half of the drones, rounded down, will do.
Half(some) == Cardinality(some) >= Cardinality(Drones) \div 2

Majority(some) == Cardinality(some) >= (Cardinality(Drones) \div 2) + 1

\* _start_election
StartElection(d) ==
  /\ role[d] = "follower" /\ term[d] < MaxTerm
  /\ term' = [term EXCEPT ![d] = @ + 1]
  /\ role' = [role EXCEPT ![d] = "candidate"]
  /\ voted' = [voted EXCEPT ![d] = d]
  /\ votes' = [votes EXCEPT ![d] = {d}]
  /\ stood' = stood \cup {<<d, term[d] + 1>>}
  /\ granted' = granted \cup {<<d, d, term[d] + 1>>}
  /\ UNCHANGED <<leader, led>>

\* The votes are counted before the clock is looked at, so that a candidate may win
\* and give up in one tick.
CountVotes(d) ==
  /\ role[d] = "candidate" /\ Majority(votes[d])
  /\ leader' = [leader EXCEPT ![d] = d]
  /\ \/ role' = [role EXCEPT ![d] = "leader"] /\ led' = led \cup {<<d, term[d]>>}
     \/ role' = [role EXCEPT ![d] = "follower"] /\ UNCHANGED led
  /\ UNCHANGED <<term, voted, votes, stood, granted>>

GiveUp(d) ==
  /\ role[d] = "candidate" /\ ~Majority(votes[d])
  /\ role' = [role EXCEPT ![d] = "follower"]
  /\ UNCHANGED <<term, voted, leader, votes, mail>>

\* _consensus_tick
Tick(d) ==
  \/ StartElection(d) \/ CountVotes(d) \/ GiveUp(d)
  \/ UNCHANGED <<raft, mail>>

\* One pass of run that finds the base lost; after a long time without it the loop
\* ends ("signaling RTL"), the role stays.
Pass(d) ==
  /\ running[d]
  /\ based' = [based EXCEPT ![d] = FALSE]
  /\ Tick(d)
  /\ \/ UNCHANGED running
     \/ ~based[d] /\ running' = [running EXCEPT ![d] = FALSE]
  /\ UNCHANGED approved

\* Mutant of OnBaseHeartbeat: the leader does not step down.
OnBaseHeartbeatOnly(d) ==
  /\ ~based[d]
  /\ based' = [based EXCEPT ![d] = TRUE]
  /\ leader' = [leader EXCEPT ![d] = Nobody]
  /\ UNCHANGED <<role, term, voted, votes, running, approved, mail>>

OnBaseHeartbeat(d) ==
  /\ ~based[d]
  /\ based' = [based EXCEPT ![d] = TRUE]
  /\ role' = [role EXCEPT ![d] = "follower"]
  /\ leader' = [leader EXCEPT ![d] = Nobody]
  /\ UNCHANGED <<term, voted, votes, running, approved, mail>>

-----------------------------------------------------------------------------
(* What arrives from another drone *)

Grants(d, c, t) == t > term[d] \/ (t = term[d] /\ voted[d] \in {Nobody, c})

OnVoteRequest(d, c, t) ==
  /\ <<c, t>> \in stood /\ c # d
  /\ Grants(d, c, t)
  /\ term' = [term EXCEPT ![d] = t]
  /\ role' = [role EXCEPT ![d] = IF t > term[d] THEN "follower" ELSE @]
  /\ voted' = [voted EXCEPT ![d] = c]
  /\ granted' = granted \cup {<<d, c, t>>}
  /\ UNCHANGED <<leader, votes, based, running, approved, stood, led>>

\* A vote of another term is not counted.
OnVoteResponse(d, v, t) ==
  /\ <<v, d, t>> \in granted /\ v # d
  /\ t = term[d]
  /\ votes' = [votes EXCEPT ![d] = @ \cup {v}]
  /\ UNCHANGED <<role, term, voted, leader, based, running, approved, mail>>

\* The vote of an earlier term is not forgotten.
OnLeaderHeartbeat(d, l, t) ==
  /\ <<l, t>> \in led /\ l # d
  /\ t >= term[d]
  /\ term' = [term EXCEPT ![d] = t]
  /\ role' = [role EXCEPT ![d] = "follower"]
  /\ leader' = [leader EXCEPT ![d] = l]
  /\ UNCHANGED <<voted, votes, based, running, approved, mail>>

-----------------------------------------------------------------------------
(* Requests to be decided *)

\* decide_escalation
Approves(d, level) == approved[d] < MaxApprovals /\ level # "emergency"

Decide(d, level) ==
  /\ role[d] = "leader"
  /\ approved' = [approved EXCEPT ![d] = IF Approves(d, level) THEN @ + 1 ELSE @]
  /\ UNCHANGED <<raft, based, running, mail>>

-----------------------------------------------------------------------------
Step ==
  \/ \E d \in Drones : Pass(d) \/ OnBaseHeartbeat(d)
  \/ \E d, e \in Drones, t \in Terms :
       OnVoteRequest(d, e, t) \/ OnVoteResponse(d, e, t) \/ OnLeaderHeartbeat(d, e, t)

Next ==
  \/ Step
  \/ \E d \in Drones, level \in {"approve_required", "emergency"} : Decide(d, level)

Spec == Init /\ [][Next]_vars

-----------------------------------------------------------------------------
(* Properties *)

\* In no term are there two leaders, whatever is lost, late or repeated
\* (_consensus_tick, on_vote_request).
OneLeaderPerTerm ==
  \A x, y \in led : x[2] = y[2] => x[1] = y[1]

\* A drone that hears the base neither leads nor stands: it is the base that decides
\* (on_base_heartbeat: "Base station comms RESTORED").
BaseDecides ==
  \A d \in Drones : based[d] => role[d] = "follower"
================================================================================
