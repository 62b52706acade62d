------------------------------ MODULE ModelUpdate ------------------------------
(***************************************************************************)
(* The fleet's model and how it is replaced: the aggregator of the base    *)
(* station, which trains on every detection (CentralAggregator of          *)
(* olympus_brain/swarmnet.py), the agent that recalls the fleet, pushes a  *)
(* version, waits for its acknowledgements and redeploys (ai_agent.py),    *)
(* and the controller on each scout (SwarmNetController).                  *)
(*                                                                         *)
(* The agent is a coroutine; what arrives is handled in threads of the     *)
(* transport, so it may come between any two of its steps.  A node handles *)
(* a command twice, once for each of its two subscriptions that match; the *)
(* handlers here do the same the second time.                              *)
(***************************************************************************)
EXTENDS Integers, FiniteSets, TrustGate

CONSTANTS
  Scouts,
  Registry,    \* trust_registry of the base's node
  MaxVersion,  \* bound: versions pushed
  MaxDrifts,   \* bound: drifts seen and not yet answered
  MaxRestarts  \* bound: restarts of the base station

Versions == 0..MaxVersion

ASSUME UpdateAssumption ==
  /\ DOMAIN Registry \subseteq Scouts
  /\ MaxVersion \in Nat \ {0} /\ MaxDrifts \in Nat \ {0} /\ MaxRestarts \in Nat

VARIABLES
  drifts,    \* aggregator._drift_retrain_count
  interval,  \* retrain_interval has elapsed since the last version
  version,   \* aggregator._global_version
  running,   \* AIAgent._running
  pc,        \* where the cycle of the agent is
  recalled,  \* the last order to the fleet was RECALL_FOR_UPDATE
  asked,     \* the scouts the last version was expected to be confirmed by
  pending,   \* _pending_acks
  waited,    \* _ack_timeout_s has passed since the push
  confirmed, \* the agent has logged that all scouts confirmed the version
  loaded,    \* _global_version of each scout's controller
  weights,   \* pushed versions under way to a scout
  acks,      \* MODEL_ACKs under way to the base
  restarts,  \* counts the restarts of the base
  answer,    \* history: the version a scout acknowledged that is waited for no more
  rebooted   \* history: scouts that have been restarted

learning == <<drifts, interval>>
agent    == <<running, pc, recalled, asked, pending, waited, confirmed>>
network  == <<weights, acks>>
history  == <<answer, rebooted>>
vars     == <<learning, version, agent, loaded, network, restarts, history>>

Notes == [scout : Scouts, version : Versions]

TypeOK ==
  /\ drifts \in 0..MaxDrifts /\ interval \in BOOLEAN
  /\ version \in Versions
  /\ running \in BOOLEAN
  /\ pc \in {"watch", "recalled", "expecting", "waiting", "done"}
  /\ recalled \in BOOLEAN /\ waited \in BOOLEAN /\ confirmed \in BOOLEAN
  /\ asked \subseteq Scouts /\ pending \subseteq Scouts
  /\ loaded \in [Scouts -> Versions]
  /\ weights \subseteq Notes /\ acks \subseteq Notes
  /\ restarts \in 0..MaxRestarts
  /\ answer \in [Scouts -> Versions] /\ rebooted \subseteq Scouts

Init ==
  /\ drifts = 0 /\ interval = FALSE /\ version = 0
  /\ running = TRUE /\ pc = "watch" /\ recalled = FALSE
  /\ asked = {} /\ pending = {} /\ waited = FALSE /\ confirmed = FALSE
  /\ loaded = [s \in Scouts |-> 0]
  /\ weights = {} /\ acks = {}
  /\ restarts = 0
  /\ answer = [s \in Scouts |-> 0] /\ rebooted = {}

-----------------------------------------------------------------------------
(* The base: what the aggregator learns *)

\* receive_detection, which trains on it: the Page-Hinkley test on the accuracy fires
\* and starts over.  When it does not, nothing changes here.
ReceiveDetection == drifts' = drifts + 1

\* _on_detection of the node hands it to the aggregator.
OnDetection ==
  /\ drifts < MaxDrifts
  /\ ReceiveDetection
  /\ UNCHANGED <<interval, version, agent, loaded, network, restarts, history>>

\* Only should_publish looks at the interval, between cycles: one that elapses in a
\* cycle is seen to have elapsed after it.
IntervalElapses ==
  /\ ~interval /\ pc = "watch"
  /\ interval' = TRUE
  /\ UNCHANGED <<drifts, version, agent, loaded, network, restarts, history>>

-----------------------------------------------------------------------------
(* The cycle of the agent *)

ShouldPublish == drifts > 0 \/ interval

\* send_command to the fleet
Order(command) ==
  recalled' = IF IsCommandSent(Registry, Everybody, command)
              THEN command = "RECALL_FOR_UPDATE" ELSE recalled

Recall ==
  /\ running /\ pc = "watch" /\ ShouldPublish /\ version < MaxVersion
  /\ Order("RECALL_FOR_UPDATE")
  /\ pc' = "recalled"
  /\ UNCHANGED <<learning, version, running, asked, pending, waited, confirmed, loaded,
                 network, restarts, history>>

\* get_global_weights
NewVersion ==
  /\ version' = version + 1
  /\ interval' = FALSE
  /\ drifts' = IF drifts = 0 THEN 0 ELSE drifts - 1

\* Mutant of Expect: the scouts of the first cycle are expected in every later one.
ExpectOnce(known) ==
  /\ asked' = known
  /\ pending' = IF version = 0 THEN known ELSE pending
  /\ answer' = [s \in Scouts |-> 0]

\* The scouts that have to acknowledge, set after the version is made and before it
\* is published.
Expect(known) ==
  /\ asked' = known
  /\ pending' = known
  /\ answer' = [s \in Scouts |-> 0]

\* The new version and the scouts to wait for: those the node has heard of by now
\* (get_scouts).  Acknowledgements of an earlier version may come before this one is
\* published.
Prepare ==
  /\ pc = "recalled"
  /\ NewVersion
  /\ \E known \in SUBSET Scouts : Expect(known)
  /\ pc' = "expecting"
  /\ UNCHANGED <<running, recalled, waited, confirmed, loaded, network, restarts, rebooted>>

\* _publish_global_model: one message, to every scout
Publish(v) == weights' = weights \cup {[scout |-> s, version |-> v] : s \in Scouts}

Push ==
  /\ pc = "expecting"
  /\ Publish(version)
  /\ pc' = "waiting"
  /\ UNCHANGED <<learning, version, running, recalled, asked, pending, waited, confirmed,
                 loaded, acks, restarts, history>>

TimeoutPasses ==
  /\ pc = "waiting" /\ ~waited
  /\ waited' = TRUE
  /\ UNCHANGED <<learning, version, running, pc, recalled, asked, pending, confirmed,
                 loaded, network, restarts, history>>

\* Mutant of WaitOver: the wait is for the acknowledgements alone.
AllAcked == pending = {}

\* _recall_retrain_redeploy waits while acks are pending and the time is not over.
WaitOver == pending = {} \/ waited

EndWait ==
  /\ pc = "waiting" /\ WaitOver
  /\ confirmed' = (pending = {})
  /\ pc' = "done"
  /\ UNCHANGED <<learning, version, running, recalled, asked, pending, waited, loaded,
                 network, restarts, history>>

\* What only the cycle knows is gone with it; pending stays as it is.
EndCycle ==
  /\ pc' = "watch"
  /\ asked' = {} /\ waited' = FALSE /\ confirmed' = FALSE
  /\ answer' = [s \in Scouts |-> 0]

Redeploy ==
  /\ pc = "done"
  /\ Order("REDEPLOY")
  /\ EndCycle
  /\ UNCHANGED <<learning, version, running, pending, loaded, network, restarts, rebooted>>

\* _on_command, unless that of the node drops the ack: many a scout is not in the
\* registry of the base.  Which version is acknowledged is not looked at.
OnAck(a) ==
  LET counts == IsCommandAllowed(Registry, a.scout, "MODEL_ACK") IN
  /\ a \in acks
  /\ acks' = acks \ {a}
  /\ pending' = IF counts THEN pending \ {a.scout} ELSE pending
  /\ answer' = IF counts /\ a.scout \in pending
               THEN [answer EXCEPT ![a.scout] = a.version] ELSE answer
  /\ UNCHANGED <<learning, version, running, pc, recalled, asked, waited, confirmed,
                 loaded, weights, restarts, rebooted>>

\* stop: the cycle is cancelled where it awaits something.
Stop ==
  /\ running /\ pc # "expecting"
  /\ running' = FALSE
  /\ EndCycle
  /\ UNCHANGED <<learning, version, recalled, pending, loaded, network, restarts, rebooted>>

\* An aggregator that counts from 0 again
NewAggregator == drifts' = 0 /\ interval' = FALSE /\ version' = 0

\* An agent that remembers no cycle, and starts
NewAgent ==
  /\ running' = TRUE /\ pending' = {}
  /\ EndCycle

\* The process of the base starts again.  The fleet stays as it is.
Restart ==
  /\ restarts < MaxRestarts
  /\ restarts' = restarts + 1
  /\ NewAggregator /\ NewAgent
  /\ UNCHANGED <<recalled, loaded, network, rebooted>>

-----------------------------------------------------------------------------
(* A scout *)

SendModelAck(s, v) == acks' = acks \cup {[scout |-> s, version |-> v]}

\* receive_global_weights: only a newer version is loaded, and acknowledged.
ReceiveGlobalWeights(s, v) ==
  IF v > loaded[s] THEN loaded' = [loaded EXCEPT ![s] = v] /\ SendModelAck(s, v)
  ELSE UNCHANGED <<loaded, acks>>

\* _on_global_model hands the version to the controller.
Receive(w) ==
  /\ w \in weights
  /\ weights' = weights \ {w}
  /\ ReceiveGlobalWeights(w.scout, w.version)
  /\ UNCHANGED <<learning, version, agent, restarts, history>>

\* Messages to or from a scout that is out of reach are lost.
Miss ==
  /\ \/ \E w \in weights : weights' = weights \ {w} /\ UNCHANGED acks
     \/ \E a \in acks : acks' = acks \ {a} /\ UNCHANGED weights
  /\ UNCHANGED <<learning, version, agent, loaded, restarts, history>>

\* The process of a scout starts again with the model it was built with.
Reboot(s) ==
  /\ loaded[s] # 0
  /\ loaded' = [loaded EXCEPT ![s] = 0]
  /\ rebooted' = rebooted \cup {s}
  /\ UNCHANGED <<learning, version, agent, network, restarts, answer>>

-----------------------------------------------------------------------------
Cycle == Recall \/ Prepare \/ Push \/ EndWait \/ Redeploy

Deliver ==
  \/ \E a \in acks : OnAck(a)
  \/ \E w \in weights : Receive(w)
  \/ Miss

Next ==
  \/ OnDetection \/ IntervalElapses
  \/ \E s \in Scouts : Reboot(s)
  \/ Cycle \/ TimeoutPasses \/ Stop \/ Restart
  \/ Deliver

Spec == Init /\ [][Next]_vars

\* The coroutine goes on, time passes, and what is sent arrives or is lost.
FairSpec ==
  /\ Spec
  /\ WF_vars(Cycle) /\ WF_vars(TimeoutPasses) /\ WF_vars(Deliver) /\ WF_vars(IntervalElapses)

-----------------------------------------------------------------------------
(* Properties *)

\* A fleet that is recalled is sent out again, whichever scouts are lost, unknown to
\* the base or never answer, and if the base restarts meanwhile, unless the agent is
\* stopped.
RecallIsLifted == recalled ~> (~recalled \/ ~running)

\* When the agent reports that all scouts confirmed the version, every scout it knew
\* when it made the version has acknowledged one since, and has that one or a newer
\* unless the scout was restarted.  It need not be the version just pushed: an
\* acknowledgement of an earlier one that comes late counts (ai_agent.py:140).
ConfirmedHasLoaded ==
  pc = "done" /\ confirmed =>
    \A s \in asked : answer[s] > 0 /\ (loaded[s] >= answer[s] \/ s \in rebooted)
================================================================================
