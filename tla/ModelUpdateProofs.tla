---------------------------- MODULE ModelUpdateProofs ---------------------------
(***************************************************************************)
(* Theorems about ModelUpdate, for every set of scouts, every registry of  *)
(* the base, and every number of versions, drifts and restarts: types, and *)
(* what the report that all scouts confirmed is worth, however late the    *)
(* messages of one cycle come in another.                                  *)
(*                                                                         *)
(* ConfirmedHasLoaded speaks of the moment the agent has stopped waiting.  *)
(* What is inductive is that a scout has every version it acknowledges,    *)
(* wherever the acknowledgement is, unless the scout has been restarted,   *)
(* and that a scout no longer waited for has been heard from.              *)
(***************************************************************************)
EXTENDS ModelUpdate, TLAPS

Cycling == pc \in {"expecting", "waiting", "done"}

\* The scout has this version or a newer one, or has been restarted.
Has(s, v) == loaded[s] >= v \/ s \in rebooted

AckedIsLoaded == \A a \in acks : a.version > 0 /\ Has(a.scout, a.version)
AnsweredLoad  == \A s \in Scouts : Has(s, answer[s])
HeardFrom     == Cycling => \A s \in asked \ pending : answer[s] > 0
Reported      == pc = "done" /\ confirmed => pending = {}
PushedIsNew   == \A w \in weights : w.version > 0
VersionMade   == pc \in {"expecting", "waiting"} => version > 0
RoomToPush    == pc = "recalled" => version < MaxVersion

Types == TypeOK /\ RoomToPush
IInv  == Types /\ AckedIsLoaded /\ AnsweredLoad /\ HeardFrom /\ Reported /\ PushedIsNew /\ VersionMade

-----------------------------------------------------------------------------
(* Types *)

LEMMA Bounds ==
  /\ MaxVersion \in Nat /\ MaxDrifts \in Nat /\ MaxRestarts \in Nat
  /\ 0 \in Versions
BY UpdateAssumption DEF UpdateAssumption, Versions

LEMMA InitTypes == Init => Types
<1> SUFFICES ASSUME Init  PROVE Types
  OBVIOUS
<1>1. /\ drifts \in 0..MaxDrifts /\ version \in Versions /\ restarts \in 0..MaxRestarts
      /\ loaded \in [Scouts -> Versions] /\ RoomToPush
  BY Bounds DEF Init, RoomToPush
<1>2. /\ interval \in BOOLEAN /\ running \in BOOLEAN /\ recalled \in BOOLEAN
      /\ waited \in BOOLEAN /\ confirmed \in BOOLEAN
  BY Zenon DEF Init
<1> QED
  BY <1>1, <1>2 DEF Init, Types, TypeOK

LEMMA NextTypes == Types /\ [Next]_vars => Types'
<1> SUFFICES ASSUME Types, [Next]_vars  PROVE Types'
  OBVIOUS
<1> USE Bounds DEF Types, RoomToPush
<1>1. CASE OnDetection
  BY <1>1 DEF OnDetection, ReceiveDetection, TypeOK, agent, network, history
<1>2. CASE IntervalElapses
  BY <1>2 DEF IntervalElapses, TypeOK, agent, network, history
<1>3. CASE Prepare
  <2>1. version' \in Versions
    BY <1>3 DEF Prepare, NewVersion, TypeOK, Versions
  <2>2. drifts' \in 0..MaxDrifts
    BY <1>3 DEF Prepare, NewVersion, TypeOK
  <2>3. interval' \in BOOLEAN
    BY <1>3, Zenon DEF Prepare, NewVersion
  <2>4. asked' \subseteq Scouts /\ pending' \subseteq Scouts /\ answer' \in [Scouts -> Versions]
    BY <1>3 DEF Prepare, Expect
  <2> QED BY <1>3, <2>1, <2>2, <2>3, <2>4 DEF Prepare, TypeOK, network
<1>4. ASSUME NEW s \in Scouts, Reboot(s)  PROVE Types'
  BY <1>4 DEF Reboot, TypeOK, learning, agent, network, Versions
<1>5. CASE Recall
  <2>1. recalled' \in BOOLEAN
    BY <1>5 DEF Recall, Order, TypeOK
  <2> QED BY <1>5, <2>1 DEF Recall, TypeOK, learning, network, history
<1>6. CASE Push
  <2>1. weights' \subseteq Notes
    BY <1>6 DEF Push, Publish, TypeOK, Notes
  <2> QED BY <1>6, <2>1 DEF Push, TypeOK, learning, history
<1>7. CASE EndWait
  BY <1>7 DEF EndWait, TypeOK, learning, network, history
<1>8. CASE Redeploy
  <2>1. recalled' \in BOOLEAN
    BY <1>8 DEF Redeploy, Order, TypeOK
  <2>2. answer' \in [Scouts -> Versions]
    BY <1>8 DEF Redeploy, EndCycle
  <2> QED BY <1>8, <2>1, <2>2 DEF Redeploy, EndCycle, TypeOK, learning, network
<1>9. CASE TimeoutPasses
  BY <1>9 DEF TimeoutPasses, TypeOK, learning, network, history
<1>10. CASE Stop
  <2>1. answer' \in [Scouts -> Versions]
    BY <1>10 DEF Stop, EndCycle
  <2> QED BY <1>10, <2>1 DEF Stop, EndCycle, TypeOK, learning, network
<1>11. CASE Restart
  <2>1. drifts' \in 0..MaxDrifts /\ version' \in Versions /\ restarts' \in 0..MaxRestarts
    BY <1>11 DEF Restart, NewAggregator, TypeOK
  <2>2. /\ interval' \in BOOLEAN /\ running' \in BOOLEAN
        /\ waited' \in BOOLEAN /\ confirmed' \in BOOLEAN
    BY <1>11, Zenon DEF Restart, NewAggregator, NewAgent, EndCycle
  <2>3. answer' \in [Scouts -> Versions]
    BY <1>11 DEF Restart, NewAgent, EndCycle
  <2> QED BY <1>11, <2>1, <2>2, <2>3 DEF Restart, NewAggregator, NewAgent, EndCycle, TypeOK, network
<1>12. ASSUME NEW a \in acks, OnAck(a)  PROVE Types'
  <2>1. pending' \subseteq Scouts /\ acks' \subseteq Notes
    BY <1>12 DEF OnAck, TypeOK
  <2>2. answer' \in [Scouts -> Versions]
    BY <1>12 DEF OnAck, TypeOK, Notes
  <2> QED BY <1>12, <2>1, <2>2 DEF OnAck, TypeOK, learning
<1>13. ASSUME NEW w \in weights, Receive(w)  PROVE Types'
  <2>1. w.scout \in Scouts /\ w.version \in Versions
    BY DEF TypeOK, Notes
  <2>2. loaded' \in [Scouts -> Versions] /\ acks' \subseteq Notes
    BY <1>13, <2>1 DEF Receive, ReceiveGlobalWeights, SendModelAck, TypeOK, Notes
  <2> QED BY <1>13, <2>2 DEF Receive, TypeOK, learning, agent, history
<1>14. CASE Miss
  BY <1>14 DEF Miss, TypeOK, learning, agent, history
<1>15. CASE UNCHANGED vars
  BY <1>15 DEF vars, TypeOK, learning, agent, network, history
<1> QED
  BY <1>1, <1>2, <1>3, <1>4, <1>5, <1>6, <1>7, <1>8, <1>9, <1>10, <1>11, <1>12, <1>13, <1>14,
     <1>15
  DEF Next, Cycle, Deliver

\* Every reachable state is well typed, whatever is lost or restarted.
THEOREM TypeCorrect == Spec => []TypeOK
<1>1. Types => TypeOK
  BY DEF Types
<1> QED
  BY InitTypes, NextTypes, <1>1, PTL DEF Spec

-----------------------------------------------------------------------------
(* The cycle *)

LEMMA InitIInv == Init => IInv
BY InitTypes, Bounds
DEF Init, IInv, Types, TypeOK, Versions, AckedIsLoaded, AnsweredLoad, HeardFrom, Reported, PushedIsNew,
    VersionMade, Has, Cycling

\* What is inductive beside the types.
Goal == AckedIsLoaded /\ AnsweredLoad /\ HeardFrom /\ Reported /\ PushedIsNew /\ VersionMade

\* The cycle is over, and nothing is claimed of it any more.
LEMMA EndKeeps ==
  ASSUME IInv, EndCycle, UNCHANGED <<loaded, network, rebooted>>, Types'
  PROVE  Goal'
<1>1. \A s \in Scouts : answer'[s] = 0 /\ loaded'[s] \in Nat
  BY DEF EndCycle, Types, TypeOK, Versions
<1>2. AckedIsLoaded' /\ PushedIsNew'
  BY DEF IInv, AckedIsLoaded, PushedIsNew, Has, network
<1>3. AnsweredLoad'
  BY <1>1 DEF AnsweredLoad, Has
<1> QED
  BY <1>2, <1>3 DEF EndCycle, Goal, HeardFrom, Reported, VersionMade, Cycling

\* A version is made: all are waited for, and none has answered.
LEMMA PrepareKeeps ==
  ASSUME IInv, Prepare, Types'
  PROVE  Goal'
<1>1. /\ \A s \in Scouts : answer'[s] = 0 /\ loaded'[s] \in Nat
      /\ asked' = pending' /\ version' = version + 1 /\ version \in Nat /\ pc' = "expecting"
      /\ UNCHANGED <<loaded, network, rebooted>>
  BY Bounds DEF Prepare, Expect, NewVersion, IInv, Types, TypeOK, Versions
<1>2. AckedIsLoaded' /\ PushedIsNew'
  BY <1>1 DEF IInv, AckedIsLoaded, PushedIsNew, Has, network
<1>3. AnsweredLoad'
  BY <1>1 DEF AnsweredLoad, Has
<1>4. VersionMade'
  BY <1>1 DEF VersionMade
<1> QED
  BY <1>1, <1>2, <1>3, <1>4 DEF Goal, HeardFrom, Reported

\* An acknowledgement takes a scout off the list that has the version it is about.
LEMMA AckKeeps ==
  ASSUME IInv, NEW a \in acks, OnAck(a)
  PROVE  Goal'
<1>1. /\ UNCHANGED <<pc, version, asked, confirmed, loaded, weights, rebooted>>
      /\ acks' \subseteq acks
  BY DEF OnAck, learning
<1>2. /\ a.scout \in Scouts /\ a.version > 0 /\ Has(a.scout, a.version)
      /\ answer \in [Scouts -> Versions]
  BY DEF IInv, Types, TypeOK, Notes, AckedIsLoaded
<1>3. \/ UNCHANGED <<pending, answer>>
      \/ /\ pending' = pending \ {a.scout}
         /\ answer' = IF a.scout \in pending THEN [answer EXCEPT ![a.scout] = a.version] ELSE answer
  BY DEF OnAck
<1>4. AckedIsLoaded' /\ PushedIsNew' /\ VersionMade'
  BY <1>1 DEF IInv, AckedIsLoaded, PushedIsNew, VersionMade, Has
<1>5. AnsweredLoad'
  BY <1>1, <1>2, <1>3 DEF IInv, AnsweredLoad, Has
<1>6. HeardFrom'
  <2> SUFFICES ASSUME Cycling, NEW s \in asked, s \notin pending'  PROVE answer'[s] > 0
    BY <1>1 DEF HeardFrom, Cycling
  <2>1. s \in Scouts
    BY DEF IInv, Types, TypeOK
  <2>2. CASE s \notin pending
    <3>1. answer[s] > 0
      BY <2>2 DEF IInv, HeardFrom
    <3> QED BY <1>2, <1>3, <2>1, <2>2, <3>1
  <2>3. CASE s \in pending
    BY <1>2, <1>3, <2>1, <2>3
  <2> QED BY <2>2, <2>3
<1>7. Reported'
  BY <1>1, <1>3 DEF IInv, Reported
<1> QED
  BY <1>4, <1>5, <1>6, <1>7 DEF Goal

\* A scout loads newer versions only, and has what it acknowledges.
LEMMA ReceiveKeeps ==
  ASSUME IInv, NEW w \in weights, Receive(w)
  PROVE  Goal'
<1>1. /\ UNCHANGED <<pc, version, asked, pending, confirmed, answer, rebooted>>
      /\ weights' \subseteq weights
  BY DEF Receive, learning, agent, history
<1>2. /\ w.scout \in Scouts /\ w.version \in Nat /\ w.version > 0
      /\ loaded \in [Scouts -> Versions] /\ acks \subseteq Notes
  BY DEF IInv, Types, TypeOK, Notes, Versions, PushedIsNew
<1>3. HeardFrom' /\ Reported' /\ PushedIsNew' /\ VersionMade'
  BY <1>1 DEF IInv, HeardFrom, Reported, PushedIsNew, VersionMade, Cycling
<1>4. CASE UNCHANGED <<loaded, acks>>
  BY <1>1, <1>3, <1>4 DEF Goal, IInv, AckedIsLoaded, AnsweredLoad, Has
<1>5. CASE /\ w.version > loaded[w.scout]
           /\ loaded' = [loaded EXCEPT ![w.scout] = w.version]
           /\ acks' = acks \cup {[scout |-> w.scout, version |-> w.version]}
  <2>1. ASSUME NEW s \in Scouts, NEW v \in Nat, Has(s, v)  PROVE Has(s, v)'
    BY <1>1, <1>2, <1>5, <2>1 DEF Has, Versions
  <2>2. AnsweredLoad'
    <3>1. \A s \in Scouts : answer[s] \in Nat
      BY DEF IInv, Types, TypeOK, Versions
    <3> QED BY <1>1, <2>1, <3>1 DEF IInv, AnsweredLoad, Has
  <2>3. Has(w.scout, w.version)'
    BY <1>2, <1>5 DEF Has
  <2>4. AckedIsLoaded'
    <3>1. \A a \in acks : a.scout \in Scouts /\ a.version \in Nat /\ a.version > 0 /\ Has(a.scout, a.version)
      BY <1>2 DEF Notes, Versions, IInv, AckedIsLoaded
    <3>2. \A a \in acks : a.version > 0 /\ Has(a.scout, a.version)'
      BY <2>1, <3>1
    <3> QED BY <1>2, <1>5, <2>3, <3>2 DEF AckedIsLoaded, Has
  <2> QED
    BY <1>3, <2>2, <2>4 DEF Goal
<1> QED
  BY <1>4, <1>5 DEF Receive, ReceiveGlobalWeights, SendModelAck

LEMMA NextIInv == IInv /\ [Next]_vars => IInv'
<1> SUFFICES ASSUME IInv, [Next]_vars  PROVE Goal'
  BY NextTypes DEF IInv, Goal
<1> USE DEF Goal
<1>0. Types'
  BY NextTypes DEF IInv
<1>1. ASSUME UNCHANGED <<pc, version, asked, pending, confirmed, answer, loaded, rebooted, network>>
      PROVE  Goal'
  BY <1>1 DEF IInv, AckedIsLoaded, AnsweredLoad, HeardFrom, Reported, PushedIsNew, VersionMade,
              Has, Cycling, network
<1>2. CASE OnDetection \/ IntervalElapses \/ TimeoutPasses \/ UNCHANGED vars
  BY <1>1, <1>2 DEF OnDetection, IntervalElapses, TimeoutPasses, vars, agent, network, history
<1>3. CASE Prepare
  BY <1>0, <1>3, PrepareKeeps
<1>4. ASSUME NEW s \in Scouts, Reboot(s)  PROVE Goal'
  <2>1. UNCHANGED <<pc, version, asked, pending, confirmed, answer, network>>
    BY <1>4 DEF Reboot, agent
  <2>2. \A t \in Scouts : \A v : Has(t, v) => Has(t, v)'
    BY <1>4 DEF Reboot, Has, IInv, Types, TypeOK
  <2>3. \A a \in acks : a.scout \in Scouts
    BY DEF IInv, Types, TypeOK, Notes
  <2>4. AckedIsLoaded' /\ AnsweredLoad'
    BY <2>1, <2>2, <2>3 DEF IInv, AckedIsLoaded, AnsweredLoad, network
  <2> QED
    BY <2>1, <2>4 DEF IInv, HeardFrom, Reported, PushedIsNew, VersionMade, Cycling, network
<1>5. CASE Recall
  BY <1>5 DEF Recall, IInv, AckedIsLoaded, AnsweredLoad, HeardFrom, Reported, PushedIsNew, VersionMade,
              Has, Cycling, network, history
<1>6. CASE Push
  <2>1. \A w \in weights' : w.version > 0
    BY <1>6 DEF Push, Publish, IInv, PushedIsNew, VersionMade
  <2> QED
    BY <1>6, <2>1 DEF Push, IInv, AckedIsLoaded, AnsweredLoad, HeardFrom, Reported, PushedIsNew,
                      VersionMade, Has, Cycling, history
<1>7. CASE EndWait
  BY <1>7 DEF EndWait, IInv, AckedIsLoaded, AnsweredLoad, HeardFrom, Reported, PushedIsNew, VersionMade,
              Has, Cycling, network, history
<1>8. CASE Redeploy
  BY <1>0, <1>8, EndKeeps DEF Redeploy
<1>9. CASE Stop
  BY <1>0, <1>9, EndKeeps DEF Stop
<1>10. CASE Restart
  BY <1>0, <1>10, EndKeeps DEF Restart, NewAgent
<1>11. ASSUME NEW a \in acks, OnAck(a)  PROVE Goal'
  BY <1>11, AckKeeps
<1>12. ASSUME NEW w \in weights, Receive(w)  PROVE Goal'
  BY <1>12, ReceiveKeeps
<1>13. CASE Miss
  BY <1>13 DEF Miss, IInv, AckedIsLoaded, AnsweredLoad, HeardFrom, Reported, PushedIsNew, VersionMade,
               Has, Cycling, agent, history
<1> QED
  BY <1>2, <1>3, <1>4, <1>5, <1>6, <1>7, <1>8, <1>9, <1>10, <1>11, <1>12, <1>13
  DEF Next, Cycle, Deliver

\* However late the messages of a cycle come, whatever is lost, and however often the
\* base or a scout is restarted: whenever the agent reports that all scouts confirmed,
\* every scout it knew when it made the version has acknowledged one since, and has
\* that one or a newer unless it was restarted (_recall_retrain_redeploy, _on_command).
THEOREM ConfirmedScoutsHaveLoaded == Spec => []ConfirmedHasLoaded
<1>1. IInv => ConfirmedHasLoaded
  BY DEF IInv, Types, TypeOK, AnsweredLoad, HeardFrom, Reported, Cycling, Has, ConfirmedHasLoaded
<1> QED
  BY InitIInv, NextIInv, <1>1, PTL DEF Spec
================================================================================
