------------------------------- MODULE Allocation -------------------------------
(***************************************************************************)
(* olympus_brain/cbba.py: the tasks an executor bids for, with the rules   *)
(* of engagement of olympus_brain/athena.py and the profile they are       *)
(* looked up in (mission_profile.py).                                      *)
(*                                                                         *)
(* The factors of a score are tenths of what they can be, and scores are   *)
(* whole: the weights .35 .15 .15 .20 .15 are 7 3 3 4 3.  What an executor *)
(* is asked with:                                                          *)
(*   tasks   a sequence of                                                 *)
(*             [type, priority, near, deadline, detected]                  *)
(*   drones  a function from executors, numbered in the order of their     *)
(*           names, to                                                     *)
(*             [battery, payload, capable, at]                             *)
(*   me, available, mode, load, and the instance, which names the profile  *)
(* where near[d] is the score of the distance from drone d, and `at` the   *)
(* time of the snapshot.  No deadline passes while it allocates.            *)
(***************************************************************************)
EXTENDS MissionProfile, SequencesExt

MaxBundle == 3
MaxRounds == 50
Convergence == 2

-----------------------------------------------------------------------------
(* Rules of engagement *)

\* ThreatClassifier.classify
Threat(detection) ==
  CASE detection \in {"structural_change", "thermal_anomaly"} -> "green"
    [] detection \in {"hostile_activity", "ied_suspected"} -> "red"
    [] OTHER -> "amber"

\* ROEEnforcer.validate_task with its default configuration, which has no exclusion zone
Permitted(type, detection, available) ==
  /\ detection = "ied_suspected" => type \in {"mark", "photograph"}
  /\ type = "investigate" => available >= 2
  /\ Threat(detection) # "red"

-----------------------------------------------------------------------------
(* Scores *)

HighBandwidth(type) == type \in {"spray", "seed", "fertilize", "drop_supplies"}
Bandwidth(mode) ==
  CASE mode = "full_comms" -> 10 [] mode = "degraded" -> 7
    [] mode = "minimal" -> 3 [] mode = "denied" -> 0 [] OTHER -> 10

\* Tenths left of a score when the channel is loaded by `load` tenths.
Uncongested(load) ==
  LET left == (10 * (10 - load)) \div 3 IN
  IF load <= 7 THEN 10 ELSE IF left < 3 THEN 3 ELSE left

\* The executor cannot or may not do the task: rules of engagement are in force where
\* the profile is that of ATHENA.
Barred(in, d, t) ==
  \/ t.type \notin in.drones[d].capable
  \/ LET detection == TaskToDetection(ATHENA, t.type) IN
     /\ Profile(in.instance) = ATHENA /\ t.detected /\ detection # "none"
     /\ ~Permitted(t.type, detection, in.available)
  \/ NeedsPayload(Profile(in.instance), t.type) /\ in.drones[d].payload < 1
  \/ t.deadline = "past"

\* The weights of the factors; the last is for a task the executor is capable of.
Weight == [distance |-> 7, battery |-> 3, payload |-> 3, urgency |-> 4, capability |-> 3]

RawScore(in, d, t) ==
  Weight.distance * t.near[d] + Weight.battery * in.drones[d].battery
  + Weight.payload * in.drones[d].payload + Weight.urgency * t.priority
  + Weight.capability * 10

\* A factor .7 for each place in the bundle, in thousandths
Discount == <<1000, 700, 490, 343>>

\* score_task, for a task that would be number `place` in the bundle, counted from 0
Score(in, d, t, place) ==
  IF Barred(in, d, t) THEN 0
  ELSE RawScore(in, d, t)
       * (IF HighBandwidth(t.type) THEN Bandwidth(in.mode) ELSE 10)
       * Uncongested(in.load)
       * Discount[place + 1]
       * (IF t.deadline = "near" THEN 3 ELSE 2)

-----------------------------------------------------------------------------
(* The two phases; the state is what all executors are believed to hold *)

Start(in) ==
  [bundles |-> [d \in DOMAIN in.drones |-> <<>>],
   bids    |-> [t \in DOMAIN in.tasks |-> -1],
   agents  |-> [t \in DOMAIN in.tasks |-> 0],
   changed |-> FALSE]

Mine(in, s) == s.bundles[in.me]
Bid(in, s, t) == Score(in, in.me, in.tasks[t], Len(Mine(in, s)))

\* Mutant of HasRoom: a full bundle takes one more.
HasRoomForOneMore(in, s) == Len(Mine(in, s)) <= MaxBundle

HasRoom(in, s) == Len(Mine(in, s)) < MaxBundle

\* A task that would win, and that is better than what a pass has found so far.
Beats(in, s, t, top) ==
  /\ t \notin ToSet(Mine(in, s))
  /\ Bid(in, s, t) > s.bids[t] /\ Bid(in, s, t) > top

Added(in, s, t, score) ==
  [s EXCEPT !.bundles[in.me] = Append(@, t),
            !.bids[t] = score,
            !.agents[t] = in.me]

\* What _consensus_phase does about one task: the best claim stays, the others that
\* are worse, or as good and older, are given up.
Settle(in, s, t) ==
  LET claims == {d \in DOMAIN in.drones : t \in ToSet(s.bundles[d])}
      sc == [d \in claims |->
               Score(in, d, in.tasks[t], SelectInSeq(s.bundles[d], LAMBDA u : u = t) - 1)]
      behind(d, e) == sc[d] < sc[e] \/ (sc[d] = sc[e] /\ in.drones[d].at < in.drones[e].at)
      winner == Min({d \in claims : \A e \in claims : ~behind(d, e)})
      losers == {d \in claims : behind(d, winner)}
  IN  IF Cardinality(claims) <= 1 THEN s
      ELSE [bundles |-> [d \in DOMAIN in.drones |->
                           IF d \in losers THEN Remove(s.bundles[d], t) ELSE s.bundles[d]],
            agents  |-> [s.agents EXCEPT ![t] = winner],
            bids    |-> IF s.agents[t] = winner THEN s.bids
                        ELSE [s.bids EXCEPT ![t] = sc[winner]],
            changed |-> s.changed \/ losers # {} \/ s.agents[t] # winner]

\* _consensus_phase, task by task
Consent(in, s) ==
  LET after[i \in 0..Len(in.tasks)] ==
        IF i = 0 THEN [s EXCEPT !.changed = FALSE] ELSE Settle(in, after[i - 1], i)
  IN  after[Len(in.tasks)]
================================================================================
