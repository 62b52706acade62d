------------------------------- MODULE Escalation -------------------------------
(***************************************************************************)
(* olympus_brain/escalation.py: how an executor scores the risk of a task, *)
(* and with that whether it asks before it carries it out.                 *)
(*                                                                         *)
(* Confidence and commitment are percentages.  A request is                *)
(*   type, priority            of the task                                 *)
(*   seenAs, confidence        of its detection; NoDetection if none       *)
(*   committed, total          drones with a task, drones in the swarm     *)
(*   near                      closer to the fence than the threshold      *)
(***************************************************************************)
EXTENDS Integers

NoDetection == "none"

Default ==
  [minAuto |-> 70, minNotify |-> 50, highPriority |-> 8, maxCommitment |-> 50,
   alwaysApprove |-> {"drop_supplies"},
   alwaysAuto    |-> {"photograph", "inspect", "relay"},
   timeoutAction |-> "proceed"]

\* VERTICAL_THRESHOLDS
Thresholds ==
  [CERES  |-> [Default EXCEPT !.minAuto = 60, !.maxCommitment = 70],
   ATHENA |-> [Default EXCEPT !.minAuto = 85, !.highPriority = 6, !.maxCommitment = 30,
                 !.alwaysApprove = {"drop_supplies", "mark_location", "investigate"},
                 !.timeoutAction = "abort"],
   VULCAN |-> Default,
   HERMES |-> [Default EXCEPT !.minAuto = 50, !.maxCommitment = 80]]

\* EscalationEngine.__init__; a vertical it does not know gets the default.
ThresholdsOf(vertical) ==
  IF vertical \in DOMAIN Thresholds THEN Thresholds[vertical] ELSE Default

Rank == [auto |-> 0, notify |-> 1, approve_required |-> 2, emergency |-> 3]

\* Mutant of DetectionFactors: what the engine has not seen before needs approval.
DetectionFactorsNovel(th, req, seen) ==
  IF req.seenAs # NoDetection /\ req.seenAs \notin seen THEN {"approve_required"} ELSE {}

\* The factors that concern the detection; what the engine has seen before is not novel.
DetectionFactors(th, req, seen) ==
  IF req.seenAs = NoDetection THEN {}
  ELSE (IF req.confidence < th.minNotify THEN {"approve_required"}
        ELSE IF req.confidence < th.minAuto THEN {"notify"} ELSE {})
       \cup (IF req.seenAs \notin seen THEN {"notify"} ELSE {})

PriorityFactors(th, req) ==
  (IF req.priority >= th.highPriority THEN {"notify"} ELSE {})
  \cup (IF req.priority >= 10 THEN {"emergency"} ELSE {})

SwarmFactors(th, req) ==
  IF req.total > 0 /\ 100 * req.committed >= th.maxCommitment * req.total
  THEN {"approve_required"} ELSE {}

FenceFactors(th, req) == IF req.near THEN {"approve_required"} ELSE {}

Factors(th, req, seen) ==
  DetectionFactors(th, req, seen) \cup PriorityFactors(th, req)
  \cup SwarmFactors(th, req) \cup FenceFactors(th, req)

\* Mutant of Highest: the lowest factor decides.
LowestOf(levels) ==
  IF levels = {} THEN "auto"
  ELSE CHOOSE l \in levels : \A k \in levels : Rank[k] >= Rank[l]

Highest(levels) ==
  IF levels = {} THEN "auto"
  ELSE CHOOSE l \in levels : \A k \in levels : Rank[k] <= Rank[l]

\* score: the lists decide before any factor is looked at.
Level(vertical, req, seen) ==
  LET th == ThresholdsOf(vertical) IN
  CASE req.type \in th.alwaysApprove -> "approve_required"
    [] req.type \in th.alwaysAuto \ th.alwaysApprove -> "auto"
    [] OTHER -> Highest(Factors(th, req, seen))

\* What the engine has seen after it has scored: the lists return before it is noted.
SeenAfter(vertical, req, seen) ==
  LET th == ThresholdsOf(vertical) IN
  IF req.type \in th.alwaysApprove \cup th.alwaysAuto \/ req.seenAs = NoDetection
  THEN seen ELSE seen \cup {req.seenAs}

\* create_request: what becomes of a request that nobody answers.
TimeoutActionOf(vertical) == ThresholdsOf(vertical).timeoutAction

\* assign_task asks a human.
Asks(level) == level \in {"approve_required", "emergency"}
================================================================================
