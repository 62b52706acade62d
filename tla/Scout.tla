--------------------------------- MODULE Scout ---------------------------------
(***************************************************************************)
(* One scout (olympus_brain/scout.py) and its node (olympus_brain/node.py):*)
(* it divides the field between the scouts it hears, flies the waypoints   *)
(* of its zone in the order of what there is to learn, looks for something *)
(* at each of them, and starts over.                                       *)
(*                                                                         *)
(* The field is a line of waypoints; position 0 is where every scout is    *)
(* before its first leg, GeoPosition(), far outside any field.  The scan   *)
(* loop is a coroutine; telemetry and commands are handled in threads of   *)
(* the transport, so they may come between any two of its steps.           *)
(***************************************************************************)
EXTENDS Integers, Sequences, FiniteSets, TLC, TrustGate

CONSTANTS
  Waypoints,  \* how many there are in the field
  Peers,      \* the other scouts
  InfoGain,   \* information_gain of a belief in tenths, in percent
  PeerPlaces, \* where peers may be
  Commands,   \* that it may be sent
  Registry    \* trust_registry of its node

Field  == 1..Waypoints
Launch == 0
Places == {Launch} \cup Field
Absent == -1
Beliefs == 1..9

ASSUME ScoutAssumption ==
  /\ Waypoints \in Nat \ {0, 1}
  /\ PeerPlaces \subseteq Places
  /\ InfoGain \in [Beliefs -> 0..100]
  /\ Commands \subseteq {"EMERGENCY_STOP", "RETURN_TO_LAUNCH", "PAUSE", "RESUME",
                      "RECALL_FOR_UPDATE", "REDEPLOY"}

VARIABLES
  certain,  \* waypoints where the model reports a detection at every visit
  alive,    \* peers that are flying; the scout does not know
  view,     \* SwarmState.members: where each peer is, Absent if unknown or OFFLINE
  overdue,  \* peers whose last telemetry is older than 30 s
  status,   \* telemetry.status
  pos,      \* telemetry.position
  belief,   \* BeliefMap.cells, in tenths
  path,     \* current_path
  index,    \* path_index, from 1
  due,      \* more than 60 s since the last recompute
  pc,       \* where the scan loop is
  guessed,  \* the last look made a detection up at random
  inspected \* waypoints where the scout has looked for something

swarm   == <<alive, view, overdue>>
flight  == <<pos, belief>>
plan    == <<path, index, due>>
outcome == <<guessed, inspected>>
vars    == <<certain, swarm, status, flight, plan, pc, outcome>>

Statuses == {"idle", "scanning", "returning", "emergency"}

TypeOK ==
  /\ certain \subseteq Field
  /\ alive \subseteq Peers
  /\ view \in [Peers -> Places \cup {Absent}]
  /\ overdue \subseteq Peers
  /\ status \in Statuses
  /\ pos \in Places
  /\ belief \in [Field -> Beliefs]
  /\ path \in Seq(Field)
  /\ index \in 1..(IF path = <<>> THEN 1 ELSE Len(path))
  /\ due \in BOOLEAN
  /\ pc \in {"start", "top", "flying", "inspect"}
  /\ guessed \in BOOLEAN
  /\ inspected \subseteq Field

Init ==
  /\ certain \in SUBSET Field
  /\ alive = Peers /\ overdue = {}
  /\ view = [p \in Peers |-> Absent]
  /\ status = "idle"
  /\ pos = Launch
  /\ belief = [w \in Field |-> 5]
  /\ path = <<>> /\ index = 1 /\ due = FALSE
  /\ pc = "start"
  /\ guessed = FALSE /\ inspected = {}

-----------------------------------------------------------------------------
(* The swarm, as this node sees it *)

\* Telemetry of a peer, under its own timestamp.
OnTelemetry(p) ==
  /\ p \in alive
  /\ \E place \in PeerPlaces : view' = [view EXCEPT ![p] = place]
  /\ overdue' = overdue \ {p}
  /\ UNCHANGED <<alive, status, flight, plan, pc, outcome>>

\* A peer is not heard for 30 s: it is lost, or its radio is.
Silence(p) ==
  /\ view[p] # Absent /\ p \notin overdue
  /\ overdue' = overdue \cup {p}
  /\ UNCHANGED <<alive, view, status, flight, plan, pc, outcome>>

Lose(p) ==
  /\ p \in alive
  /\ alive' = alive \ {p}
  /\ UNCHANGED <<view, overdue, status, flight, plan, pc, outcome>>

\* _state_cleanup_loop
CleanUp ==
  /\ \E p \in overdue : view[p] # Absent
  /\ view' = [p \in Peers |-> IF p \in overdue THEN Absent ELSE view[p]]
  /\ UNCHANGED <<alive, overdue, status, flight, plan, pc, outcome>>

\* _process_command sets the status and nothing else; a scout registers no
\* callback of its own for commands.
StatusAfter(c) ==
  CASE c = "EMERGENCY_STOP" -> "emergency"
    [] c \in {"RETURN_TO_LAUNCH", "RECALL_FOR_UPDATE"} -> "returning"
    [] c = "PAUSE" -> "idle"
    [] c \in {"RESUME", "REDEPLOY"} -> "scanning"

\* _on_command
OnCommand(sender, c) ==
  /\ IsCommandAllowed(Registry, sender, c)
  /\ status' = StatusAfter(c)
  /\ UNCHANGED <<swarm, flight, plan, pc, outcome>>

-----------------------------------------------------------------------------
(* Zones *)

\* The positions the field is divided between: the scout's own, and those of the
\* scouts it holds online, leaving out any that are where it is itself.
Generators == {pos} \cup {view[p] : p \in {q \in Peers : view[q] # Absent}}

\* The relaxed Voronoi cells of a line are its equal parts, in the order of the
\* generators.  One far outside the field has an unbounded cell, which
\* _voronoi_partition makes an empty polygon; one that is alone gets the field.
Zone ==
  LET inside == Generators \ {Launch}
      before == Cardinality({g \in inside : g < pos})
      n      == Cardinality(inside)
  IN  CASE Generators = {pos} -> Field
        [] Generators # {pos} /\ pos = Launch -> {}
        [] OTHER -> {w \in Field : /\ before * Waypoints < w * n
                                   /\ w * n <= (before + 1) * Waypoints}

Apart(x, y) == IF x < y THEN y - x ELSE x - y

\* generate_path: sweep the zone, beginning at its waypoint nearest to the scout.
Sweep(zone) ==
  LET lo    == CHOOSE w \in zone : \A x \in zone : w <= x
      first == CHOOSE w \in zone : \A x \in zone :
                 \/ Apart(w, pos) < Apart(x, pos)
                 \/ Apart(w, pos) = Apart(x, pos) /\ w <= x
      n     == Cardinality(zone)
  IN  [i \in 1..n |-> lo + ((first - lo + i - 1) % n)]

\* rank_waypoints: 0.7 of the score is information, 0.3 is nearness; the sort is
\* stable.
Score(w) ==
  LET span == Waypoints - 1
  IN  7 * InfoGain[belief[w]] * span + 300 * (span - Apart(w, pos))

Ranked(raw) ==
  LET Before(i, j) == \/ Score(raw[i]) > Score(raw[j])
                      \/ Score(raw[i]) = Score(raw[j]) /\ i < j
      order == SortSeq([i \in DOMAIN raw |-> i], Before)
  IN  [k \in DOMAIN raw |-> raw[order[k]]]

\* Mutant of RecomputeZone: the plan is made once.
KeepZone ==
  /\ path' = IF pc = "start" THEN Ranked(Sweep(Zone)) ELSE path
  /\ index' = 1
  /\ due' = FALSE

RecomputeZone ==
  LET zone == Zone IN
  /\ path' = IF zone = {} THEN <<>> ELSE Ranked(Sweep(zone))
  /\ index' = IF zone = {} THEN index ELSE 1
  /\ due' = FALSE

-----------------------------------------------------------------------------
(* The scan loop *)

StartScan ==
  /\ pc = "start"
  /\ RecomputeZone
  /\ pc' = "top"
  /\ UNCHANGED <<swarm, status, flight, outcome>>

\* Time passes while the scout flies, or waits for a zone.
MinutePasses ==
  /\ ~due /\ (pc \in {"flying", "inspect"} \/ (pc = "top" /\ path = <<>>))
  /\ due' = TRUE
  /\ UNCHANGED <<swarm, status, flight, path, index, pc, outcome>>

Recompute ==
  /\ pc = "top" /\ due
  /\ RecomputeZone
  /\ UNCHANGED <<swarm, status, flight, pc, outcome>>

BeginLeg ==
  /\ pc = "top" /\ ~due /\ index <= Len(path)
  /\ status' = "scanning"
  /\ pc' = "flying"
  /\ UNCHANGED <<swarm, flight, plan, outcome>>

\* No zone: say "scanning" and look again in a second.
NoLeg ==
  /\ pc = "top" /\ ~due /\ index > Len(path)
  /\ status' = "scanning"
  /\ UNCHANGED <<swarm, flight, plan, pc, outcome>>

\* update_visited, without and with a detection, to the nearest tenth.
Unseen(b) == (6 * b + 5) \div 10
Seen(b) == IF 13 * b + 10 > 90 THEN 9 ELSE (13 * b + 15) \div 10

\* One step of _navigate_to, which counts as a visit that found nothing; there is
\* one step even if the scout is at its target.
FlyStep ==
  LET target == path[index] IN
  /\ pc = "flying"
  /\ pos' = IF pos < target THEN pos + 1 ELSE IF pos > target THEN pos - 1 ELSE pos
  /\ belief' = [belief EXCEPT ![pos'] = Unseen(@)]
  /\ pc' = IF pos' = target THEN "inspect" ELSE "flying"
  /\ UNCHANGED <<swarm, status, plan, outcome>>

Advance == index' = IF index = Len(path) THEN 1 ELSE index + 1

\* Nothing is found: on to the next waypoint, or to the first one again.
InspectNothing ==
  /\ pc = "inspect" /\ pos \notin certain
  /\ guessed' = FALSE
  /\ inspected' = inspected \cup {pos}
  /\ Advance
  /\ pc' = "top"
  /\ UNCHANGED <<swarm, status, flight, path, due>>

\* A detection, of the model or made up, that is below the scout's threshold is
\* filtered.
InspectDoubtful ==
  /\ pc = "inspect" /\ pos \notin certain
  /\ guessed' = TRUE
  /\ inspected' = inspected \cup {pos}
  /\ belief' = [belief EXCEPT ![pos] = Seen(@)]
  /\ Advance
  /\ pc' = "top"
  /\ UNCHANGED <<swarm, status, pos, path, due>>

\* A detection is published; then `await` is applied to what publish_detection
\* returns, which is None, and the exception ends this turn of the loop: no task is
\* made and path_index stays.
InspectDetection ==
  /\ pc = "inspect"
  /\ guessed' = (pos \notin certain)
  /\ inspected' = inspected \cup {pos}
  /\ belief' = [belief EXCEPT ![pos] = Seen(@)]
  /\ pc' = "top"
  /\ UNCHANGED <<swarm, status, pos, plan>>

Inspect == InspectNothing \/ InspectDoubtful \/ InspectDetection

ScanLoop == StartScan \/ Recompute \/ BeginLeg \/ NoLeg \/ FlyStep \/ Inspect

Next ==
  /\ \/ \E p \in Peers : OnTelemetry(p) \/ Silence(p) \/ Lose(p)
     \/ CleanUp
     \/ \E sender \in Peers \cup DOMAIN Registry, c \in Commands : OnCommand(sender, c)
     \/ MinutePasses
     \/ ScanLoop
  /\ UNCHANGED certain

Spec == Init /\ [][Next]_vars

\* The loops of the scout go on and time passes; a peer that is lost stays silent.
FairSpec ==
  /\ Spec
  /\ WF_vars(ScanLoop /\ UNCHANGED certain) /\ SF_vars(MinutePasses /\ UNCHANGED certain)
  /\ WF_vars(CleanUp /\ UNCHANGED certain)
  /\ \A p \in Peers : WF_vars(p \notin alive /\ Silence(p) /\ UNCHANGED certain)

-----------------------------------------------------------------------------
(* Properties *)

\* A scout whose peers are all lost has, in the end, looked at every waypoint of
\* the field, however often the zone is computed anew and whatever was flown over
\* on the way (_recompute_zone, rank_waypoints, _state_cleanup_loop), if it does not
\* make detections up for ever; or else it stays for ever where the model reports one
\* at every visit, because the exception of _handle_detection comes before path_index
\* moves on.
SurvivorSeesAll ==
  <>[](~guessed) => ((alive = {}) ~> (inspected = Field \/ [](pos \in certain)))
================================================================================
