------------------------------ MODULE JetsonAgent -------------------------------
(***************************************************************************)
(* The companion of one module: jetson_agent/agent.py with its override    *)
(* (override.py), its planner (mission.py, the policy of coordination.py)  *)
(* and the gate of its peers (peers.py), at the end of the serial line on  *)
(* which its nRF sends frames (AsyncSerial of olympus_link).               *)
(*                                                                         *)
(* Handlers and the tick run in one event loop; the tick suspends while it *)
(* registers its module.  The clock goes on while it runs, and each look   *)
(* at an override reads it anew.                                           *)
(*                                                                         *)
(* Places are points of a meridian, in metres, and the latitudes of        *)
(* messages hold them; no place is 0.  The filter of ekf.py is left out:   *)
(* its estimate is the last place it was given.  There is no camera, and   *)
(* what is published is not modelled.                                      *)
(***************************************************************************)
EXTENDS SwarmProto, FiniteSets

CONSTANTS
  Gps,        \* the fix of a GPS at the Jetson, or NoPlace
  MaxFrames,  \* frames the nRF sends before the line is read to the end
  MaxFaults,  \* frames that are damaged on the line
  HitAt       \* octets of a frame that may be missed

ASSUME JetsonAgentAssumption == MaxFrames \in Nat

NoPlace == 0
NoMission == -1
NoEui == <<>>

VARIABLES
  line,     \* octets on their way
  buf,      \* SerialReader._buf
  traffic,  \* since the line was empty: messages sent, messages handled, frames that may
            \* be lost; and the faults there have been at all
  agent,    \* own_eui, the registry and the override
  est,      \* what the filter has estimated, NoPlace if it has no anchor
  home,     \* of the planner, NoPlace if there is none
  dir,      \* _frontier_dir
  plan,     \* last_mission
  pc        \* where the tick is

agentVars == <<line, buf, traffic, agent, est, home, dir, plan, pc>>

NoOverride == [goal |-> NoPlace, mission |-> NoMission, left |-> 0, sticky |-> FALSE]
NoPlan == [mode |-> NoMission, goal |-> NoPlace, overridden |-> FALSE, status |-> Status.IDLE]
Quiet(faults) == [sent |-> <<>>, got |-> <<>>, loss |-> 0, faults |-> faults]

AgentInit ==
  /\ line = <<>> /\ buf = <<>> /\ traffic = Quiet(0)
  /\ agent = [own |-> NoEui, mods |-> <<>>, ov |-> NoOverride]
  /\ est = NoPlace /\ home = NoPlace /\ dir = 1 /\ plan = NoPlan /\ pc = "idle"

-----------------------------------------------------------------------------
(* The serial line *)

\* What still fits the ring buffer of the nRF, which has no room for the rest
Half(frame) == SubSeq(frame, 1, Len(frame) \div 2)

\* What may arrive of a frame, with the number of frames that are lost with it: all of
\* it; all but one octet; a half, which takes the next frame along for want of a delimiter.
Arrivals(frame) ==
  {[octets |-> frame, loss |-> 0]}
  \cup IF traffic.faults = MaxFaults THEN {}
       ELSE {[octets |-> RemoveAt(frame, i), loss |-> 1] : i \in HitAt}
            \cup {[octets |-> Half(frame), loss |-> 2]}

\* serial_link_send of the nRF, of a message and its frame
Put(m, frame) ==
  LET drained == line = <<>> /\ buf = <<>>
      old == IF drained THEN Quiet(traffic.faults) ELSE traffic
  IN  /\ Len(old.sent) < MaxFrames
      /\ \E a \in Arrivals(frame) :
           /\ line' = line \o a.octets
           /\ traffic' = [old EXCEPT !.sent = Append(@, m), !.loss = @ + a.loss,
                                     !.faults = @ + (IF a.loss > 0 THEN 1 ELSE 0)]

-----------------------------------------------------------------------------
(* Messages *)

FreshModule ==
  [ident |-> <<0, 0, 0, <<>>, 0>>, registered |-> FALSE,
   pos |-> [place |-> NoPlace, source |-> PosSource.NONE, flags |-> 0], ranges |-> <<>>]

Touched(a, eui) == IF eui \in DOMAIN a.mods THEN a ELSE [a EXCEPT !.mods = (eui :> FreshModule) @@ @]

\* Registry.on_hello, on_telemetry, on_neighbors
OnHello(a, m) ==
  LET ident == <<m.role, m.mount, m.sensors, m.attached_to, m.capabilities>>
      t == Touched(a, m.eui)
  IN  [t EXCEPT !.mods[m.eui].registered = @ /\ t.mods[m.eui].ident = ident,
                !.mods[m.eui].ident = ident]

OnTelemetry(a, m) ==
  LET t == Touched(a, m.eui)
  IN  IF m.pos_source = PosSource.NONE THEN t
      ELSE [t EXCEPT !.mods[m.eui].pos =
              [place |-> m.lat, source |-> m.pos_source, flags |-> m.ekf_flags]]

OnNeighbors(a, m) ==
  LET heard == FoldLeft(LAMBDA r, l : (l.eui :> l.range_cm) @@ r, <<>>, m.links)
  IN  [Touched(a, m.eui) EXCEPT !.mods[m.eui].ranges = heard @@ @]

\* Mutant of Told: a mission with a time limit does not end that there was none.
ToldKeeps(ov, op, params) ==
  LET wp == UnpackWaypoint(params)
      ms == UnpackMission(params)
  IN  IF op \in {CmdOp.SET_WAYPOINT, CmdOp.OVERRIDE} /\ wp # Malformed THEN
        [goal |-> wp.lat, mission |-> wp.mission_type, left |-> wp.ttl_s,
         sticky |-> op = CmdOp.OVERRIDE \/ wp.ttl_s = 0]
      ELSE IF op = CmdOp.SET_MISSION /\ ms # Malformed THEN
        [ov EXCEPT !.mission = ms.mission_type, !.left = ms.ttl_s]
      ELSE IF op = CmdOp.CLEAR_OVERRIDE THEN NoOverride
      ELSE ov

\* Override.apply_cmd
Told(ov, op, params) ==
  LET wp == UnpackWaypoint(params)
      ms == UnpackMission(params)
  IN  IF op \in {CmdOp.SET_WAYPOINT, CmdOp.OVERRIDE} /\ wp # Malformed THEN
        [goal |-> wp.lat, mission |-> wp.mission_type, left |-> wp.ttl_s,
         sticky |-> op = CmdOp.OVERRIDE \/ wp.ttl_s = 0]
      ELSE IF op = CmdOp.SET_MISSION /\ ms # Malformed THEN
        [ov EXCEPT !.mission = ms.mission_type, !.left = ms.ttl_s, !.sticky = ms.ttl_s = 0]
      ELSE IF op = CmdOp.CLEAR_OVERRIDE THEN NoOverride
      ELSE ov

\* _on_payload, of a payload that decodes to m
OnPayload(a, m) ==
  LET b == IF a.own = NoEui /\ ~HasFlag(m.flags, GATEWAY) /\ ~HasFlag(m.flags, RELAYED)
           THEN [a EXCEPT !.own = m.eui] ELSE a
  IN  CASE m \in {Malformed, None} -> a
        [] m.type = "hello" -> OnHello(b, m)
        [] m.type = "telemetry" -> OnTelemetry(b, m)
        [] m.type = "neighbors" -> OnNeighbors(b, m)
        [] m.type \in {"cmd", "broadcast"} -> [b EXCEPT !.ov = Told(@, m.op, m.params)]
        [] OTHER -> b

\* on_payload of one message after the other
Handled(a, msgs) ==
  LET after[i \in 0..Len(msgs)] == IF i = 0 THEN a ELSE OnPayload(after[i - 1], msgs[i])
  IN  after[Len(msgs)]

\* AsyncSerial._on_readable: n octets have arrived and are read.
OnReadable(n) ==
  LET r == Feed(buf, SubSeq(line, 1, n))
      decoded == [i \in DOMAIN r.payloads |-> Decode(r.payloads[i])]
  IN  /\ n > 0
      /\ line' = SubSeq(line, n + 1, Len(line))
      /\ buf' = r.buf
      /\ traffic' = [traffic EXCEPT !.got = @ \o decoded]
      /\ agent' = Handled(agent, SubSeq(traffic'.got, Len(traffic.got) + 1, Len(traffic'.got)))
      /\ UNCHANGED <<est, home, dir, plan, pc>>

\* Bound: a line is read in two parts at most.
ReadSome == OnReadable(Len(line)) \/ (buf = <<>> /\ OnReadable(Len(line) \div 2))

-----------------------------------------------------------------------------
(* The planner *)

Distance(x, y) == IF x < y THEN y - x ELSE x - y
Sign(x) == IF x < 0 THEN -1 ELSE IF x > 0 THEN 1 ELSE 0

\* frontier_target: away from the middle of the neighbours, else on as before
Frontier(my, peers) ==
  LET total == FoldSet(LAMBDA p, n : n + p, 0, peers)
      away  == Sign(my * Cardinality(peers) - total)
  IN  IF away = 0 THEN dir ELSE away

\* coverage, in twelfths of a metre per second: towards the goal, away from neighbours
Preferred(my, goal, peers) ==
  LET pull == IF Distance(my, goal) > 1 THEN 48 * Sign(goal - my) ELSE 0
      push(p) == IF Distance(my, p) < 12 THEN 4 * (12 - Distance(my, p)) * Sign(my - p) ELSE 0
  IN  FoldSet(LAMBDA p, v : v + push(p), pull, peers)

\* policy: a neighbour is within the own radius, or no velocity is left; which of the
\* velocities ORCA leaves is not modelled.
Emergency(my, goal, peers, hemmed) ==
  \/ \E p \in peers : Distance(my, p) < 5
  \/ hemmed /\ peers # {} /\ Distance(Preferred(my, goal, peers), 0) > 6

\* _status
StatusOf(mode, my, goal, emergency) ==
  CASE emergency -> Status.EMERGENCY
    [] ~emergency /\ mode = MissionType.RTL -> Status.RETURNING
    [] ~emergency /\ mode # MissionType.RTL /\ Distance(goal, my) > 5 -> Status.TRANSITING
    [] OTHER ->
         IF mode \in {MissionType.EXPLORE, MissionType.SEARCH, MissionType.COVERAGE,
                      MissionType.PATROL} THEN Status.SCANNING
         ELSE IF mode = MissionType.LOITER THEN Status.IDLE ELSE Status.EXECUTING

\* Mutant of Reads: an override whose time is up is still active.
ReadsForever(ov) == IF ov.mission = NoMission THEN {0} ELSE {10}

\* The reads of the clock of one tick: from number k + 1 on, they find the override over.
Reads(ov) ==
  IF ov.mission = NoMission THEN {0}
  ELSE IF ov.sticky THEN {10} ELSE IF ov.left = 0 THEN {0} ELSE 0..10 \ {1, 4}

\* What _run_mission and MissionPlanner.step do: the frontier direction, and the plan or
\* "raised".  Looks 1, 2, 3 choose the mode before the frontier, 4, 5, 6 the mode and 7, 8
\* the goal of the step, 9, 10 the goal of the policy; where a look finds what the next
\* one misses, the conversion of None raises.
Planned(ov, my, base, peers, k, hemmed) ==
  LET searches(mode) == mode \in {MissionType.EXPLORE, MissionType.SEARCH}
      early == IF k >= 3 THEN ov.mission ELSE MissionType.COVERAGE
      ahead == IF searches(early) THEN Frontier(my, peers) ELSE dir
      mode  == IF k >= 6 THEN ov.mission ELSE MissionType.COVERAGE
      told  == ov.goal # NoPlace
      goal  == CASE mode = MissionType.RTL -> base
                 [] searches(mode) -> my + 30 * ahead
                 [] OTHER -> IF told /\ k >= 8 THEN ov.goal ELSE base
      flown == IF told /\ k = 10 THEN ov.goal ELSE goal
      fails == \/ k \in {2, 5}
               \/ told /\ k = 9
               \/ told /\ k = 7 /\ mode # MissionType.RTL /\ ~searches(mode)
  IN  [dir |-> IF k = 2 THEN dir ELSE ahead,
       plan |-> IF fails THEN plan
                ELSE [mode |-> mode, goal |-> flown, overridden |-> told /\ k = 10,
                      status |-> StatusOf(mode, my, goal, Emergency(my, flown, peers, hemmed))],
       raised |-> fails]

-----------------------------------------------------------------------------
(* The tick *)

Valid(m) == m.pos.source # PosSource.NONE /\ m.pos.place # NoPlace

\* _fuse_jetson_gps
WithGps(m) ==
  LET sensors == m.ident[3]
      hasGps  == HasFlag(sensors, Sensor.GPS)
  IN  IF Gps = NoPlace \/ (hasGps /\ m.pos.source = PosSource.GPS) THEN m
      ELSE [m EXCEPT !.ident[3] = IF hasGps THEN sensors ELSE sensors + Sensor.GPS,
                     !.pos = [place |-> Gps, source |-> PosSource.GPS, flags |-> 0]]

\* gate_50m, and update_range, which drops a peer at the own place
PeersUsed(m, my, places) ==
  {e \in DOMAIN m.ranges \cap DOMAIN places :
     m.ranges[e] \in 1..5000 /\ places[e] # my}

\* _fuse_jetson_ekf: a position that VIO or peers made is not taken again.
Estimate(m) ==
  IF HasFlag(m.pos.flags, EkfFlag.VIO_USED) \/ HasFlag(m.pos.flags, EkfFlag.PEER_USED)
  THEN est ELSE m.pos.place

Tick ==
  /\ pc = "idle"
  /\ agent.own \in DOMAIN agent.mods
  /\ LET m  == WithGps(agent.mods[agent.own])
         my == Estimate(m)
         seen == {e \in DOMAIN agent.mods \ {agent.own} : Valid(agent.mods[e])}
         places == [e \in seen |-> agent.mods[e].pos.place]
         fused == [m EXCEPT !.pos = [place |-> my, source |-> PosSource.FUSED,
                     flags |-> EkfFlag.GPS_USED + EkfFlag.IMU_USED + EkfFlag.CONVERGED
                       + (IF PeersUsed(m, my, places) # {} THEN EkfFlag.PEER_USED ELSE 0)]]
         base == IF home = NoPlace THEN my ELSE home
     IN  \/ /\ ~Valid(m)
            /\ agent' = [agent EXCEPT !.mods[agent.own] = m]
            /\ pc' = IF m.registered THEN "idle" ELSE "registering"
            /\ UNCHANGED <<est, home, dir, plan>>
         \/ /\ Valid(m)
            /\ est' = my
            /\ home' = base
            /\ \E k \in Reads(agent.ov), hemmed \in BOOLEAN :
                 LET out == Planned(agent.ov, my, base, {places[e] : e \in seen}, k, hemmed)
                 IN  /\ dir' = out.dir
                     /\ plan' = out.plan
                     /\ pc' = IF out.raised \/ m.registered THEN "idle" ELSE "registering"
                     /\ agent' = [agent EXCEPT
                          !.mods[agent.own] = fused,
                          !.ov.left = IF agent.ov.sticky \/ k = 10 THEN @ ELSE 0]
  /\ UNCHANGED <<line, buf, traffic>>

\* Mutant of Registered: the tick that waited for it is not gone on with.
RegisteredAndStuck ==
  /\ pc = "registering"
  /\ agent' = [agent EXCEPT !.mods[agent.own].registered = TRUE]
  /\ UNCHANGED <<line, buf, traffic, est, home, dir, plan, pc>>

\* register_module returns
Registered ==
  /\ pc = "registering"
  /\ agent' = [agent EXCEPT !.mods[agent.own].registered = TRUE]
  /\ pc' = "idle"
  /\ UNCHANGED <<line, buf, traffic, est, home, dir, plan>>

\* A second of the time limit of the override
Second ==
  /\ ~agent.ov.sticky /\ agent.ov.left > 0
  /\ agent' = [agent EXCEPT !.ov.left = @ - 1]
  /\ UNCHANGED <<line, buf, traffic, est, home, dir, plan, pc>>

AgentNext == ReadSome \/ Tick \/ Registered \/ Second
================================================================================
