------------------------------ MODULE CommandChain ------------------------------
(***************************************************************************)
(* The way of an operator's command: the station translates it and sends   *)
(* it to the gateway (commands.py, service.py of olympus_link), the mesh   *)
(* carries it in any order or not at all, the firmware of the node decides *)
(* whether its companion may have it (swarm_coap.c), and the companion     *)
(* (JetsonAgent) flies by it until it is told otherwise or time is up.     *)
(***************************************************************************)
EXTENDS JetsonAgent

CONSTANTS
  Me, Other, Leader,  \* EUIs: of the node, of another one, of the gateway
  Orders,             \* what operators ask for: [command, target, lat, ttl]
  Reports,            \* the messages, its own and others', that the nRF sends up in turn
  MaxOrders

\* Latitudes are in 1e-7 degrees.
ASSUME CommandChainAssumption ==
  /\ NoEui \notin {Me, Other, Leader}
  /\ \A o \in Orders : o.lat \in Int /\ -900000000 <= o.lat /\ o.lat <= 900000000 /\ o.ttl \in Nat
  /\ Reports \in Seq(ToSet(Reports))
  /\ \A i \in DOMAIN Reports : Reports[i].type \in {"hello", "telemetry", "neighbors"}

VARIABLES
  ordered,     \* the orders that were given
  mesh,        \* messages, each with its frame, that may arrive in any order, or never: the
               \* write failed, the gateway did not know the target, a packet was lost
  due,         \* reports, with their frames, that the nRF has still to send
  overridable  \* the permission of the node

chainVars == <<ordered, mesh, due, overridable>>
commandVars == <<agentVars, chainVars>>

Framed(m) == [msg |-> m, frame |-> Frame(Encode(m))]

CommandInit ==
  /\ AgentInit
  /\ ordered = {} /\ mesh = {} /\ due = [i \in DOMAIN Reports |-> Framed(Reports[i])]
  /\ overridable \in BOOLEAN

-----------------------------------------------------------------------------
(* The station *)

FLEET == <<>>

\* The mission each command asks for
MissionOf ==
  [GO_TO |-> "GOTO", RETURN_TO_LAUNCH |-> "RTL", RTL |-> "RTL", START_SCAN |-> "SEARCH",
   PAUSE |-> "LOITER", LOITER |-> "LOITER", RESUME |-> "COVERAGE",
   EMERGENCY_STOP |-> "LOITER", ABORT_ALL |-> "LOITER"]

\* These concern the fleet, and hold until they are taken back.
Emergencies == {"EMERGENCY_STOP", "ABORT_ALL"}

Limit(order) == IF order.command \in Emergencies THEN 0 ELSE order.ttl

\* What two octets of a frame keep of a number
Kept(n) == n % 65536

Untranslated == [op |-> -1, params |-> <<>>, fleet |-> FALSE]

\* translate
Translate(order) ==
  LET c == order.command
      without(op) == [op |-> op, params |-> <<>>, fleet |-> FALSE]
  IN  CASE c = "GO_TO" ->
             [op |-> CmdOp.SET_WAYPOINT, fleet |-> FALSE,
              params |-> PackWaypoint(order.lat, 0, 0, MissionType.GOTO, 5, order.ttl)]
        [] c \in DOMAIN MissionOf \ {"GO_TO"} ->
             [op |-> CmdOp.SET_MISSION, fleet |-> c \in Emergencies,
              params |-> PackMission(MissionType[MissionOf[c]], Limit(order))]
        [] c = "IDENTIFY" -> without(CmdOp.IDENTIFY)
        [] c = "CLEAR_OVERRIDE" -> without(CmdOp.CLEAR_OVERRIDE)
        [] OTHER -> Untranslated

\* _dispatch, send_broadcast and send_command; nobody reads the sequence numbers.
Downlink(order, t) ==
  IF t.fleet \/ order.target = FLEET
  THEN [type |-> "broadcast", eui |-> Leader, flags |-> LEADER + OVERRIDE, seq |-> 1,
        op |-> t.op, params |-> t.params]
  ELSE [type |-> "cmd", eui |-> order.target, flags |-> GATEWAY, seq |-> 1,
        op |-> t.op, params |-> t.params]

Commands == [o \in Orders |-> Framed(Downlink(o, Translate(o)))]

\* _on_sample
Order(order) ==
  /\ Cardinality(ordered) < MaxOrders
  /\ order \notin ordered
  /\ ordered' = ordered \cup {order}
  /\ mesh' = IF Translate(order) = Untranslated THEN mesh ELSE mesh \cup {Commands[order]}
  /\ UNCHANGED <<agentVars, due, overridable>>

-----------------------------------------------------------------------------
(* The mesh and the node *)

IsActionOp(op) ==
  op \in {CmdOp.SET_WAYPOINT, CmdOp.SET_MISSION, CmdOp.OVERRIDE, CmdOp.CLEAR_OVERRIDE}

\* handle_command: config ops are applied by the firmware, and IDENTIFY blinks.
Forwards(m) ==
  IsActionOp(m.op) /\ overridable /\ (HasFlag(m.flags, LEADER) \/ HasFlag(m.flags, GATEWAY))

Arrive(m) ==
  /\ m.msg.type = "cmd" => m.msg.eui = Me
  /\ mesh' = mesh \ {m}
  /\ IF Forwards(m.msg) THEN Put(m.msg, m.frame) ELSE UNCHANGED <<line, traffic>>
  /\ UNCHANGED <<buf, agent, est, home, dir, plan, pc, ordered, due, overridable>>

\* The periodic frames of the node, and those of others it passes on as RELAYED
Report ==
  /\ due # <<>>
  /\ due' = Tail(due)
  /\ Put(due[1].msg, due[1].frame)
  /\ UNCHANGED <<buf, agent, est, home, dir, plan, pc, ordered, mesh, overridable>>

-----------------------------------------------------------------------------
CommandNext ==
  \/ \E order \in Orders : Order(order)
  \/ \E m \in mesh : Arrive(m)
  \/ Report
  \/ AgentNext /\ UNCHANGED chainVars

\* The agent reads what has arrived (only Read empties the line), ticks every tick_s, and
\* time goes on.
CommandSpec ==
  /\ CommandInit /\ [][CommandNext]_commandVars
  /\ WF_line(line' = <<>>)
  /\ WF_commandVars(Tick /\ UNCHANGED chainVars)
  /\ WF_commandVars(Registered /\ UNCHANGED chainVars)
  /\ WF_commandVars(Second /\ UNCHANGED chainVars)

-----------------------------------------------------------------------------
(* What a frame must have for the line to carry it *)

MayBeSent ==
  ToSet(Reports)
  \cup {Downlink(o, Translate(o)) : o \in {o \in Orders : IsActionOp(Translate(o).op)}}

\* What frames without their delimiter leave in the buffer, k of them at most
Stumps[k \in 0..MaxFrames] ==
  IF k = 0 THEN {<<>>}
  ELSE Stumps[k - 1]
       \cup {s \o Half(Frame(Encode(m))) : s \in Stumps[k - 1], m \in MayBeSent}

\* A frame ends with its only delimiter and holds its message; what is left of a hit one,
\* and any that follows a half, has a wrong checksum.
ChecksumsTell ==
  \A m \in MayBeSent :
    LET f == Frame(Encode(m)) IN
    /\ f \in Seq(Nat) /\ Len(f) >= 2
    /\ \A i \in 1..Len(f) : f[i] = 0 <=> i = Len(f)
    /\ HitAt \subseteq 1..Len(f) - 1
    /\ Deframed(Front(f)) = <<Encode(m)>> /\ Decode(Encode(m)) = m
    /\ \A k \in 0..MaxFrames - 1 : \A s \in Stumps[k] :
         /\ s # <<>> => Deframed(s \o Front(f)) = <<>>
         /\ \A i \in HitAt : Deframed(s \o Front(RemoveAt(f, i))) = <<>>

-----------------------------------------------------------------------------
(* Properties *)

\* What the agent handles are messages the nRF sent, each once and in their order,
\* however the octets arrive; and no frame is lost but those that were hit and, where a
\* delimiter was, the next one (frame_serial, SerialReader.feed, encode and decode).
FramesArrive ==
  LET sent == traffic.sent IN
  /\ \E n \in 0..Len(sent) : \E from \in [1..n -> DOMAIN sent] :
       /\ \A i, j \in 1..n : i < j => from[i] < from[j]
       /\ traffic.got = [i \in 1..n |-> sent[from[i]]]
  /\ line = <<>> /\ buf = <<>> => Len(sent) - Len(traffic.got) <= traffic.loss

\* The override an agent flies by was ordered for its node, or for the fleet: its
\* mission by one order, for no longer than that one said or, of the limits that the 16
\* bits of the frame make 0, until it is taken back; its waypoint by one; and neither if
\* the node may not be overridden (translate, _dispatch, handle_command, apply_cmd).
HeldAsOrdered ==
  LET mine == {o \in ordered : o.target \in {Me, FLEET} \/ o.command \in Emergencies}
      ov == agent.ov
      asks(o) == /\ o.command \in DOMAIN MissionOf
                 /\ ov.mission = MissionType[MissionOf[o.command]]
                 /\ ov.left <= Kept(Limit(o))
                 /\ ov.sticky = (Kept(Limit(o)) = 0)
  IN  /\ ov.mission # NoMission => overridable /\ \E o \in mine : asks(o)
      /\ ov.goal # NoPlace => \E o \in mine : o.command = "GO_TO" /\ o.lat = ov.goal

\* An order without a time limit decides the mode of every plan until another one
\* arrives; one whose time is up, or that was cleared, decides none (Override.active,
\* however often step asks it).
PlansAsTold ==
  [][plan' # plan =>
       /\ agent.ov.sticky => plan'.mode = agent.ov.mission
       /\ ~agent.ov.sticky /\ agent.ov.left = 0 =>
            plan'.mode = MissionType.COVERAGE /\ ~plan'.overridden]_commandVars

\* When nobody orders anything more, an agent that flies by an order with a time limit
\* resumes its own policy, though a tick fails when the limit passes in the midst of it
\* ("decentralized behavior resumes on its own", override.py).
ResumesByItself ==
  plan.mode # NoMission /\ ~agent.ov.sticky ~>
    agent.ov.sticky \/ (plan.mode = MissionType.COVERAGE /\ ~plan.overridden)
================================================================================
