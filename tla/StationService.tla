---------------------------- MODULE StationService ----------------------------
(***************************************************************************)
(* The command-station service of olympus_link: the registry of swarm      *)
(* modules (model.py) and the periodic tick of the service (service.py)    *)
(* that expires silent modules, registers new or reconfigured ones with    *)
(* Olympus and streams their status to the dashboard.                      *)
(*                                                                         *)
(* The tick is one asyncio coroutine; the serial reader calls _on_payload  *)
(* from the same event loop.  A callback can therefore run only while the  *)
(* tick is suspended at an `await`, and each action of the tick below is   *)
(* the code from one suspension point to the next.                         *)
(***************************************************************************)

CONSTANTS
  Modules,        \* EUI-64s that may appear in the mesh
  Gateways,       \* modules that may be built as gateways
  NoGateway,      \* cfg.gateway_eui before a gateway is discovered
  Configs,        \* values of (role, mount, sensors, attached_to, capabilities)
  DefaultConfig,  \* the field defaults of ModuleState
  NoCall          \* no register_module call outstanding

ASSUME StationAssumption ==
  /\ Gateways \subseteq Modules
  /\ NoGateway \notin Modules
  /\ DefaultConfig \in Configs
  /\ NoCall \notin Modules

VARIABLES
  gateways,    \* modules built as gateways: all their frames carry FLAG_GATEWAY
  modules,     \* keys of Registry.modules
  online,      \* modules whose .online is True
  registered,  \* modules whose .registered is True
  status,      \* .status: "up" for every status but OFFLINE
  config,      \* the reconfigurable fields
  overdue,     \* modules silent for more than module_ttl_s
  newly,       \* Registry._newly_seen (order and duplicates do not matter)
  gateway,     \* Registry.gateway_eui
  pc,          \* where the tick is
  todo,        \* modules the current loop of the tick has still to visit
  call,        \* the module whose register_module call is being awaited
  shown,       \* the status Zenoh holds under swarm/{id}/telemetry
  lost         \* history: modules whose last telemetry did not reach Zenoh

fields   == <<modules, online, registered, status, config, overdue>>
outputs  == <<shown, lost>>
tickVars == <<pc, todo, call>>
vars     == <<gateways, fields, newly, gateway, tickVars, outputs>>

TypeOK ==
  /\ modules \subseteq Modules
  /\ online \subseteq modules
  /\ registered \subseteq modules
  /\ status \in [Modules -> {"up", "offline"}]
  /\ config \in [Modules -> Configs]
  /\ overdue \subseteq Modules
  /\ newly \subseteq modules
  /\ gateways \subseteq Gateways
  /\ gateway \in gateways \cup {NoGateway}
  /\ pc \in {"sleep", "flip", "flipWait", "drain", "registerWait",
             "stream", "streamWait"}
  /\ todo \subseteq modules
  /\ call \in Modules \cup {NoCall}
  /\ shown \in [Modules -> {"none", "up", "offline"}]
  /\ lost \subseteq Modules

Init ==
  /\ gateways \in SUBSET Gateways
  /\ modules = {} /\ online = {} /\ registered = {}
  /\ status = [m \in Modules |-> "up"]
  /\ config = [m \in Modules |-> DefaultConfig]
  /\ overdue = {} /\ newly = {}
  /\ gateway = NoGateway
  /\ pc = "sleep" /\ todo = {} /\ call = NoCall
  /\ shown = [m \in Modules |-> "none"]
  /\ lost = {}

-----------------------------------------------------------------------------
(* Serial callbacks.                                                       *)

Suspended == pc \in {"sleep", "flipWait", "registerWait", "streamWait"}

\* A frame that carries the gateway flag makes its sender the tree root.
Adopt(m) == gateway' = IF m \in gateways THEN m ELSE gateway

\* Mutant: _touch builds the new ModuleState and does not store it.
TouchWithoutStoring(m) ==
  /\ modules' = modules
  /\ online'  = online \cup {m}
  /\ overdue' = overdue \ {m}

\* Registry._touch: the module is in the registry and online from now on.
Touch(m) ==
  /\ modules' = modules \cup {m}
  /\ online'  = online \cup {m}
  /\ overdue' = overdue \ {m}

\* Mutant: only a first frame queues the module, not its return.
ArrivedOnce(m) == IF m \in modules THEN {} ELSE {m}

\* Registry._touch queues a new or returning module for registration.
Arrived(m) == IF m \in online THEN {} ELSE {m}

OnHello(m, c) ==
  LET changed == IF config[m] # c THEN {m} ELSE {} IN
  /\ Suspended
  /\ Adopt(m)
  /\ Touch(m)
  /\ config' = [config EXCEPT ![m] = c]
  /\ registered' = registered \ changed
  /\ newly' = newly \cup Arrived(m) \cup changed
  /\ UNCHANGED <<status, tickVars, outputs>>

OnTelemetry(m) ==
  /\ Suspended
  /\ Adopt(m)
  /\ Touch(m)
  /\ newly' = newly \cup Arrived(m)
  /\ status' = [status EXCEPT ![m] = "up"]
  /\ UNCHANGED <<registered, config, tickVars, outputs>>

\* NEIGHBORS touches the module; its link table belongs to the autorouter.
OnNeighbors(m) ==
  /\ Suspended
  /\ Adopt(m)
  /\ Touch(m)
  /\ newly' = newly \cup Arrived(m)
  /\ UNCHANGED <<registered, status, config, tickVars, outputs>>

\* A ranging frame is not stored, but its gateway flag is still honoured.
OnRange(m) ==
  /\ Suspended
  /\ Adopt(m)
  /\ UNCHANGED <<fields, newly, tickVars, outputs>>

Callback(m) ==
  \/ \E c \in Configs : OnHello(m, c)
  \/ OnTelemetry(m)
  \/ OnNeighbors(m)
  \/ OnRange(m)

\* Time: module m has now been silent for longer than module_ttl_s.  A frame
\* heard while the service sleeps cannot be that old when the next tick starts
\* (tick_s < module_ttl_s), but a tick whose HTTP calls time out one after the
\* other can take that long.  For a module not heard in this sleep, falling
\* overdue in the sleep is the same as at the end of the tick before it.
Silence(m) ==
  /\ m \in online \ overdue
  /\ pc \in {"flipWait", "registerWait", "streamWait"}
  /\ overdue' = overdue \cup {m}
  /\ UNCHANGED <<modules, online, registered, status, config, newly, gateway,
                 tickVars, outputs>>

-----------------------------------------------------------------------------
(* The tick.                                                               *)

\* A PUT that fails is logged and forgotten.
Dropped(m) == UNCHANGED shown /\ lost' = lost \cup {m}

\* olympus_client.publish_telemetry: the body is built when it is called.
PublishTelemetry(m) ==
  \/ shown' = [shown EXCEPT ![m] = status[m]] /\ lost' = lost \ {m}
  \/ Dropped(m)

\* Mutant: expire leaves the status as the module last reported it.
ExpireKeepsStatus ==
  LET flipped == online \cap overdue IN
  /\ pc = "sleep"
  /\ online' = online \ flipped
  /\ registered' = registered \ flipped
  /\ todo' = flipped
  /\ pc' = "flip"
  /\ UNCHANGED <<modules, status, config, overdue, newly, gateway, call, outputs>>

\* Registry.expire, run at the start of the tick without suspending.
Expire ==
  LET flipped == online \cap overdue IN
  /\ pc = "sleep"
  /\ online' = online \ flipped
  /\ status' = [m \in Modules |-> IF m \in flipped THEN "offline" ELSE status[m]]
  /\ registered' = registered \ flipped
  /\ todo' = flipped
  /\ pc' = "flip"
  /\ UNCHANGED <<modules, config, overdue, newly, gateway, call, outputs>>

Flipping == pc \in {"flip", "flipWait"}

\* Push the final status of a module that expired and await the PUT.
PublishOffline(m) ==
  /\ Flipping /\ m \in todo /\ m # gateway
  /\ PublishTelemetry(m)
  /\ todo' = todo \ {m}
  /\ pc' = "flipWait"
  /\ UNCHANGED <<fields, newly, gateway, call>>

SkipOfflineGateway ==
  /\ Flipping /\ gateway \in todo
  /\ todo' = todo \ {gateway}
  /\ pc' = "flip"
  /\ UNCHANGED <<fields, newly, gateway, call, outputs>>

\* Registry.drain_newly_seen.
Drain ==
  /\ Flipping /\ todo = {}
  /\ todo' = newly
  /\ newly' = {}
  /\ pc' = "drain"
  /\ UNCHANGED <<fields, gateway, call, outputs>>

NeedsRegistration(m) == m # gateway /\ m \notin registered

SkipRegistered(m) ==
  /\ pc = "drain" /\ m \in todo /\ ~NeedsRegistration(m)
  /\ todo' = todo \ {m}
  /\ UNCHANGED <<fields, newly, gateway, pc, call, outputs>>

\* register_module builds its body from m, as m is configured now, and awaits the POST
\* and the PUT of the registry key.
CallRegister(m) ==
  /\ pc = "drain" /\ m \in todo /\ NeedsRegistration(m)
  /\ call' = m
  /\ todo' = todo \ {m}
  /\ pc' = "registerWait"
  /\ UNCHANGED <<fields, newly, gateway, outputs>>

\* The awaited calls are over.  Whether or not the vehicle API took the body and the PUT
\* went through, the tick marks the module registered.
RegisterReturns ==
  /\ pc = "registerWait"
  /\ registered' = registered \cup {call}
  /\ call' = NoCall
  /\ pc' = "drain"
  /\ UNCHANGED <<modules, online, status, config, overdue, newly, gateway,
                 todo, outputs>>

\* Localization and routing run here without suspending; then the online
\* modules are streamed from a snapshot of the list.
BeginStream ==
  /\ pc = "drain" /\ todo = {}
  /\ todo' = online
  /\ pc' = "stream"
  /\ UNCHANGED <<fields, newly, gateway, call, outputs>>

Streaming == pc \in {"stream", "streamWait"}

Stream(m) ==
  /\ Streaming /\ m \in todo
  /\ PublishTelemetry(m)
  /\ todo' = todo \ {m}
  /\ pc' = "streamWait"
  /\ UNCHANGED <<fields, newly, gateway, call>>

\* The topology is published and the service sleeps until the next tick.
Sleep ==
  /\ Streaming /\ todo = {}
  /\ pc' = "sleep"
  /\ UNCHANGED <<fields, newly, gateway, todo, call, outputs>>

Tick ==
  \/ Expire
  \/ \E m \in Modules : PublishOffline(m)
  \/ SkipOfflineGateway
  \/ Drain
  \/ \E m \in Modules : SkipRegistered(m)
  \/ \E m \in Modules : CallRegister(m)
  \/ RegisterReturns
  \/ BeginStream
  \/ \E m \in Modules : Stream(m)
  \/ Sleep

Next ==
  /\ \/ \E m \in Modules : Callback(m) \/ Silence(m)
     \/ Tick
  /\ UNCHANGED gateways

Spec == Init /\ [][Next]_vars

\* Every await of the tick ends (the HTTP calls have timeouts), so the
\* coroutine keeps running; nothing is assumed of the modules.
FairSpec == Spec /\ WF_vars(Tick /\ UNCHANGED gateways)

-----------------------------------------------------------------------------
(* Properties.                                                             *)

\* No module is forgotten: one that is online and not registered is queued,
\* still to be visited by the drain loop, or being registered right now.
\* (_touch, on_hello and expire queue it; nothing else will look for it.)
\* Gateways are excluded: the drain loop discards them on purpose.
NobodyForgotten ==
  \A m \in (online \ registered) \ gateways :
    \/ m \in newly
    \/ pc = "drain" /\ m \in todo
    \/ pc = "registerWait" /\ (m \in todo \/ m = call)

\* A module the registry holds offline is shown offline by the dashboard, or
\* its final status is still to be pushed in this tick (service.py step 1), or
\* the PUT of it failed: nothing else keeps it from being shown.
OfflineIsShown ==
  \A m \in (modules \ online) \ gateways :
    \/ Flipping /\ m \in todo
    \/ shown[m] = "offline"
    \/ m \in lost

\* A module that is online and not registered is offered to Olympus, or goes offline.
\* No more is promised: the vehicle API knows no role "swarm_module" (vehicles.rs:172)
\* and refuses every such offer, the service does not look at the answer
\* (service.py:83), and a module that changes while its offer is under way is offered
\* as it was.
EventuallyTried ==
  \A m \in Modules :
    (m \in (online \ registered) \ gateways)
      ~> (m \notin online \/ call = m)

\* A module that falls silent is shown offline, unless it is heard again or the PUT
\* that says so fails.
SilenceIsShown ==
  \A m \in Modules :
    (m \in overdue \ gateways)
      ~> (m \notin overdue \/ (m \notin online /\ (shown[m] = "offline" \/ m \in lost)))
=============================================================================
