# Modular-Swarm in TLA+

Specifications of Modular-Swarm, a mesh of sensor modules (Thread/CoAP) under a
command station, joined to the Olympus fleet system (brain, bridge, vehicle API,
dashboard). The modules here are translated from the code; TLC checks them on
small instances and TLAPS proves the properties that matter most for every value
of the constants. Paths below are relative to `src/`.

## The system

| part | state it keeps | operations | talks to |
| --- | --- | --- | --- |
| node firmware `swarm_node` | peer table, parents, sensor cache, last injected pose | hello / telemetry / neighbour timers, ROUTE and CMD handlers, relaying, pose injection | mesh (CoAP), gateway serial, Jetson serial |
| gateway node | same, plus the serial downlink | forwards mesh frames to the station and station frames to one node or to all | station (USB serial), mesh |
| Jetson agent `jetson_agent` | own EUI, peers, override with a time to live, goal, map of detections | read loop, mission choice, steering, telemetry and pose injection | node over serial |
| Jetson link `coap_server/src/jetson_link.c` with `jetson_agent/nrf_link.py` | handshake phase, retry counter, stream sequence number | manifest, acknowledgement, stream, re-announce | USB CDC with DTR |
| station service `olympus_link` | registry of modules, queue of newly seen ones, gateway EUI, last routes | serial callback, one tick per second, operator commands | gateway serial, vehicle API (POST), Zenoh REST (PUT) |
| autorouter `olympus_link/autorouter.py` | a route per module | shortest paths, parents with hysteresis, subscriptions | the registry |
| vehicle API (Rust) | vehicles with trust and status, webhooks, rate-limit windows, detections | register, approve, revoke, deliver | brain and dashboard over Zenoh |
| brain (Python) | swarm members and manifests, consensus term and leader, tasks, detection ring, link level | registry events, election, approval, task execution, allocation, sync | Zenoh, autopilot |
| bridge (Rust) | merged telemetry, peers, links | MAVLink, ELRS, LoRa and Zenoh tasks around shared state | autopilot, radios, Zenoh |
| dashboard (JS) | fleet store | polling, merging, ageing | Zenoh REST, vehicle API |

### What is hard in it

* **Suspension points.** The station's tick is one coroutine; serial callbacks run
  at its awaits, so flags written after an await may undo what a callback did.
* **Old state used in new graphs.** The autorouter keeps a parent chosen in an
  earlier graph; neighbour entries and routes outlive the module's absence.
* **Fire and forget.** Frames down the serial link, PUTs to Zenoh and registry
  events are sent once, and the sender records them as delivered.
* **Replicated registries.** The vehicle API and the brain keep the same vehicles
  and are joined by events that are published after the lock is released.
* **Expiry between two reads.** The Jetson's override and several caches expire by
  the clock between two uses in one step.
* **Handshakes over a level signal.** DTR is polled; a change between two polls, or
  during the teardown of a session, is not seen as an edge.
* **Two peers with one plan each.** Scouts, drones and bidders compute the division of
  the work from what each has heard, at different moments.
* **Leadership without persistence.** A restarted brain forgets its term and vote.
* **A process that dies between two commits.** The archive of detections publishes,
  marks and purges in separate steps.
* **Octets without acknowledgement.** Serial frames may lose an octet or their end, and
  the reader must find the next one by itself.
* **Capped stores.** Peer table (32), detection rings, webhook lists, command queues.

The properties that make each part correct follow from these: for every module a
registration is tried in the end; every route is a path;
nobody acts on a command it should have refused; at most one leader per term;
approvals stay within the rules of engagement; a detection is kept or delivered;
two copies of a registry agree when they are quiet and nothing was lost. Where the code
does not keep what one would expect, the property says what it does keep, and
the section on disagreements says the rest. `PROJECT.json` lists the hazards one by
one at their lines.

## Modules and the code

A module models one component; those that interact are composed by EXTENDS
(`CommandChain` on `JetsonAgent` on `SwarmProto`; `Scout` and `ModelUpdate` on
`TrustGate`; `Tasking` on `Allocation` and `Escalation`). Of the executor's parts the
instance puts together what the code has in objects of their own: `MCExecutor` extends
`Executor` with `MissionProfile` and `Escalation` for the values of its constants. The MC
module gives constants their values, and a `...Proofs` module holds the theorems of a
component, or of two that end in the same place: `CompanionProofs` those of `JetsonLink`
and `CommandChain`, `ExecutorProofs` those of `Executor` and `Tasking`. Time never
is a number where an order of events is enough: "the limit has passed" is an action.

### StationService (`olympus_link/service.py`, `model.py`, `olympus_client.py`)

The tick is one asyncio coroutine and the serial reader calls `_on_payload` on the
same event loop, so a callback runs only where the tick is suspended (`pc` in
`sleep`, `flipWait`, `registerWait`, `streamWait`); every other action is the code
from one `await` to the next. `modules`, `online`, `registered`, `newly` are the
registry's dictionary, two of its flags and `_newly_seen`; the flag that counts
most is set after an await (`RegisterReturns`). `shown` is the status that was last
published of a module, `lost` the modules whose last PUT failed, which nothing
repeats. Time is one fact: a module has been silent for longer than
`module_ttl_s` (`overdue`), which can only come to be while a tick is waiting for
HTTP. What the vehicle API answers is no state here: the tick ignores it and sets the
flag, so `registered` means that a registration was tried. That is all
`EventuallyTried` can say, as the API refuses the role in every such body. Nothing that
is called in a tick lets an exception out, so the handler of a failed tick
(`service.py:156-159`) is left out.

### Autorouter (`olympus_link/autorouter.py`)

`_dijkstra` is a loop of one `Pop` per heap entry in any order the heap may give to
equal ones; `compute` then assigns a primary parent with hysteresis
(`ChoosePrimary`), a secondary parent (`SecondaryChoices`) and subscriptions to all
online modules in one step (`Assign`), as nothing suspends it. Between two
computations modules are heard, report other links, expire, and a gateway may be
adopted. Costs are integers from a small set instead of the float of `link_cost`; an
edge counts twice the mean of its reports, so that the mean of two needs no fraction
(`Weight`). Iteration over Python sets is a nondeterministic choice.

### SwarmProto, JetsonAgent, CommandChain (`proto/swarm_proto.py`, `jetson_agent/`, `olympus_link/commands.py`, `swarm_node/src/`)

The way of an order from the operator to the drone. `SwarmProto` encodes and decodes
the messages of this way octet by octet, with the CRC and the COBS framing. `JetsonAgent` is the companion: `Arrivals`
puts frames on the serial line whole, with an octet lost, or cut by the overflow of
the node's transmit ring; `OnReadable` takes all that has arrived, or half of it,
and dispatches what became whole; `Tick` reads the override as often as the code does (`active`,
`mission`, `goal`), the time limit running out before any of these reads, and
suspends in the registration of its module (`Registered`). Places lie on a meridian.
`CommandChain` adds the station's translation and choice of a target, a mesh that
delays, reorders and loses, and the node's permission gate; its initial states and
specification are `CommandInit` and `CommandSpec`. An order has a limit (`Limit`), of which
the frame keeps two octets (`Kept`).

### JetsonLink (`coap_server/src/jetson_link.c`, `jetson_agent/nrf_link.py`)

The link thread is `phase` (poll, announce, await, backoff, stream, period,
resample); it samples DTR and sees no edge between two samples. The ring holds whole
lines: a line that does not fit is cut, with or without its newline (`Emit`). What
the host had fetched when it closes is lost, the rest stays for the next session.
`QuickReopen` lets the host reopen before the module has seen it closed, `SlowHost`
lets it answer after the time limit.

### Executor and TaskServer (`olympus_brain/executor.py`), with MissionProfile and Escalation

`_main_loop` reads `self.state` (`Dispatch`) and awaits the handler of that state;
`pc` names the handler, a step of it or the await it is at, and `local` is the task a
handler keeps in a local variable over its awaits. Two more flows run beside it:
`assign_task` on the event loop, while the main loop awaits (`line`, with its argument in
`given`), and `_on_command_received` on a thread of Zenoh (`cmd`). No lock ties them, so an
action is what one of them does up to its next use of an attribute that another writes,
and a recall may fall between any two of them. A position is a
task's place, home or elsewhere. The profile of the instance says what a task takes
from the payload, the vertical what the end of a time limit means; nothing ties the
two together in the code or here. Nothing in the repository sets
`_escalation_response`, so a request is only ever ended by its time limit. Bids are kept,
never sent and never read, so the model has no bids.

`TaskServer` is what is promised to whoever hands out tasks, without handlers and awaits:
one task at a time, completed at its place or cancelled before the drone moves, and
payload only from home. It promises this while it is left in calm. The history variable
`disturbed` is TRUE from a command until the drone is at rest again (idle, with nothing in
hand, no request and no flag); `Executor` implements `TaskServer` with `calm` as its
negation, and with `current` as `current_task`, except in the middle of `assign_task` and of
the end of the work. What the code does to a disturbed drone is in the model, and is wrong
often enough that no property could be stated of it but `LoopGoesOn` and
`HeldWithoutTask`; the last is about recalls that meet no assignment (`overlapped`).

### Allocation, MissionProfile, Escalation, Tasking (`cbba.py`, `athena.py`, `mission_profile.py`, `escalation.py`)

Operators for what an executor computes: the score of a task, the rules of engagement,
the bundle (`Add`) and the consensus phase, and the risk of a task with the decision to
ask. `Tasking` makes steps of them where another thread may come in between: a pass over the
tasks looks at one after the other (`NewPass`, `Look`, `Found`, `Add`), and the number
of available drones may change at any of these moments (`SetAvailable`, called by
the handler of task auctions), also between the last pass and the return (`EndRound`).
The rules of engagement bind the profile of ATHENA, which is also that of every instance
`load_profile` does not know. Scores are whole numbers that keep the code's weights
exactly (see the head of `Allocation`).

### Scout (`scout.py`, `node.py`)

The scan loop is a coroutine from one await to the next; telemetry, commands and the
cleanup of silent peers come between any two steps. Zones are divided between the scouts
that are heard (`Zone`), waypoints ranked by belief and gain, and a belief is rounded to a
whole number of tenths. What inference says is a choice of its outcome: at the waypoints of
`certain`, any set of them, it reports a detection at every visit, elsewhere it may. The
field is a line.

### ModelUpdate (`ai_agent.py`, `swarmnet.py`, `node.py`)

The agent of the base is a coroutine (`Recall`, `Prepare`, `Push`, `EndWait`, `Redeploy`), the
aggregator counts drifts, and a controller on each scout loads a version and
acknowledges it. Messages arrive in any order, in any later cycle, or are lost; scouts and
base restart. Which scouts the base knows when it prepares a version is any set of them.
`answer` remembers which version a scout acknowledged since the last one was made.

### TrustRegistry and TrustGate (`vehicle-api/src/routes/vehicles.rs`, `zenoh_client.rs`, `olympus_brain/node.py`)

A request changes the API's map under the lock and leaves its event in `handling`;
`Publish` sends it after the lock is released. The node handles events in the order
of their publication. `publish_raw` may fail, requests may overtake each other between
the lock and their publication, and both programs start again with an empty registry.
`latest` and `astray` remember which vehicles one of these has led astray. Only the registration
status of a vehicle is kept; the tier decides whether it starts as pending.
`TrustGate` is the test a node makes of each command by that registry.

### Backhaul and StoreAndForward (`detection_buffer.py`, `comms_monitor.py`)

`rows` is the SQLite table as it is committed; a call of the archive is a step, and so
are the ways it may end early, with the process or by an exception the archive swallows
(`CutShort`). `Sync` publishes a batch, marks it and purges. Publishing is a callback that
may return or raise whatever the monitor thinks of the links; "delivered" means that it
returned. The monitor's `Check` has the code's count of three.
`StoreAndForward` is what such a store promises; `Backhaul` implements it with `held`
refined to the rows that are stored.

### Consensus (`swarm_consensus.py`)

One pass of the loop and each handler is a step; messages ever sent may arrive late,
again or never; the random timeouts may pass at any moment. Nothing in the repository
creates a `SwarmConsensus` or sends its vote requests, so the transport is the one its
interface allows.

## Runs

| run | instance | shows |
| --- | --- | --- |
| `station` | two modules, of which one may turn out to be the gateway, two configurations | nobody is forgotten, a registration of everybody is tried, silence is shown unless a PUT failed |
| `router_routes` | two modules, a gateway, links of cost 1 and 12, any number of ticks | shortest paths, the margin, orphans, secondary parents, subscriptions |
| `executor` | a task that takes payload and one that is asked about, over and over, profile of CERES, verticals CERES and ATHENA, recalls and redeployments at any moment | from rest to the next command the executor implements `TaskServer`, tasks end, low payload is refilled; a held drone has nothing pending, no handler hangs |
| `executor_approval` (violation) | the same with vertical ATHENA | a task that waits for its approval is executed |
| `link_connected` | ring of two lines, six attempts, two acks under way | only announced sessions are streamed to; a lasting session is streamed to |
| `trust` | one vehicle, two requests at once, three events under way, lost publications, restarts of both programs | the registries agree, and a revocation arrives, unless its event was lost, overtaken or forgotten |
| `scout` | three waypoints, one peer, any set of waypoints with a certain detection, a recall at any moment | a scout that lost its peers sees the whole field, or stays at a waypoint with a certain detection |
| `model_update` | two scouts, one of them unknown to the base's registry, two versions, one restart | whoever is confirmed has acknowledged and loaded a version; a recall is lifted |
| `backhaul` | four detections (one unreadable), room for three, batches of two, any number of crashes and failures | the archive implements the store, evicts the synced first, delivers; the mode settles |
| `consensus` | three drones, two terms, one approval | one leader per term; the base decides |
| `tasking` | three or four tasks, three instances, one or two drones available; requests with each list and threshold | bundles are complete, allocation ends, risk is monotone, asking is a fixed rule |
| `command_chain` | two orders out of five, three reports, frames that lose an octet or their end | frames survive, what is held was ordered for this node and for so long, plans follow it and expire |

**Bounds.** In `StationService`, `Autorouter`, `Executor`, `Scout` and `Backhaul` nothing is
cut off, and runs explore any number of ticks, tasks, commands, legs and crashes.
Elsewhere every bound is a named constant, and each bounds only how often the environment acts: `MaxAcks`, `MaxInbox` (what is under way),
`MaxVersion`, `MaxDrifts`, `MaxRestarts`, `MaxTerm`, `MaxFrames`, `MaxFaults`,
`MaxOrders`, `HitAt`.

* Two modules are enough for one to be heard while another is awaited. Three nodes are
  enough for a kept parent to lead back through its child; costs 1 and 12 make
  a difference both below and above the margin of 15 %.
* The payload of the run reaches levels on both sides of the 20 % that send a drone home;
  the 5 and 10 % thresholds are in the theorems, for any capacity and costs.
* One vehicle is enough for two requests to overtake each other, as requests about different
  vehicles share nothing; the theorem is about any number of both.
* A ring of two lines overflows and holds a stale line beside a fresh one. `MaxAcks = 2`
  holds an ack of the last manifest beside one of the present, `MaxInbox = 3` two
  events behind the one being handled.
* Three waypoints and one peer, at the launch or in the field, divide the field in every
  way that leaves a scout with part of it; the peer falls silent in the midst of a leg.
* Two versions are enough for an answer to the first to come during the second.
* Four detections in three places overflow; a batch of two leaves some behind, and the
  unreadable one is the oldest, where it does most harm.
* Three drones have majorities that overlap in one; two terms make a vote or heartbeat stale.
* Four tasks are one more than a bundle. The requests of `score` and the questions of an
  allocation have values on both sides of the thresholds they meet.
* `MaxCode = 9` instead of 255 makes every message span several COBS blocks, which with
  the real limit only the longest would; two frames and one fault show that a damaged
  frame costs itself and the next at most. Two orders suffice for one to follow another; the
  limits of the orders are 0, 1 and 65537, which 16 bits make 1.

**Fairness.** All of it is on the program's own loops and clocks. The station's tick is
WF: each HTTP call has a timeout, so every await ends. The executor's loop is SF, as
`assign_task` holds it up for a moment again and again, and what it does itself and the
handler of a command are WF; `Navigate` is SF in the step that reaches its end, as a flight
gets nearer with every iteration; `ApprovalTimeout` is SF, as the clock passes the limit
while the handler looks at it over and over. The link is WF in the thread, the interrupt
and the host's reads, and in `Open`, as `run()` reconnects for ever. Handlers of the API
end (SF in their publication, because the bound `MaxInbox` disables it now and then), and
the node's subscriber is WF.
The scan loop and the cleanup loop are WF, `MinutePasses` is SF (the loop compares the
clock on each turn), and a lost peer stays silent. The update cycle, its timeout and
interval are WF; `Deliver` is WF in that a message arrives or is lost. The pass of the
syncer that publishes its whole batch is SF: blackouts, crashes and torn batches are
allowed without end, but a batch that is tried again and again gets through some time. The
monitor's check with no link silent is WF. The agent reads, ticks and registers, and its second
passes. Nothing is assumed of modules that send, operators, peers, links, or the host's
closing of the port; `consensus` and `tasking` need no fairness.

## Disagreements between the code and what it says

Each of these was met while modelling. The first five can be shown by TLC in the
modules as they are, with the constants or formula given:

* A HELLO that arrives while the tick awaits `register_module` changes the configuration
  just sent, and the flag set after the await hides it (`service.py:84`, against
  `model.py:176`). In `StationService`: a registered module's configuration is the one
  that was sent.
* Parents kept by hysteresis may form a loop after several changes (`autorouter.py:126`,
  against `:6-7`): the formula `PrimaryTree` of `Autorouter`.
* A flight that a recall cuts short makes the drone execute whatever has become its current
  task meanwhile, also one that waits for its approval and whose request would be
  cancelled (`executor.py:389`, against `escalation.py:4-5`): the run `executor_approval`.
* A port closed and reopened between two samples of DTR is never announced to
  (`jetson_link.c:275`, against `:12` and `nrf_link.py:15-16`): `StreamsInTheEnd` with
  `QuickReopen = TRUE`.
* Events of concurrent requests may leave in another order than the changes they report
  (`vehicles.rs:368`, against `olympus/README.md:1064`): `StatusAgrees` without
  `astray`.

Station and link:

* The registration body has the role `swarm_module`, which `register_vehicle` refuses
  (`olympus_client.py:193`, `vehicles.rs:172-179`), so no module is ever in the API; the tick
  marks it registered all the same (`service.py:83-84`), against `model.py:81`.
  `EventuallyTried` says that it is tried, which is what the code does keep.
* A module that expires while it is queued is registered while offline, and its
  return is skipped (`model.py:158`), against `model.py:232`.
* A final OFFLINE that fails to be put is not repeated (`service.py:69-75`,
  `olympus_client.py:212-217`): `OfflineIsShown` fails without `lost`.
* A line that overflows the ring loses its end but a later newline may still be put
  (`jetson_link.c:65-79`), against `protocol.h:5-6`; old samples are read before the
  manifest of a new session (`jetson_link.c:59`), against `protocol.h:30`; with `SlowHost`
  an ack that comes after its attempt is thrown away (220) and after six attempts the
  link is silent.

The way of an order:

* `SET_MISSION` keeps the waypoint of an earlier order, so RTL, LOITER and EMERGENCY_STOP
  fly to it (`override.py:37`). EMERGENCY_STOP is translated to a mission LOITER whose goal
  is home, not the hold of `commands.py:54`.
* A time limit is masked to 16 bits (`swarm_proto.py:695`, `705`), so that a limit of 65536 s
  arrives as 0 and the override is held until it is cleared, against `override.py:5-6`.
* `own_eui` is taken from a leader's broadcast if that comes first (`agent.py:74`).
* A limit that passes between `active()` and `mission()` raises in the tick
  (`mission.py:53-55`, `agent.py:196-197`), and so does a mission number that `MissionMode`
  does not have: that tick publishes and injects nothing.
* The agent takes its own injected pose for a new fix (`agent.py:115-121`); the sensor bits a
  Jetson adds make each HELLO look like a reconfiguration; flags set after the await of the
  registration overwrite what arrived during it.
* A transmit ring that is full keeps the part of a frame already queued, which swallows the
  next frame (`serial_link.c:186`). Commands are neither acknowledged nor sent again, unknown
  targets are dropped, and a route counts as pushed before it is (`autorouter.py:104`).

The brain:

* Whatever a recall interrupts goes on and overwrites `RECALLED` (`executor.py:389,
  437-439, 466`), or refills away from home (463). A recall, a redeployment and an
  assignment during the work make the executor complete the old task and forget the new
  one (431-433): it stays `ASSIGNED` for ever and nobody has it.
* `assign_task` and the handler of a recall write the same attributes from two threads
  without a lock (`executor.py:181, 515-552`): a drone that is held may keep a task, a
  request for approval or a bid. `HeldWithoutTask` fails without `overlapped`.
* Bids are made and never sent: `asyncio.create_task` is called from the session's thread,
  `_submit_bid` only logs, and `pending_bids` is cleared by a recall alone.
* `ExecutorConfig.vertical` defaults to CERES while the profile defaults to athena, and
  nothing ties them together.
* `run_allocation` has no caller, and the bundles of other drones are local to it and
  empty, so two drones may take the same task. Of several detections that lead to one
  task the last names it: in ATHENA an investigation counts as a thermal anomaly and passes
  the rules of engagement that stop hostile activity, and a mark never passes.
* `await` of `publish_detection`, which returns None, raises after the detection is out
  (`scout.py:493`), and the waypoint is looked at again. Where inference reports something at
  every visit the belief does not fall, the waypoint stays the best one, and the scout
  stays for ever: `SurvivorSeesAll` fails without that exception. PAUSE, RTL and EMERGENCY_STOP set a status
  that the scan loop overwrites (`scout.py:348`), against "Immediate halt"
  (`olympus/README.md:1160`). A scout that starts at the launch while its peers fly has an
  empty zone until they are lost; peers at one place are dropped (`scout.py:304`). Zones computed
  at different moments overlap or leave holes.
* An ack of any version counts for the version under way (`ai_agent.py:140`), so that a
  late answer to an old push confirms a new version that nobody has loaded, against the
  log line at 226. `ConfirmedHasLoaded` says what is left: some version was
  acknowledged since the last one was made, and it is loaded. After a restart the base numbers from the start, and scouts
  refuse what is no newer than theirs. Every command is handled twice, once for each of
  two matching subscriptions.
* Unreadable rows count for the batch: as many as `batch_size` stop the upload for ever;
  purging happens only when something is pending.
* A consensus term and vote are not persisted, so a restarted drone may vote twice; a leader
  decides on after its RTL limit; the limit of approvals is per drone; the permitted task types
  are not tested.
* The event of an approval has no tier, and no event has the manifest, so that an
  approved partner is trusted in every node (`node.py:440`, `vehicles.rs:361-366`),
  a partner without a manifest may do everything, and pending vehicles are obeyed;
  a node that starts late knows nobody (`node.py:279`); a failed publication is not repeated
  (`vehicles.rs:410`), and an API that restarts forgets its vehicles and who was revoked,
  which its nodes do not hear of.

## Proofs

All theorems hold for every value of the constants that meets the module's named
assumption. Theorems with assumptions of their own say so.

* **StationServiceProofs.** `TypeCorrect` carries `CallOK` (the awaited call is about a
  module of the registry), without which `RegisterReturns` could mark a stranger.
  `NoModuleForgotten` is inductive on top of it. `OfflineModulesAreShown` allows any
  PUT to fail (`lost` says whose last one did) and needs `OfflineStatus`: an offline
  module has status OFFLINE, so what is pushed for it is the right word.
* **AutorouterProofs.** `DijkstraCorrect` rests on `SearchInv`: a reached vertex either
  has its current distance in the heap still or no edge from it shortens anything, and
  none is closer than its predecessor allows; the order of the pops plays no part.
  From the equations of shortest paths in the state of a finished search follow
  `OrphansCorrect`, `HysteresisBounded` (no parent costs more than 100/`Keep` of the
  shortest path) and `SecondariesLoopFree` (distances fall along secondary parents; the
  least element of a set of naturals ends the descent). `PathsAreShortest` compares the
  search with all the paths there are (`PathsTo`): no path is shorter than the distance
  found, as the equations bound the way along it vertex by vertex; and one has it, as
  the predecessors lead back to the gateway and, distances falling, in fewer steps than
  there are vertices. Hence the assumption that `Nodes` is finite. `ConsumersAreServed` holds in every
  state, as subscriptions are assigned in one step; it assumes that a module has
  finitely many sensors.
* **ExecutorProofs.** No theorem restricts the commands or their moments.
  `HeldDronesHaveNoTask` rests on `Held`, which follows a recall through its steps: what it
  has cleared stays clear, as the handlers only ever clear (`LoopClears`) and an
  assignment under way is remembered by `overlapped`. `WorkIsAtTarget`,
  `ApprovalIsRespected`, `RefillIsAtHome` and `ExecutorServesTasks` are about a drone from
  rest to the next command. Their invariant `CalmUntilDisturbed` ties `state`, `pc`,
  `line`, `local` and the status of the task in hand together while `disturbed` is FALSE
  (`Calm`); coming to rest establishes it out of any disorder, a command ends it, and in
  between nobody else writes. `ExecutorServesTasks` is the refinement of `TaskServer`:
  every step is one of the server's or stutters, a step of a disturbed drone being one
  of a server that is not calm. Without `disturbed` all four are false: the end of a
  flight or of the work writes over a recall.
  For `TaskingSpec`, `RiskAdds` and `AskingIsSettled` are about tables and thresholds; they
  hold because a factor that comes with more risk only raises the rank of what `Highest`
  finds, and because what was seen before adds a factor below the level that asks.
  `BundlesAreFull` and `RoundsEnd` rest on `RoundsOK`: the bundle has no task twice and
  nobody holds or bids for any other (`HeldOK`), every round but the last
  ones has made it longer than the one before, and a round without an addition leaves
  nothing that scores. If the number of drones changed since the pass began (`recounted`),
  its scores were made with several numbers, and what can still be said is that nothing is
  left that scores for a drone alone, as company only adds to a score
  (`AloneScoresLess`). The second theorem bounds the rounds by the room in the bundle,
  far below `MaxRounds`.
* **CompanionProofs.** `StreamsAreAnnounced` assumes `QuickReopen = FALSE` only, so it
  covers slow hosts. It rests on `AcksAreFresh`: an ack in the semaphore, or under
  way, while the module waits comes from this session. `FliesAsOrdered` and
  `PlansAreAsTold` are about an order's whole way. Their invariant `ChainOK` says of each
  place on it what may be there: in the mesh the frame of an order that was given, on the
  line only reports and the commands this node may pass on, in the agent an override
  whose mission and limit (modulo 2^16) one order for this node asked for, and whose
  waypoint is that of this or another order. The step that matters is the agent's: what
  `unpack_waypoint` and `unpack_mission` find is what was packed, for every latitude and
  every limit (`OctetsMakeUp`, `TwoMakeUp`: a number is made up of its octets, negative ones
  and those above 16 bits included), and a read handles any number of messages, so
  the override is followed from one to the next (`AllHandled`). `PlansAreAsTold` goes through
  the moments in a tick at which the limit may be found to have passed (`TickTold`).
  Both need that what is handled is a part of what was sent, which `FramesAlwaysArrive`
  proves, however reads cut the octets and whatever the line loses. Its invariant
  `LineGood` divides the octets between node and agent into pieces, one for each frame
  sent, and says how far the agent has read: before each piece the buffer holds what frames
  without an end have left, behind it the messages handled are some of those sent, in
  order, and the frames missed are paid for by the piece that was hit or the one that
  lost its end. `Put` adds a piece; a read is followed octet by octet (`OneOctet`), and only
  a delimiter handles anything. These three theorems assume `ChecksumsTell`: a frame
  ends with its only delimiter and holds its message; neither a frame that lost an
  octet, nor one behind the stump of another, has a right checksum. This is what a CRC of
  16 bits makes likely and nothing guarantees, so it is a hypothesis about the orders and
  reports, which TLC evaluates for those of the run (`MCCommandChainAssumption`).
* **TrustRegistryProofs.** `StatusesAgree` has no assumptions about the number of
  requests, lost publications or restarts. `StatusAgrees` speaks of quiet states, so the
  invariant says of each vehicle that is not astray that the handler of its last change,
  while it has one, holds an event that leads to the status of the record
  (`LatestHandled`), and that afterwards the last event under way about it does, or the
  registries agree about it when there is none (`Consistent`).
* **ConsensusProofs.** `LeadersAreUnique` holds for any number of drones and terms. Its
  invariant says that nobody voted for two in a term (`VotesOnce`), that a voter's own state
  knows the vote of its present term (`VotesRemembered`), that candidates count votes of
  their present term, and that whoever has led was elected by a majority; two majorities
  of a finite set meet. `BaseComesFirst` is inductive on the types.
* **BackhaulProofs.** `ArchiveRefinesStore` is the refinement: every step of `Backhaul`,
  crashes and exceptions between commits included, is a step of `StoreAndForward` or
  stutters, given that what is marked has been delivered (`MarkedIsDelivered`). `UnsyncedGiveWayLast` is
  the action property on eviction; the lemma `OldestShortIsAll` says that asking for
  more of the oldest than there are returns all.
* **ModelUpdateProofs.** `ConfirmedScoutsHaveLoaded` allows messages of one cycle to come
  in any other. Its invariant says that a scout has every version it acknowledges, wherever
  the acknowledgement is (`AckedIsLoaded`, `AnsweredLoad`), unless it was restarted, and that
  a scout no longer waited for has been heard from (`HeardFrom`).

Only model-checked:

* liveness (`EventuallyTried`, `SilenceIsShown`, `TaskEnds`, `LowIsRefilled`,
  `LoopGoesOn`, `StreamsInTheEnd`, `RevocationArrives`, `SurvivorSeesAll`, `RecallIsLifted`,
  `DeliveredInTheEnd`, `ModeSettles`, `ResumesByItself`), which needs fairness and ENABLED;
* that the framing and the checksum do what `ChecksumsTell` asks of them, which is
  evaluated for the frames of the run: they are computed by recursion over messages of any
  length, and what they yield for all of them would need an induction over data.

## Not modelled

* Numerical code: localization, estimators, vision, steering and collision avoidance, the
  agent's filter. Of navigation it was noticed that GPS that is usable but not good,
  without vision, never leaves VIO or DEAD_RECKONING, with a frozen position; only tests
  create a `NavigationManager`.
* The firmware's peer table (32 places without eviction, `swarm_coap.c:61`), its parents and
  timers, and the receiver's overrun (`serial_link.c:119`). What becomes of a route between
  `compute` and the node is therefore not modelled.
* `mission_planner.py`, which cannot be imported (it takes `TaskStatus` from `protocol.py`,
  which has `TaskState`), and the advisors, which are calls to language models.
* The bridge (Rust), the API's webhooks, rate limits and detection store, the dashboard,
  device drivers, simulators, tools, the CAD script and vendored samples.
* Exclusion zones of the allocation, which no configuration sets; the functions that
  nothing calls (`force_retrain`, `receive_soft_labels`, `set_bandwidth_mode`,
  `set_gps_denied`, `set_comms_state`).

`PROJECT.json` has the reason for each part.

## Plan

1. `RouteDelivery`: what becomes of a route between `compute` and `apply_route`
   (`pushed_hash`, the serial link, the peer tables, reboots), with the abstract
   specification "the node has the parent last assigned to it"; composed with `Autorouter`.
2. `Bridge`: publisher, main loop and radio tasks around the shared state; the lost
   update of telemetry (`bridge.rs:319`).
3. Several scouts with a view each, so that overlapping zones can be measured.
4. `FleetApi`: webhooks, rate-limit windows and the capped detection store, at their limits.
5. Composition of `StationService` with `Autorouter` over one registry, so that
   expiry, registration and routing share one history.

Further theorems: that `TrustRegistry` implements a register that holds one status
per vehicle; that a configuration that is registered is the current one if no HELLO
comes during the registration.
