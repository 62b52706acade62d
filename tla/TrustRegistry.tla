----------------------------- MODULE TrustRegistry -----------------------------
(***************************************************************************)
(* Two copies of the register of vehicles: the one of the vehicle API      *)
(* (routes/vehicles.rs) and the one every brain node builds from the       *)
(* events the API publishes (olympus_brain/node.py).  Both are modelled as *)
(* far as a vehicle's registration status goes.                            *)
(*                                                                         *)
(* A request changes the map of the API under a lock and publishes its     *)
(* event after it has released the lock, so the events of concurrent       *)
(* requests may overtake one another; what is published is delivered in    *)
(* its order, and what fails to be published is not repeated.  Neither     *)
(* program keeps its registry over a restart.                              *)
(***************************************************************************)
EXTENDS Naturals, Sequences

CONSTANTS
  Vehicles,
  Handlers,  \* requests that the API may be handling at once
  MaxInbox,  \* bound: events on their way to the node
  None

Tiers    == {"trusted", "partner", "observer"}
Statuses == {"pending", "approved", "rejected", "revoked"}
Records  == [tier : Tiers, status : Statuses]
Events   == [action : {"registered", "approved", "rejected", "revoked"},
             vehicle : Vehicles, status : Statuses]

ASSUME RegistryAssumption ==
  /\ MaxInbox \in Nat \ {0}
  /\ None \notin Records \cup Statuses \cup Events \cup Handlers

VARIABLES
  vehicles, \* AppState.vehicles: a record for each vehicle, or None
  handling, \* the event each handler has still to publish, or None
  inbox,    \* published events the node has not handled yet
  registry, \* SwarmState.trust_registry of the node: a status, or None
  latest,   \* history: the handler that has still to publish the last change, or None
  astray    \* history: vehicles whose last change is not the last one published, or
            \* was never published, or is forgotten by the API

history == <<latest, astray>>
vars    == <<vehicles, handling, inbox, registry, history>>

TypeOK ==
  /\ vehicles \in [Vehicles -> Records \cup {None}]
  /\ handling \in [Handlers -> Events \cup {None}]
  /\ inbox \in Seq(Events) /\ Len(inbox) <= MaxInbox
  /\ registry \in [Vehicles -> Statuses \cup {None}]
  /\ latest \in [Vehicles -> Handlers \cup {None}]
  /\ astray \subseteq Vehicles

Init ==
  /\ vehicles = [v \in Vehicles |-> None]
  /\ handling = [h \in Handlers |-> None]
  /\ inbox = <<>>
  /\ registry = [v \in Vehicles |-> None]
  /\ latest = [v \in Vehicles |-> None]
  /\ astray = {}

-----------------------------------------------------------------------------
(* The API *)

\* What the node reads in an event; a status that is missing is "approved".
Event(action, v, status) == [action |-> action, vehicle |-> v, status |-> status]

\* Partners wait for an operator.
InitialStatus(tier) == IF tier = "partner" THEN "pending" ELSE "approved"

\* A request has changed the record of v and has an event to publish about it.
Changed(h, v, event) ==
  /\ handling' = [handling EXCEPT ![h] = event]
  /\ latest' = [latest EXCEPT ![v] = h]
  /\ UNCHANGED <<inbox, registry, astray>>

Register(h, v) ==
  /\ handling[h] = None
  /\ \E tier \in Tiers :
       /\ vehicles' = [vehicles EXCEPT ![v] = [tier |-> tier, status |-> InitialStatus(tier)]]
       /\ Changed(h, v, Event("registered", v, InitialStatus(tier)))

Approve(h, v) ==
  /\ handling[h] = None
  /\ vehicles[v] # None /\ vehicles[v].tier = "partner"
  /\ \E answer \in {"approved", "rejected"} :
       /\ vehicles' = [vehicles EXCEPT ![v].status = answer]
       /\ Changed(h, v, Event(answer, v, "approved"))

Revoke(h, v) ==
  /\ handling[h] = None
  /\ vehicles[v] # None
  /\ vehicles' = [vehicles EXCEPT ![v].status = "revoked"]
  /\ Changed(h, v, Event("revoked", v, "approved"))

\* Telemetry of an unknown vehicle makes a record with the defaults and no event.
IngestTelemetry(v) ==
  /\ vehicles[v] = None
  /\ vehicles' = [vehicles EXCEPT ![v] = [tier |-> "trusted", status |-> "approved"]]
  /\ UNCHANGED <<handling, inbox, registry, history>>

\* publish_raw puts the event or fails, which no handler looks at.
Publish(h) ==
  /\ handling[h] # None /\ Len(inbox) < MaxInbox
  /\ handling' = [handling EXCEPT ![h] = None]
  /\ LET v == handling[h].vehicle IN
       /\ latest' = [latest EXCEPT ![v] = IF @ = h THEN None ELSE @]
       /\ \/ /\ inbox' = Append(inbox, handling[h])
             /\ astray' = CASE latest[v] = h -> astray \ {v}
                            [] latest[v] = None -> astray \cup {v}
                            [] OTHER -> astray
          \/ /\ inbox' = inbox
             /\ astray' = IF latest[v] = h THEN astray \cup {v} ELSE astray
  /\ UNCHANGED <<vehicles, registry>>

\* The API starts again with no vehicle; the requests it was handling are gone.
RestartAPI ==
  /\ vehicles' = [v \in Vehicles |-> None]
  /\ handling' = [h \in Handlers |-> None]
  /\ latest' = [v \in Vehicles |-> None]
  /\ astray' = astray \cup {v \in Vehicles : vehicles[v] # None}
  /\ UNCHANGED <<inbox, registry>>

-----------------------------------------------------------------------------
(* The node *)

\* Mutants of Entry: the status of the event is not looked at; a revoked vehicle
\* stays as it was.
EntryApproved(event, old) ==
  CASE event.action \in {"registered", "approved"} -> "approved"
    [] event.action = "rejected" -> "rejected"
    [] event.action = "revoked" -> IF old = None THEN None ELSE "revoked"

EntryUnrevoked(event, old) ==
  CASE event.action = "registered" -> event.status
    [] event.action \in {"approved", "rejected"} -> event.action
    [] event.action = "revoked" -> old

\* The status a vehicle has after an event; one that is unknown cannot be revoked.
Entry(event, old) ==
  CASE event.action = "registered" -> event.status
    [] event.action \in {"approved", "rejected"} -> event.action
    [] event.action = "revoked" -> IF old = None THEN None ELSE "revoked"

OnRegistryEvent ==
  /\ inbox # <<>>
  /\ inbox' = Tail(inbox)
  /\ LET event == Head(inbox)
     IN  registry' = [registry EXCEPT ![event.vehicle] = Entry(event, @)]
  /\ UNCHANGED <<vehicles, handling, history>>

\* The node starts again; what is on its way to it is lost with its session.
Restart ==
  /\ registry' = [v \in Vehicles |-> None]
  /\ inbox' = <<>>
  /\ UNCHANGED <<vehicles, handling, history>>

-----------------------------------------------------------------------------
Next ==
  \/ \E h \in Handlers, v \in Vehicles : Register(h, v) \/ Approve(h, v) \/ Revoke(h, v)
  \/ \E v \in Vehicles : IngestTelemetry(v)
  \/ \E h \in Handlers : Publish(h)
  \/ RestartAPI
  \/ OnRegistryEvent
  \/ Restart

Spec == Init /\ [][Next]_vars

\* Handlers run to their end and the node's subscriber handles what it is given.
\* (Strong fairness: it is the bound MaxInbox that disables a publication.)
FairSpec == Spec /\ (\A h \in Handlers : SF_vars(Publish(h))) /\ WF_vars(OnRegistryEvent)

-----------------------------------------------------------------------------
(* Properties *)

Quiet == inbox = <<>> /\ \A h \in Handlers : handling[h] = None

\* When nothing is on its way, the node gives every vehicle it knows the status
\* the API gives it ("Registration events published to
\* olympus/registry/{vehicle_id} for all nodes"), however many requests the API
\* handles at once and however often either program starts again; what can lead it
\* astray is the event of the last change being lost or overtaken by the event of an
\* earlier one, and a restart of the API, until the next change is published.
StatusAgrees ==
  Quiet => \A v \in Vehicles \ astray :
    registry[v] # None => vehicles[v] # None /\ registry[v] = vehicles[v].status

Revoked(v) == vehicles[v] # None /\ vehicles[v].status = "revoked"

\* The last revocation of a vehicle reaches every node that knows the vehicle and
\* goes on running (revoke_vehicle in both programs), unless the vehicle is registered
\* or approved again or the event is lost or overtaken.
RevocationArrives ==
  \A v \in Vehicles : \A by \in Handlers \cup {None} :
    <>[](Revoked(v) /\ latest[v] = by)
      => <>[](registry[v] \in {None, "revoked"} \/ v \in astray)
================================================================================
