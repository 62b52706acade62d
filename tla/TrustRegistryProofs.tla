-------------------------- MODULE TrustRegistryProofs --------------------------
(***************************************************************************)
(* Type correctness of the two registries, and their agreement about every *)
(* vehicle whose last event was neither lost nor overtaken, for any number *)
(* of requests that the API handles at once.                               *)
(*                                                                         *)
(* StatusAgrees speaks of quiet states only.  What is inductive, for a     *)
(* vehicle that is not astray and whose last change has been published, is *)
(* that the last of the events about it that are still on their way leads  *)
(* to the status the API has for it, and that the registries agree about   *)
(* it when there is no such event.                                         *)
(***************************************************************************)
EXTENDS TrustRegistry, TLAPS

LEMMA TypeInit == Init => TypeOK
BY RegistryAssumption DEF Init, TypeOK

\* A request that leaves a record leaves its types.
LEMMA ChangedType ==
  ASSUME TypeOK, NEW h \in Handlers, NEW v \in Vehicles, NEW e \in Events,
         Changed(h, v, e), vehicles' \in [Vehicles -> Records \cup {None}]
  PROVE  TypeOK'
BY DEF TypeOK, Changed

\* Every step keeps the types.
LEMMA TypeStep == TypeOK /\ [Next]_vars => TypeOK'
<1> SUFFICES ASSUME TypeOK, [Next]_vars PROVE TypeOK'
  OBVIOUS
<1> USE RegistryAssumption
<1>1. ASSUME NEW h \in Handlers, NEW v \in Vehicles, Register(h, v) PROVE TypeOK'
  <2>1. PICK tier \in Tiers :
          /\ vehicles' = [vehicles EXCEPT ![v] = [tier |-> tier, status |-> InitialStatus(tier)]]
          /\ Changed(h, v, Event("registered", v, InitialStatus(tier)))
    BY <1>1 DEF Register
  <2>2. vehicles' \in [Vehicles -> Records \cup {None}]
    BY <2>1 DEF TypeOK, Records, InitialStatus, Statuses
  <2>3. Event("registered", v, InitialStatus(tier)) \in Events
    BY DEF Event, Events, InitialStatus, Statuses
  <2> QED
    BY <2>1, <2>2, <2>3, ChangedType
<1>2. ASSUME NEW h \in Handlers, NEW v \in Vehicles, Approve(h, v) PROVE TypeOK'
  <2>1. PICK answer \in {"approved", "rejected"} :
          /\ vehicles' = [vehicles EXCEPT ![v].status = answer]
          /\ Changed(h, v, Event(answer, v, "approved"))
    BY <1>2 DEF Approve
  <2>2. vehicles[v] \in Records
    BY <1>2 DEF TypeOK, Approve
  <2>3. vehicles' \in [Vehicles -> Records \cup {None}]
    BY <2>1, <2>2 DEF TypeOK, Records, Statuses
  <2>4. Event(answer, v, "approved") \in Events
    BY DEF Event, Events, Statuses
  <2> QED
    BY <2>1, <2>3, <2>4, ChangedType
<1>3. ASSUME NEW h \in Handlers, NEW v \in Vehicles, Revoke(h, v) PROVE TypeOK'
  <2>1. vehicles[v] \in Records
    BY <1>3 DEF TypeOK, Revoke
  <2>2. vehicles' \in [Vehicles -> Records \cup {None}]
    BY <1>3, <2>1 DEF TypeOK, Revoke, Records, Statuses
  <2>3. Event("revoked", v, "approved") \in Events
    BY DEF Event, Events, Statuses
  <2> QED
    BY <1>3, <2>2, <2>3, ChangedType DEF Revoke
<1>4. ASSUME NEW v \in Vehicles, IngestTelemetry(v) PROVE TypeOK'
  BY <1>4 DEF TypeOK, IngestTelemetry, history, Records, Statuses, Tiers
<1>5. ASSUME NEW h \in Handlers, Publish(h) PROVE TypeOK'
  <2>1. handling[h] \in Events
    BY <1>5 DEF TypeOK, Publish
  <2>2. Append(inbox, handling[h]) \in Seq(Events) /\ Len(Append(inbox, handling[h])) <= MaxInbox
    BY <1>5, <2>1 DEF TypeOK, Publish
  <2>3. handling' \in [Handlers -> Events \cup {None}]
    BY <1>5 DEF TypeOK, Publish
  <2>4. latest' \in [Vehicles -> Handlers \cup {None}]
    BY <1>5 DEF TypeOK, Publish
  <2>5. astray' \subseteq Vehicles
    BY <1>5, <2>1 DEF TypeOK, Publish, Events
  <2>6. inbox' \in Seq(Events) /\ Len(inbox') <= MaxInbox
    BY <1>5, <2>2 DEF TypeOK, Publish
  <2> QED
    BY <1>5, <2>3, <2>4, <2>5, <2>6 DEF TypeOK, Publish
<1>6. ASSUME OnRegistryEvent PROVE TypeOK'
  <2>1. Head(inbox) \in Events /\ Tail(inbox) \in Seq(Events) /\ Len(Tail(inbox)) <= MaxInbox
    BY <1>6 DEF TypeOK, OnRegistryEvent
  <2>2. ASSUME NEW old \in Statuses \cup {None}
        PROVE  Entry(Head(inbox), old) \in Statuses \cup {None}
    BY <2>1 DEF Entry, Events, Statuses
  <2>3. registry' \in [Vehicles -> Statuses \cup {None}]
    BY <1>6, <2>1, <2>2 DEF TypeOK, OnRegistryEvent, Events
  <2> QED
    BY <1>6, <2>1, <2>3 DEF TypeOK, OnRegistryEvent, history
<1>7. CASE Restart
  BY <1>7 DEF TypeOK, Restart, history
<1>8. CASE RestartAPI
  BY <1>8 DEF TypeOK, RestartAPI
<1>9. CASE UNCHANGED vars
  BY <1>9 DEF TypeOK, vars, history
<1> QED
  BY <1>1, <1>2, <1>3, <1>4, <1>5, <1>6, <1>7, <1>8, <1>9 DEF Next

\* What the two registries and the events between them look like, whatever the
\* API handles at once.
THEOREM TypeCorrect == Spec => []TypeOK
<1>1. Init => TypeOK
  BY TypeInit
<1>2. TypeOK /\ [Next]_vars => TypeOK'
  BY TypeStep
<1> QED
  BY <1>1, <1>2, PTL DEF Spec

-----------------------------------------------------------------------------
\* The status an event leads to in a node that knows its vehicle.
Outcome(event) == IF event.action = "registered" THEN event.status ELSE event.action

\* Event i of the inbox is the last one in it about v.
QueuedLast(v, i) ==
  inbox[i].vehicle = v /\ \A j \in DOMAIN inbox : j > i => inbox[j].vehicle # v

NothingQueued(v) == \A i \in DOMAIN inbox : inbox[i].vehicle # v

\* The handler of the last change has the event that says so.
LatestHandled(v) ==
  latest[v] # None =>
    /\ handling[latest[v]] # None /\ handling[latest[v]].vehicle = v
    /\ vehicles[v] # None /\ Outcome(handling[latest[v]]) = vehicles[v].status

\* What has been published is what the API says.
Consistent(v) ==
  v \notin astray /\ latest[v] = None =>
    /\ vehicles[v] = None => NothingQueued(v) /\ registry[v] = None
    /\ \A i \in DOMAIN inbox : QueuedLast(v, i) => Outcome(inbox[i]) = vehicles[v].status
    /\ NothingQueued(v) /\ registry[v] # None => registry[v] = vehicles[v].status

IInv == TypeOK /\ \A v \in Vehicles : LatestHandled(v) /\ Consistent(v)

\* A request that changes the record of u leaves its event with a handler that had
\* none: it says what the record says.
LEMMA RequestStep ==
  ASSUME IInv, NEW h \in Handlers, NEW u \in Vehicles, NEW e \in Events,
         handling[h] = None, Changed(h, u, e),
         e.vehicle = u, vehicles'[u] # None, Outcome(e) = vehicles'[u].status,
         \A v \in Vehicles : v # u => vehicles'[v] = vehicles[v]
  PROVE  \A v \in Vehicles : LatestHandled(v)' /\ Consistent(v)'
<1> USE RegistryAssumption
<1> SUFFICES ASSUME NEW v \in Vehicles PROVE LatestHandled(v)' /\ Consistent(v)'
  OBVIOUS
<1>1. LatestHandled(v) /\ Consistent(v) /\ TypeOK
  BY DEF IInv
<1>2. /\ handling' = [handling EXCEPT ![h] = e]
      /\ latest' = [latest EXCEPT ![u] = h]
      /\ UNCHANGED <<inbox, registry, astray>>
  BY DEF Changed
<1>3. CASE v = u
  <2>1. latest'[v] = h /\ handling'[h] = e /\ h # None /\ e # None
    BY <1>1, <1>2, <1>3 DEF TypeOK
  <2> QED
    BY <1>3, <2>1 DEF LatestHandled, Consistent
<1>4. CASE v # u
  <2>1. latest'[v] = latest[v] /\ vehicles'[v] = vehicles[v]
    BY <1>1, <1>2, <1>4 DEF TypeOK
  <2>2. latest[v] # None => latest[v] # h /\ handling'[latest[v]] = handling[latest[v]]
    BY <1>1, <1>2 DEF TypeOK, LatestHandled
  <2>3. LatestHandled(v)'
    BY <1>1, <2>1, <2>2 DEF LatestHandled
  <2>4. Consistent(v)'
    BY <1>1, <1>2, <2>1 DEF Consistent, QueuedLast, NothingQueued
  <2> QED
    BY <2>3, <2>4
<1> QED
  BY <1>3, <1>4

\* A publication moves the handler's event to the end of the inbox, or loses it.
LEMMA PublishStep ==
  ASSUME IInv, NEW h \in Handlers, Publish(h)
  PROVE  \A v \in Vehicles : LatestHandled(v)' /\ Consistent(v)'
<1> USE RegistryAssumption
<1> DEFINE e == handling[h]
           n == Len(inbox)
<1> SUFFICES ASSUME NEW v \in Vehicles PROVE LatestHandled(v)' /\ Consistent(v)'
  OBVIOUS
<1>1. LatestHandled(v) /\ Consistent(v) /\ TypeOK
  BY DEF IInv
<1>2. /\ e # None /\ e \in Events /\ e.vehicle \in Vehicles
      /\ handling' = [handling EXCEPT ![h] = None]
      /\ latest' = [latest EXCEPT ![e.vehicle] = IF @ = h THEN None ELSE @]
      /\ UNCHANGED <<vehicles, registry>>
  BY <1>1 DEF Publish, TypeOK, Events
<1>3. h # None
  OBVIOUS
<1>4. CASE e.vehicle # v
  <2>1. latest'[v] = latest[v]
    BY <1>1, <1>2, <1>4 DEF TypeOK
  <2>2. latest[v] # None => latest[v] # h /\ handling'[latest[v]] = handling[latest[v]]
    BY <1>1, <1>2, <1>4 DEF TypeOK, LatestHandled
  <2>3. LatestHandled(v)'
    BY <1>1, <1>2, <2>1, <2>2 DEF LatestHandled
  <2>4. v \in astray' <=> v \in astray
    BY <1>2, <1>4 DEF Publish
  <2>5. CASE inbox' = inbox
    <3>1. /\ NothingQueued(v)' <=> NothingQueued(v)
          /\ \A i \in DOMAIN inbox : QueuedLast(v, i)' <=> QueuedLast(v, i)
      BY <2>5 DEF NothingQueued, QueuedLast
    <3>2. ASSUME v \notin astray, latest[v] = None
          PROVE  \A i \in DOMAIN inbox' : QueuedLast(v, i)' => Outcome(inbox'[i]) = vehicles[v].status
      BY <1>1, <2>5, <3>1, <3>2 DEF Consistent
    <3> QED
      BY <1>1, <1>2, <2>1, <2>3, <2>4, <3>1, <3>2 DEF Consistent
  <2>6. CASE inbox' = Append(inbox, e)
    <3>1. /\ n \in Nat /\ DOMAIN inbox = 1 .. n
          /\ DOMAIN inbox' = 1 .. (n + 1) /\ inbox'[n + 1] = e
          /\ \A i \in 1 .. n : inbox'[i] = inbox[i]
      BY <1>1, <1>2, <2>6 DEF TypeOK
    <3>2. NothingQueued(v)' <=> NothingQueued(v)
      BY <1>4, <3>1 DEF NothingQueued
    <3>3. \A i \in DOMAIN inbox' : QueuedLast(v, i)' => i \in DOMAIN inbox /\ QueuedLast(v, i)
      BY <1>4, <3>1 DEF QueuedLast
    <3>4. ASSUME v \notin astray, latest[v] = None
          PROVE  \A i \in DOMAIN inbox' : QueuedLast(v, i)' => Outcome(inbox'[i]) = vehicles[v].status
      BY <1>1, <3>1, <3>3, <3>4 DEF Consistent
    <3> QED
      BY <1>1, <1>2, <2>1, <2>3, <2>4, <3>2, <3>4 DEF Consistent
  <2> QED
    BY <2>3, <2>5, <2>6 DEF Publish
<1>5. CASE e.vehicle = v /\ latest[v] = h
  <2>1. latest'[v] = None /\ LatestHandled(v)'
    BY <1>1, <1>2, <1>5 DEF TypeOK, LatestHandled
  <2>2. CASE inbox' = inbox /\ v \in astray'
    BY <2>1, <2>2 DEF Consistent
  <2>3. CASE inbox' = Append(inbox, e)
    <3>1. /\ n \in Nat /\ DOMAIN inbox = 1 .. n
          /\ DOMAIN inbox' = 1 .. (n + 1) /\ inbox'[n + 1] = e
      BY <1>1, <1>2, <2>3 DEF TypeOK
    <3>2. \A i \in DOMAIN inbox' : QueuedLast(v, i)' => i = n + 1
      BY <1>5, <3>1 DEF QueuedLast
    <3>3. ~NothingQueued(v)'
      BY <1>5, <3>1 DEF NothingQueued
    <3>4. vehicles[v] # None /\ Outcome(e) = vehicles[v].status
      BY <1>1, <1>3, <1>5 DEF LatestHandled
    <3> HIDE DEF e, n
    <3>5. \A i \in DOMAIN inbox' : QueuedLast(v, i)' => Outcome(inbox'[i]) = vehicles'[v].status
      BY <1>2, <3>1, <3>2, <3>4
    <3> QED
      BY <1>2, <2>1, <3>3, <3>4, <3>5 DEF Consistent
  <2> QED
    BY <1>5, <2>1, <2>2, <2>3 DEF Publish
<1>6. CASE e.vehicle = v /\ latest[v] # h
  <2>1. latest'[v] = latest[v]
    BY <1>1, <1>2, <1>6 DEF TypeOK
  <2>2. LatestHandled(v)'
    <3>1. latest[v] # None => handling'[latest[v]] = handling[latest[v]]
      BY <1>1, <1>2, <1>6 DEF TypeOK
    <3> QED
      BY <1>1, <1>2, <2>1, <3>1 DEF LatestHandled
  <2>3. CASE latest[v] # None
    BY <2>1, <2>2, <2>3 DEF Consistent
  <2>4. CASE latest[v] = None /\ v \in astray'
    BY <2>2, <2>4 DEF Consistent
  <2>5. CASE latest[v] = None /\ inbox' = inbox /\ astray' = astray
    BY <1>1, <1>2, <2>1, <2>2, <2>5 DEF Consistent, QueuedLast, NothingQueued
  <2> QED
    BY <1>3, <1>6, <2>3, <2>4, <2>5 DEF Publish
<1> QED
  BY <1>4, <1>5, <1>6

\* The node handles the first event; a later one about the vehicle still decides.
LEMMA EventStep ==
  ASSUME IInv, OnRegistryEvent
  PROVE  \A v \in Vehicles : LatestHandled(v)' /\ Consistent(v)'
<1> DEFINE e == Head(inbox)
           n == Len(inbox)
<1> SUFFICES ASSUME NEW v \in Vehicles PROVE LatestHandled(v)' /\ Consistent(v)'
  OBVIOUS
<1>1. LatestHandled(v) /\ Consistent(v) /\ TypeOK
  BY DEF IInv
<1>2. /\ n \in Nat \ {0} /\ DOMAIN inbox = 1 .. n /\ e = inbox[1] /\ e \in Events
      /\ DOMAIN inbox' = 1 .. (n - 1)
      /\ \A i \in 1 .. (n - 1) : inbox'[i] = inbox[i + 1]
  BY <1>1 DEF OnRegistryEvent, TypeOK
<1>3. /\ registry' = [registry EXCEPT ![e.vehicle] = Entry(e, @)]
      /\ UNCHANGED <<vehicles, handling, latest, astray>>
  BY DEF OnRegistryEvent, history
<1>4. LatestHandled(v)'
  BY <1>1, <1>3 DEF LatestHandled
<1> SUFFICES ASSUME v \notin astray, latest[v] = None PROVE Consistent(v)'
  BY <1>3, <1>4 DEF Consistent
<1>5. \A i \in 1 .. (n - 1) : QueuedLast(v, i)' <=> QueuedLast(v, i + 1)
  <2> SUFFICES ASSUME NEW i \in 1 .. (n - 1)
               PROVE  QueuedLast(v, i)' <=> QueuedLast(v, i + 1)
    OBVIOUS
  <2> HIDE DEF e, n
  <2>1. (\A j \in 1 .. (n - 1) : j > i => inbox'[j].vehicle # v)
          <=> (\A j \in 1 .. n : j > i + 1 => inbox[j].vehicle # v)
    <3>1. ASSUME NEW j \in 1 .. n, j > i + 1
          PROVE  j - 1 \in 1 .. (n - 1) /\ j - 1 > i /\ inbox'[j - 1] = inbox[j]
      BY <1>2, <3>1
    <3>2. ASSUME NEW j \in 1 .. (n - 1), j > i
          PROVE  j + 1 \in 1 .. n /\ j + 1 > i + 1 /\ inbox'[j] = inbox[j + 1]
      BY <1>2, <3>2
    <3> QED
      BY <3>1, <3>2
  <2> QED
    BY <1>2, <2>1 DEF QueuedLast
<1>6. \A i \in DOMAIN inbox' : QueuedLast(v, i)' => Outcome(inbox'[i]) = vehicles[v].status
  <2> SUFFICES ASSUME NEW i \in 1 .. (n - 1), QueuedLast(v, i)'
               PROVE  Outcome(inbox'[i]) = vehicles[v].status
    BY <1>2
  <2>1. i + 1 \in DOMAIN inbox /\ QueuedLast(v, i + 1) /\ inbox'[i] = inbox[i + 1]
    BY <1>2, <1>5
  <2> QED
    BY <1>1, <2>1 DEF Consistent
<1>7. vehicles[v] = None => NothingQueued(v)' /\ registry'[v] = None
  <2> SUFFICES ASSUME vehicles[v] = None
               PROVE  NothingQueued(v)' /\ registry'[v] = None
    OBVIOUS
  <2>1. NothingQueued(v) /\ registry[v] = None
    BY <1>1 DEF Consistent
  <2>2. e.vehicle # v /\ NothingQueued(v)'
    BY <1>2, <2>1 DEF NothingQueued
  <2> QED
    BY <1>3, <2>1, <2>2 DEF Events
<1>8. NothingQueued(v)' /\ registry'[v] # None => registry'[v] = vehicles[v].status
  <2> SUFFICES ASSUME NothingQueued(v)', registry'[v] # None
               PROVE  registry'[v] = vehicles[v].status
    OBVIOUS
  <2>1. \A j \in DOMAIN inbox : j > 1 => inbox[j].vehicle # v
    <3>1. ASSUME NEW j \in 1 .. n, j > 1 PROVE inbox[j].vehicle # v
      <4>1. j - 1 \in 1 .. (n - 1) /\ inbox'[j - 1] = inbox[j]
        BY <1>2, <3>1
      <4> QED
        BY <1>2, <4>1 DEF NothingQueued
    <3> QED
      BY <1>2, <3>1
  <2>2. CASE e.vehicle = v
    <3>1. 1 \in DOMAIN inbox /\ QueuedLast(v, 1)
      BY <1>2, <2>1, <2>2 DEF QueuedLast, NothingQueued
    <3>2. Outcome(e) = vehicles[v].status
      BY <1>1, <1>2, <3>1 DEF Consistent
    <3>3. registry'[v] = Entry(e, registry[v])
      BY <1>1, <1>3, <2>2 DEF TypeOK
    <3> HIDE DEF e
    <3>4. Entry(e, registry[v]) # None => Entry(e, registry[v]) = Outcome(e)
      BY <1>2 DEF Entry, Outcome, Events
    <3> QED
      BY <3>2, <3>3, <3>4
  <2>3. CASE e.vehicle # v
    <3>1. registry'[v] = registry[v]
      BY <1>1, <1>2, <1>3, <2>3 DEF TypeOK, Events
    <3>2. NothingQueued(v)
      BY <1>2, <2>1, <2>3 DEF NothingQueued
    <3> QED
      BY <1>1, <3>1, <3>2 DEF Consistent
  <2> QED
    BY <2>2, <2>3
<1> QED
  BY <1>3, <1>6, <1>7, <1>8 DEF Consistent

\* Every step keeps the invariant.
LEMMA ConsistentStep ==
  ASSUME IInv, [Next]_vars
  PROVE  IInv'
<1>1. TypeOK /\ TypeOK'
  BY TypeStep DEF IInv
<1> SUFFICES \A v \in Vehicles : LatestHandled(v)' /\ Consistent(v)'
  BY <1>1 DEF IInv
<1> USE RegistryAssumption
<1>2. ASSUME NEW h \in Handlers, NEW u \in Vehicles, Register(h, u)
      PROVE  \A v \in Vehicles : LatestHandled(v)' /\ Consistent(v)'
  <2>1. PICK tier \in Tiers :
          /\ vehicles' = [vehicles EXCEPT ![u] = [tier |-> tier, status |-> InitialStatus(tier)]]
          /\ Changed(h, u, Event("registered", u, InitialStatus(tier)))
    BY <1>2 DEF Register
  <2>2. /\ vehicles'[u] = [tier |-> tier, status |-> InitialStatus(tier)]
        /\ vehicles'[u] \in Records
    BY <1>1, <2>1 DEF TypeOK, Records, InitialStatus, Statuses
  <2>3. Event("registered", u, InitialStatus(tier)) \in Events
    BY DEF Event, Events, InitialStatus, Statuses
  <2>4. /\ Event("registered", u, InitialStatus(tier)).vehicle = u
        /\ Outcome(Event("registered", u, InitialStatus(tier))) = vehicles'[u].status
    BY <2>2 DEF Event, Outcome
  <2>5. \A v \in Vehicles : v # u => vehicles'[v] = vehicles[v]
    BY <1>1, <2>1 DEF TypeOK
  <2>6. handling[h] = None /\ vehicles'[u] # None
    BY <1>2, <2>2 DEF Register
  <2> QED
    BY <2>1, <2>3, <2>4, <2>5, <2>6, RequestStep
<1>3. ASSUME NEW h \in Handlers, NEW u \in Vehicles, Approve(h, u)
      PROVE  \A v \in Vehicles : LatestHandled(v)' /\ Consistent(v)'
  <2>1. PICK answer \in {"approved", "rejected"} :
          /\ vehicles' = [vehicles EXCEPT ![u].status = answer]
          /\ Changed(h, u, Event(answer, u, "approved"))
    BY <1>3 DEF Approve
  <2>2. vehicles[u] \in Records
    BY <1>1, <1>3 DEF TypeOK, Approve
  <2>3. vehicles'[u].status = answer /\ vehicles'[u] \in Records
    BY <1>1, <2>1, <2>2 DEF TypeOK, Records, Statuses
  <2>4. Event(answer, u, "approved") \in Events
    BY DEF Event, Events, Statuses
  <2>5. /\ Event(answer, u, "approved").vehicle = u
        /\ Outcome(Event(answer, u, "approved")) = vehicles'[u].status
    BY <2>3 DEF Event, Outcome
  <2>6. \A v \in Vehicles : v # u => vehicles'[v] = vehicles[v]
    BY <1>1, <2>1 DEF TypeOK
  <2>7. handling[h] = None /\ vehicles'[u] # None
    BY <1>3, <2>3 DEF Approve
  <2> QED
    BY <2>1, <2>4, <2>5, <2>6, <2>7, RequestStep
<1>4. ASSUME NEW h \in Handlers, NEW u \in Vehicles, Revoke(h, u)
      PROVE  \A v \in Vehicles : LatestHandled(v)' /\ Consistent(v)'
  <2>1. vehicles[u] \in Records
    BY <1>1, <1>4 DEF TypeOK, Revoke
  <2>2. vehicles'[u].status = "revoked" /\ vehicles'[u] \in Records
    BY <1>1, <1>4, <2>1 DEF TypeOK, Revoke, Records, Statuses
  <2>3. Event("revoked", u, "approved") \in Events
    BY DEF Event, Events, Statuses
  <2>4. /\ Event("revoked", u, "approved").vehicle = u
        /\ Outcome(Event("revoked", u, "approved")) = vehicles'[u].status
    BY <2>2 DEF Event, Outcome
  <2>5. \A v \in Vehicles : v # u => vehicles'[v] = vehicles[v]
    BY <1>1, <1>4 DEF TypeOK, Revoke
  <2>6. /\ handling[h] = None /\ vehicles'[u] # None
        /\ Changed(h, u, Event("revoked", u, "approved"))
    BY <1>4, <2>2 DEF Revoke
  <2> QED
    BY <2>3, <2>4, <2>5, <2>6, RequestStep
<1>5. ASSUME NEW u \in Vehicles, IngestTelemetry(u)
      PROVE  \A v \in Vehicles : LatestHandled(v)' /\ Consistent(v)'
  <2> SUFFICES ASSUME NEW v \in Vehicles PROVE LatestHandled(v)' /\ Consistent(v)'
    OBVIOUS
  <2>1. /\ LatestHandled(v) /\ Consistent(v) /\ vehicles[u] = None
        /\ UNCHANGED <<handling, inbox, registry, latest, astray>>
    BY <1>5 DEF IInv, IngestTelemetry, history
  <2>2. /\ v # u => vehicles'[v] = vehicles[v]
        /\ vehicles'[u] \in Records
    BY <1>1, <1>5 DEF TypeOK, IngestTelemetry, Records, Tiers, Statuses
  <2>3. LatestHandled(v)'
    BY <2>1, <2>2 DEF LatestHandled
  <2>4. CASE v = u
    <3>1. v \notin astray /\ latest[v] = None => NothingQueued(v) /\ registry[v] = None
      BY <2>1, <2>4 DEF Consistent
    <3>2. NothingQueued(v) => \A i \in DOMAIN inbox : ~QueuedLast(v, i)
      BY DEF NothingQueued, QueuedLast
    <3>3. /\ NothingQueued(v)' <=> NothingQueued(v)
          /\ \A i \in DOMAIN inbox : QueuedLast(v, i)' <=> QueuedLast(v, i)
      BY <2>1 DEF NothingQueued, QueuedLast
    <3> QED
      BY <2>1, <2>2, <2>3, <2>4, <3>1, <3>2, <3>3 DEF Consistent
  <2>5. CASE v # u
    BY <2>1, <2>2, <2>3, <2>5 DEF Consistent, NothingQueued, QueuedLast
  <2> QED
    BY <2>4, <2>5
<1>6. ASSUME NEW h \in Handlers, Publish(h)
      PROVE  \A v \in Vehicles : LatestHandled(v)' /\ Consistent(v)'
  BY <1>6, PublishStep
<1>7. CASE OnRegistryEvent
  BY <1>7, EventStep
<1>8. CASE Restart
  <2> SUFFICES ASSUME NEW v \in Vehicles PROVE LatestHandled(v)' /\ Consistent(v)'
    OBVIOUS
  <2>1. LatestHandled(v) /\ Consistent(v)
    BY DEF IInv
  <2>2. /\ registry'[v] = None /\ inbox' = <<>>
        /\ UNCHANGED <<vehicles, handling, latest, astray>>
    BY <1>8 DEF Restart, history
  <2>3. LatestHandled(v)'
    BY <2>1, <2>2 DEF LatestHandled
  <2> QED
    BY <2>1, <2>2, <2>3 DEF Consistent, NothingQueued
<1>9. CASE RestartAPI
  <2> SUFFICES ASSUME NEW v \in Vehicles PROVE LatestHandled(v)' /\ Consistent(v)'
    OBVIOUS
  <2>1. /\ LatestHandled(v) /\ Consistent(v)
        /\ vehicles'[v] = None /\ latest'[v] = None
        /\ v \in astray \/ vehicles[v] # None => v \in astray'
        /\ UNCHANGED <<inbox, registry>>
    BY <1>9 DEF IInv, RestartAPI
  <2>2. CASE v \in astray'
    BY <2>1, <2>2 DEF LatestHandled, Consistent
  <2>3. CASE v \notin astray'
    <3>1. v \notin astray /\ vehicles[v] = None /\ latest[v] = None
      BY <2>1, <2>3 DEF LatestHandled
    <3> QED
      BY <2>1, <3>1 DEF LatestHandled, Consistent, NothingQueued, QueuedLast
  <2> QED
    BY <2>2, <2>3
<1>10. CASE UNCHANGED vars
  BY <1>10 DEF vars, history, IInv, LatestHandled, Consistent, NothingQueued, QueuedLast
<1> QED
  BY <1>2, <1>3, <1>4, <1>5, <1>6, <1>7, <1>8, <1>9, <1>10 DEF Next

\* Whatever the API handles at once, loses on the way or forgets in a restart, and
\* however often the node starts again: whenever nothing is on its way, the node
\* gives every vehicle it knows the status the API gives it, unless the event of the
\* vehicle's last change was lost or overtaken, or forgotten with the record.
THEOREM StatusesAgree == Spec => []StatusAgrees
<1>1. Init => IInv
  BY TypeInit DEF Init, IInv, LatestHandled, Consistent, NothingQueued, QueuedLast
<1>2. IInv /\ [Next]_vars => IInv'
  BY ConsistentStep
<1>3. IInv => StatusAgrees
  BY RegistryAssumption
     DEF IInv, LatestHandled, Consistent, StatusAgrees, Quiet, NothingQueued, TypeOK
<1> QED
  BY <1>1, <1>2, <1>3, PTL DEF Spec
================================================================================
