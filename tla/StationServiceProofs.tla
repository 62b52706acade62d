------------------------- MODULE StationServiceProofs -------------------------
(***************************************************************************)
(* Theorems about StationService, for every set of modules, gateways and   *)
(* configurations.                                                         *)
(***************************************************************************)
EXTENDS StationService, TLAPS

\* The call being awaited is about a module of the registry.
CallOK == pc = "registerWait" => call \in modules

\* A module the registry holds offline has status OFFLINE: it can report
\* another status only by being heard, which makes it online.
OfflineStatus == \A m \in modules \ online : status[m] = "offline"

-----------------------------------------------------------------------------
(* Type correctness.                                                       *)

LEMMA TypeInit == Init => TypeOK /\ CallOK
BY StationAssumption DEF Init, TypeOK, CallOK

LEMMA GatewaysStay == [Next]_vars => gateways' = gateways
BY DEF Next, vars

LEMMA TypeStep ==
  ASSUME TypeOK, CallOK, [Next]_vars, gateways' = gateways
  PROVE  TypeOK' /\ CallOK'
<1>1. CASE UNCHANGED vars
  BY <1>1 DEF TypeOK, CallOK, vars, fields, tickVars, outputs
<1>2. ASSUME NEW m \in Modules, Callback(m)  PROVE TypeOK' /\ CallOK'
  <2>1. gateway' \in gateways \cup {NoGateway}
    BY <1>2 DEF TypeOK, Callback, OnHello, OnTelemetry, OnNeighbors, OnRange, Adopt
  <2>2. UNCHANGED <<tickVars, outputs>>
    BY <1>2 DEF Callback, OnHello, OnTelemetry, OnNeighbors, OnRange
  <2>3. modules \subseteq modules' /\ modules' \subseteq Modules
        /\ online' \subseteq modules' /\ overdue' \subseteq Modules
    BY <1>2 DEF TypeOK, Callback, OnHello, OnTelemetry, OnNeighbors, OnRange,
                Touch, fields
  <2>4. registered' \subseteq modules' /\ newly' \subseteq modules'
    BY <1>2 DEF TypeOK, Callback, OnHello, OnTelemetry, OnNeighbors, OnRange,
                Touch, Arrived, fields
  <2>5. status' \in [Modules -> {"up", "offline"}] /\ config' \in [Modules -> Configs]
    BY <1>2 DEF TypeOK, Callback, OnHello, OnTelemetry, OnNeighbors, OnRange,
                Touch, fields
  <2> QED
    BY <2>1, <2>2, <2>3, <2>4, <2>5 DEF TypeOK, CallOK, tickVars, outputs
<1>3. ASSUME NEW m \in Modules, Silence(m)  PROVE TypeOK' /\ CallOK'
  BY <1>3 DEF Silence, TypeOK, CallOK, tickVars, outputs
<1>4. CASE Expire
  BY <1>4 DEF Expire, TypeOK, CallOK, outputs
<1>5. ASSUME NEW m \in Modules, PublishOffline(m)  PROVE TypeOK' /\ CallOK'
  BY <1>5 DEF PublishOffline, PublishTelemetry, Dropped, TypeOK, CallOK, fields
<1>6. CASE SkipOfflineGateway
  BY <1>6 DEF SkipOfflineGateway, TypeOK, CallOK, fields, outputs
<1>7. CASE Drain
  BY <1>7 DEF Drain, TypeOK, CallOK, fields, outputs
<1>8. ASSUME NEW m \in Modules, SkipRegistered(m)  PROVE TypeOK' /\ CallOK'
  BY <1>8 DEF SkipRegistered, TypeOK, CallOK, fields, outputs
<1>9. ASSUME NEW m \in Modules, CallRegister(m)  PROVE TypeOK' /\ CallOK'
  BY <1>9 DEF CallRegister, TypeOK, CallOK, fields, outputs
<1>10. CASE RegisterReturns
  <2>1. call \in modules
    BY <1>10 DEF RegisterReturns, CallOK
  <2> QED
    BY <1>10, <2>1 DEF RegisterReturns, TypeOK, CallOK, outputs
<1>11. CASE BeginStream
  BY <1>11 DEF BeginStream, TypeOK, CallOK, fields, outputs
<1>12. ASSUME NEW m \in Modules, Stream(m)  PROVE TypeOK' /\ CallOK'
  BY <1>12 DEF Stream, PublishTelemetry, Dropped, TypeOK, CallOK, fields
<1>13. CASE Sleep
  BY <1>13 DEF Sleep, TypeOK, CallOK, fields, outputs
<1> QED
  BY <1>1, <1>2, <1>3, <1>4, <1>5, <1>6, <1>7, <1>8, <1>9, <1>10, <1>11,
     <1>12, <1>13 DEF Next, Tick

\* The state stays well typed: no step marks as online or registered, queues or
\* visits a module that is not in the registry.
THEOREM TypeCorrect == Spec => [](TypeOK /\ CallOK)
BY TypeInit, TypeStep, GatewaysStay, PTL DEF Spec

-----------------------------------------------------------------------------
(* Nobody is forgotten.                                                    *)

LEMMA ForgottenStep ==
  ASSUME TypeOK, CallOK, NobodyForgotten, [Next]_vars, gateways' = gateways
  PROVE  NobodyForgotten'
<1>1. CASE UNCHANGED vars
  BY <1>1 DEF NobodyForgotten, vars, fields, tickVars
<1>2. ASSUME NEW m \in Modules, Callback(m)  PROVE NobodyForgotten'
  <2>1. UNCHANGED tickVars /\ newly \subseteq newly'
    BY <1>2 DEF Callback, OnHello, OnTelemetry, OnNeighbors, OnRange
  <2>2. \A n \in online' \ registered' : n \in online \ registered \/ n \in newly'
    BY <1>2 DEF Callback, OnHello, OnTelemetry, OnNeighbors, OnRange, Touch,
                Arrived, fields
  <2> QED
    BY <2>1, <2>2 DEF NobodyForgotten, tickVars
<1>3. ASSUME NEW m \in Modules, Silence(m)  PROVE NobodyForgotten'
  BY <1>3 DEF Silence, NobodyForgotten, tickVars
<1>4. CASE Expire
  BY <1>4 DEF Expire, NobodyForgotten
<1>5. ASSUME NEW m \in Modules, PublishOffline(m)  PROVE NobodyForgotten'
  BY <1>5 DEF PublishOffline, NobodyForgotten, Flipping, fields
<1>6. CASE SkipOfflineGateway
  BY <1>6 DEF SkipOfflineGateway, NobodyForgotten, Flipping, fields
<1>7. CASE Drain
  BY <1>7 DEF Drain, NobodyForgotten, Flipping, fields
<1>8. ASSUME NEW m \in Modules, SkipRegistered(m)  PROVE NobodyForgotten'
  \* What the drain loop skips is registered, or a gateway.
  BY <1>8, StationAssumption
     DEF SkipRegistered, NeedsRegistration, NobodyForgotten, TypeOK, fields
<1>9. ASSUME NEW m \in Modules, CallRegister(m)  PROVE NobodyForgotten'
  BY <1>9 DEF CallRegister, NobodyForgotten, fields
<1>10. CASE RegisterReturns
  BY <1>10 DEF RegisterReturns, NobodyForgotten
<1>11. CASE BeginStream
  BY <1>11 DEF BeginStream, NobodyForgotten, fields
<1>12. ASSUME NEW m \in Modules, Stream(m)  PROVE NobodyForgotten'
  BY <1>12 DEF Stream, Streaming, NobodyForgotten, fields
<1>13. CASE Sleep
  BY <1>13 DEF Sleep, Streaming, NobodyForgotten, fields
<1> QED
  BY <1>1, <1>2, <1>3, <1>4, <1>5, <1>6, <1>7, <1>8, <1>9, <1>10, <1>11,
     <1>12, <1>13 DEF Next, Tick

\* Whatever arrives while the tick awaits, a module that is online and not
\* registered is queued, about to be visited, or being registered.
THEOREM NoModuleForgotten == Spec => []NobodyForgotten
<1>1. Init => NobodyForgotten
  BY DEF Init, NobodyForgotten
<1> QED
  BY <1>1, TypeCorrect, ForgottenStep, GatewaysStay, PTL DEF Spec

-----------------------------------------------------------------------------
(* An offline module is shown offline, unless the PUT of it failed.        *)

LEMMA StatusStep ==
  ASSUME TypeOK, OfflineStatus, [Next]_vars
  PROVE  OfflineStatus'
<1>1. CASE UNCHANGED <<modules, online, status>>
  BY <1>1 DEF OfflineStatus
<1>2. ASSUME NEW m \in Modules, Callback(m)  PROVE OfflineStatus'
  <2>1. modules' \ online' \subseteq modules \ online
    BY <1>2 DEF Callback, OnHello, OnTelemetry, OnNeighbors, OnRange, Touch, fields
  <2>2. \A n \in modules' \ online' : status'[n] = status[n]
    BY <1>2 DEF Callback, OnHello, OnTelemetry, OnNeighbors, OnRange, Touch,
                fields, TypeOK
  <2> QED
    BY <2>1, <2>2 DEF OfflineStatus
<1>3. CASE Expire
  BY <1>3 DEF Expire, OfflineStatus, TypeOK
<1>4. ASSUME Next, ~Expire, ~ \E n \in Modules : Callback(n)
      PROVE  UNCHANGED <<modules, online, status>>
  BY <1>4 DEF Next, Tick, Silence, PublishOffline, SkipOfflineGateway, Drain,
              SkipRegistered, CallRegister, RegisterReturns, BeginStream,
              Stream, Sleep, fields
<1> QED
  BY <1>1, <1>2, <1>3, <1>4 DEF vars, fields

LEMMA ShownStep ==
  ASSUME TypeOK, OfflineStatus, OfflineIsShown, [Next]_vars,
         gateways' = gateways
  PROVE  OfflineIsShown'
<1>1. CASE UNCHANGED vars
  BY <1>1 DEF OfflineIsShown, Flipping, vars, fields, tickVars, outputs
<1>2. ASSUME NEW m \in Modules, Callback(m)  PROVE OfflineIsShown'
  <2>1. modules' \ online' \subseteq modules \ online
    BY <1>2 DEF Callback, OnHello, OnTelemetry, OnNeighbors, OnRange, Touch, fields
  <2>2. UNCHANGED <<tickVars, outputs>>
    BY <1>2 DEF Callback, OnHello, OnTelemetry, OnNeighbors, OnRange
  <2> QED
    BY <2>1, <2>2 DEF OfflineIsShown, Flipping, tickVars, outputs
<1>3. ASSUME NEW m \in Modules, Silence(m)  PROVE OfflineIsShown'
  BY <1>3 DEF Silence, OfflineIsShown, Flipping, tickVars, outputs
<1>4. CASE Expire
  BY <1>4 DEF Expire, OfflineIsShown, Flipping, outputs
<1>5. ASSUME NEW m \in Modules, PublishOffline(m)  PROVE OfflineIsShown'
  \* m leaves todo; if it is offline, the status just published says so.
  <2>1. \/ shown' = [shown EXCEPT ![m] = status[m]] /\ lost' = lost \ {m}
        \/ shown' = shown /\ lost' = lost \cup {m}
    BY <1>5 DEF PublishOffline, PublishTelemetry, Dropped
  <2>2. m \in modules \ online => shown'[m] = "offline" \/ m \in lost'
    BY <2>1 DEF OfflineStatus, TypeOK
  <2>3. \A n \in modules \ {m} : shown'[n] = shown[n] /\ (n \in lost => n \in lost')
    BY <2>1 DEF TypeOK
  <2> QED
    BY <1>5, <2>2, <2>3 DEF PublishOffline, OfflineIsShown, Flipping, fields
<1>6. CASE SkipOfflineGateway
  BY <1>6, StationAssumption
     DEF SkipOfflineGateway, OfflineIsShown, Flipping, TypeOK, fields, outputs
<1>7. CASE Drain
  BY <1>7 DEF Drain, OfflineIsShown, Flipping, fields, outputs
<1>8. ASSUME NEW m \in Modules, SkipRegistered(m)  PROVE OfflineIsShown'
  BY <1>8 DEF SkipRegistered, OfflineIsShown, Flipping, fields, outputs
<1>9. ASSUME NEW m \in Modules, CallRegister(m)  PROVE OfflineIsShown'
  BY <1>9 DEF CallRegister, OfflineIsShown, Flipping, fields, outputs
<1>10. CASE RegisterReturns
  BY <1>10 DEF RegisterReturns, OfflineIsShown, Flipping, outputs
<1>11. CASE BeginStream
  BY <1>11 DEF BeginStream, OfflineIsShown, Flipping, fields, outputs
<1>12. ASSUME NEW m \in Modules, Stream(m)  PROVE OfflineIsShown'
  <2>1. \/ shown' = [shown EXCEPT ![m] = status[m]] /\ lost' = lost \ {m}
        \/ shown' = shown /\ lost' = lost \cup {m}
    BY <1>12 DEF Stream, PublishTelemetry, Dropped
  <2>2. m \in modules \ online => shown'[m] = "offline" \/ m \in lost'
    BY <2>1 DEF OfflineStatus, TypeOK
  <2>3. \A n \in modules \ {m} : shown'[n] = shown[n] /\ (n \in lost => n \in lost')
    BY <2>1 DEF TypeOK
  <2> QED
    BY <1>12, <2>2, <2>3 DEF Stream, Streaming, OfflineIsShown, Flipping, fields
<1>13. CASE Sleep
  BY <1>13 DEF Sleep, Streaming, OfflineIsShown, Flipping, fields, outputs
<1> QED
  BY <1>1, <1>2, <1>3, <1>4, <1>5, <1>6, <1>7, <1>8, <1>9, <1>10, <1>11,
     <1>12, <1>13 DEF Next, Tick

\* Every module the registry holds offline is shown offline, its final status is
\* still to be pushed in the running tick, or the PUT of it failed.
THEOREM OfflineModulesAreShown == Spec => []OfflineIsShown
<1>1. Init => OfflineStatus /\ OfflineIsShown
  BY DEF Init, OfflineStatus, OfflineIsShown
<1>2. TypeOK /\ OfflineStatus /\ OfflineIsShown /\ [Next]_vars
      => OfflineStatus' /\ OfflineIsShown'
  BY StatusStep, ShownStep, GatewaysStay
<1> QED
  BY <1>1, <1>2, TypeCorrect, PTL DEF Spec
=============================================================================
