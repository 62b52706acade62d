------------------------------- MODULE TaskServer -------------------------------
(***************************************************************************)
(* What a drone that carries out tasks promises while it is left in calm:  *)
(* it takes one task at a time and ends it before the next.  It flies to   *)
(* the place of its task, which is completed there and costs payload, or   *)
(* home, where payload comes from.  A task that somebody should have       *)
(* allowed, and nobody did, is cancelled before the drone has moved, or    *)
(* goes ahead, as the rules say.  Somebody who disturbs the drone may      *)
(* expect anything of it, until it is calm again, without a task.          *)
(***************************************************************************)
EXTENDS Integers

CONSTANTS
  Tasks,
  Asks,       \* tasks that are not begun unasked
  Capacity,
  Cost,
  Home, Elsewhere, \* places; a task has the name of its own
  NoTask

VARIABLES
  mayProceed, \* what nobody answers goes ahead, for good
  current, \* the task in hand
  status,
  payload,
  at,      \* where the drone is
  calm     \* nobody disturbs it

vars == <<mayProceed, current, status, payload, at, calm>>

Init ==
  /\ current = NoTask /\ status = [t \in Tasks |-> "pending"]
  /\ payload = Capacity /\ at = Home
  /\ calm = TRUE /\ mayProceed \in BOOLEAN

Accept(t) ==
  /\ current = NoTask
  /\ 100 * payload > 5 * Capacity
  /\ current' = t
  /\ status' = [status EXCEPT ![t] = IF t \in Asks THEN "awaiting_approval" ELSE "assigned"]
  /\ UNCHANGED <<payload, at>>

\* A drone without a task needs nobody's permission.
Allowed == current = NoTask \/ mayProceed \/ status[current] = "assigned"

Complete ==
  /\ current # NoTask /\ at = current /\ Allowed
  /\ status' = [status EXCEPT ![current] = "completed"]
  /\ payload' = IF Cost[current] > payload THEN 0 ELSE payload - Cost[current]
  /\ current' = NoTask
  /\ UNCHANGED at

Cancel ==
  /\ ~Allowed
  /\ status' = [status EXCEPT ![current] = "cancelled"]
  /\ current' = NoTask
  /\ UNCHANGED <<payload, at>>

Refill ==
  /\ current = NoTask /\ at = Home
  /\ payload' = Capacity
  /\ UNCHANGED <<current, status, at>>

Move ==
  /\ at' \in {Elsewhere, IF current = NoTask THEN Home ELSE current}
  /\ Allowed
  /\ UNCHANGED <<current, status, payload>>

Serve == (\E t \in Tasks : Accept(t)) \/ Complete \/ Cancel \/ Refill \/ Move

Next ==
  /\ \/ calm /\ calm' /\ Serve
     \/ calm /\ ~calm'
     \/ ~calm /\ (calm' => current' = NoTask)
  /\ UNCHANGED mayProceed

Spec == Init /\ [][Next]_vars
================================================================================
