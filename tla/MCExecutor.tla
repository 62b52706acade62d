------------------------------ MODULE MCExecutor ------------------------------
(***************************************************************************)
(* Two tasks: one that takes payload, and one that is asked about.  What   *)
(* they take is in the profile of the instance; which one asks, and what   *)
(* happens when nobody answers, is what the escalation engine says for the *)
(* vertical, and nothing in the program ties the two.                      *)
(***************************************************************************)
EXTENDS Executor, Escalation, MissionProfile

CONSTANTS heavy, risky, Verticals, Instance

MCType == [t \in Tasks |-> IF t = heavy THEN "spray" ELSE "fertilize"]

MCCost == [t \in Tasks |-> Consumption(Profile(Instance), MCType[t])]

MCRequest(t) ==
  [type |-> MCType[t], priority |-> IF t = risky THEN 10 ELSE 5, seenAs |-> NoDetection,
   confidence |-> 0, committed |-> 0, total |-> 1, near |-> FALSE]

MCNeedsApproval ==
  {t \in Tasks : \A v \in Verticals : Asks(Level(v, MCRequest(t), {}))}

MCTimeoutActions == {TimeoutActionOf(v) : v \in Verticals}
===============================================================================
