---------------------------- MODULE ExecutorProofs ----------------------------
(***************************************************************************)
(* Theorems about the executor, for every set of tasks, every cost and     *)
(* every capacity, and for any commands at any moment.  From rest to the   *)
(* next command the task machine keeps its promises; a drone that is held  *)
(* by a recall which no assignment overlapped has nothing pending.  Then   *)
(* about what it decides (Tasking): escalation, for every set of requests, *)
(* and the rounds of an allocation, for every list of tasks.               *)
(***************************************************************************)
EXTENDS Executor, Tasking, FiniteSetTheorems, WellFoundedInduction, TLAPS

LEMMA PayloadLeft ==
  ASSUME TypeOK, NEW t \in Tasks
  PROVE  Left(t) \in 0 .. Capacity
BY ExecutorAssumption DEF TypeOK, Left

LEMMA InitialTypes == Init => TypeOK
<1> SUFFICES ASSUME Init PROVE TypeOK
  OBVIOUS
<1>1. payload \in 0 .. Capacity /\ place \in Places
  BY ExecutorAssumption DEF Init, Places
<1>2. tstate \in [Tasks -> Live \cup {"pending", "completed", "cancelled"}]
  BY DEF Init, Live
<1> QED
  BY <1>1, <1>2 DEF Init, TypeOK, States, Steps, Awaits, Lines, Recalling

LEMMA LoopTypes ==
  ASSUME TypeOK, LoopStep
  PROVE  TypeOK'
<1> USE DEF TypeOK, Live, States, Steps, Awaits, Lines, Recalling, Places
<1>0. UNCHANGED <<given, line, cmd, timeoutAction>> /\ line = "none" /\ disturbed' \in BOOLEAN /\ overlapped' \in BOOLEAN
  BY DEF LoopStep, Loop, callVars, Remember
<1>1. CASE Dispatch \/ HandleIdle \/ HandleRecalled \/ HandleReturning
  BY <1>0, <1>1 DEF Dispatch, HandleIdle, HandleRecalled, HandleReturning
<1>2. CASE NothingToDo \/ GiveUp \/ KeepWaiting \/ ApprovalTimeout \/ Proceed \/ Abort
  BY <1>0, <1>2 DEF NothingToDo, GiveUp, KeepWaiting, ApprovalTimeout, Proceed, Abort
<1>3. CASE HandleCurrentTask \/ Depart \/ Begin \/ Raise
  BY <1>0, <1>3, ExecutorAssumption DEF HandleCurrentTask, Depart, Begin, Raise
<1>4. CASE Descend \/ Finish
  BY <1>0, <1>4 DEF Descend, Finish
<1>8. CASE WindUp
  <2>1. state' \in {"returning", "idle"}
    BY <1>8 DEF WindUp
  <2> QED
    BY <1>0, <1>8, <2>1 DEF WindUp
<1>5. CASE Work
  <2>1. payload' \in 0 .. Capacity
    BY <1>5, PayloadLeft DEF Work
  <2> QED
    BY <1>0, <1>5, <2>1 DEF Work
<1>6. CASE Navigate
  BY <1>0, <1>6 DEF Navigate, Destination, NextLeg
<1>7. CASE Refill
  BY <1>0, <1>7, ExecutorAssumption DEF Refill
<1>9. Loop
  BY DEF LoopStep
<1> HIDE DEF TypeOK
<1> QED
  BY <1>1, <1>2, <1>3, <1>4, <1>5, <1>6, <1>7, <1>8, <1>9 DEF Loop

LEMMA AssignTypes ==
  ASSUME TypeOK,
         AssignStep \/ \E t \in Tasks : AcceptTask(t) /\ UNCHANGED cmd /\ Remember
  PROVE  TypeOK'
<1> USE DEF TypeOK, Live, States, Steps, Awaits, Lines, Recalling, Places
<1>0. UNCHANGED <<cmd, timeoutAction>> /\ disturbed' \in BOOLEAN /\ overlapped' \in BOOLEAN
  BY DEF AssignStep, Remember
<1>1. CASE \E t \in Tasks : AcceptTask(t)
  BY <1>0, <1>1 DEF AcceptTask, loopVars
<1>2. CASE TakeTask \/ MarkTask
  BY <1>0, <1>2 DEF TakeTask, MarkTask, loopVars
<1>3. CASE SetOff \/ WaitForApproval \/ AskApproval
  BY <1>0, <1>3 DEF SetOff, WaitForApproval, AskApproval, loopVars
<1> QED
  BY <1>1, <1>2, <1>3 DEF AssignStep, AssignTask

LEMMA CommandTypes ==
  ASSUME TypeOK,
         CommandStep \/ ((Recall \/ Redeploy) /\ UNCHANGED <<loopVars, callVars>> /\ Remember)
  PROVE  TypeOK'
<1> USE DEF TypeOK, Live, States, Steps, Awaits, Lines, Recalling, Places
<1>0. UNCHANGED <<pc, local, given, line, timeoutAction>> /\ disturbed' \in BOOLEAN /\ overlapped' \in BOOLEAN
  BY DEF CommandStep, Remember, loopVars, callVars
<1>1. CASE Recall
  <2>1. /\ cmd' = "check" /\ recalled' = TRUE
        /\ UNCHANGED <<state, task, tstate, esc, payload, place>>
    BY <1>1 DEF Recall
  <2> QED
    BY <1>0, <2>1
<1>6. CASE Redeploy
  <2>1. /\ cmd' = "resume" /\ recalled' = FALSE
        /\ UNCHANGED <<state, task, tstate, esc, payload, place>>
    BY <1>6 DEF Redeploy
  <2>2. cmd' \in Recalling \cup {"none", "resume"} /\ recalled' \in BOOLEAN
    BY <2>1
  <2> QED
    BY <1>0, <2>1, <2>2
<1>5. CASE CheckTask
  BY <1>0, <1>5 DEF CheckTask
<1>3. CASE DropTask \/ ClearRequest
  BY <1>0, <1>3 DEF DropTask, ClearRequest
<1>4. CASE Hold \/ Resume
  BY <1>0, <1>4 DEF Hold, Resume
<1>2. CASE CancelTask
  BY <1>0, <1>2 DEF CancelTask
<1> QED
  BY <1>1, <1>2, <1>3, <1>4, <1>5, <1>6 DEF CommandStep, Command

LEMMA TypesKept == TypeOK /\ [Next]_vars => TypeOK'
<1>1. ASSUME TypeOK, UNCHANGED vars PROVE TypeOK'
  BY <1>1 DEF TypeOK, vars, loopVars, callVars, history
<1> QED
  BY <1>1, LoopTypes, AssignTypes, CommandTypes DEF Next

\* Every variable keeps its type, whatever commands arrive (the whole module).
THEOREM TypeCorrect == Spec => []TypeOK
  BY InitialTypes, TypesKept, PTL DEF Spec

-----------------------------------------------------------------------------
(* A drone that is held *)

\* While a recall runs that no assignment has met, and after it.
Held ==
  /\ cmd \in Recalling => recalled /\ (line # "none" => overlapped)
  /\ cmd \in {"clear", "hold"} /\ ~overlapped => task = NoTask
  /\ cmd = "hold" /\ ~overlapped => esc = NoTask
  /\ state = "recalled" /\ ~overlapped /\ cmd # "resume" =>
       recalled /\ task = NoTask /\ esc = NoTask /\ line = "none"

\* The handlers neither take a task nor ask, and never hold the drone.
LoopOnlyClears ==
  /\ UNCHANGED recalled
  /\ task' \in {task, NoTask} /\ esc' \in {esc, NoTask}
  /\ state' = "recalled" => state = "recalled"

LEMMA LoopClears == LoopStep => LoopOnlyClears
<1> SUFFICES ASSUME Loop PROVE LoopOnlyClears
  BY DEF LoopStep
<1> USE DEF LoopOnlyClears
<1>1. CASE Dispatch \/ HandleIdle \/ HandleRecalled \/ NothingToDo \/ GiveUp \/ KeepWaiting
  BY <1>1 DEF Dispatch, HandleIdle, HandleRecalled, NothingToDo, GiveUp, KeepWaiting
<1>2. CASE ApprovalTimeout \/ Proceed \/ Abort \/ HandleCurrentTask \/ Depart \/ Begin \/ Raise
  BY <1>2 DEF ApprovalTimeout, Proceed, Abort, HandleCurrentTask, Depart, Begin, Raise
<1>3. CASE Descend \/ Work \/ Finish \/ WindUp \/ HandleReturning \/ Navigate \/ Refill
  BY <1>3 DEF Descend, Work, Finish, WindUp, HandleReturning, Navigate, Refill
<1> HIDE DEF LoopOnlyClears
<1> QED
  BY <1>1, <1>2, <1>3 DEF Loop

LEMMA StaysHeld == TypeOK /\ Held /\ [Next]_vars => Held'
<1> SUFFICES ASSUME TypeOK, Held, [Next]_vars PROVE Held'
  OBVIOUS
<1> USE DEF Held, Recalling
<1>1. CASE LoopStep
  <2>1. UNCHANGED <<line, cmd>> /\ line = "none"
    BY <1>1 DEF LoopStep, Loop, callVars
  <2>2. overlapped' = IF cmd' \in Recalling THEN overlapped \/ line' # "none"
                      ELSE overlapped /\ state' = "recalled"
    BY <1>1 DEF LoopStep, Remember
  <2>3. LoopOnlyClears
    BY <1>1, LoopClears
  <2> QED
    BY <2>1, <2>2, <2>3 DEF LoopOnlyClears
<1>2. CASE AssignStep
  <2>1. /\ UNCHANGED <<cmd, recalled>> /\ line # "none"
        /\ state' = "recalled" => state = "recalled"
    BY <1>2 DEF AssignStep, AssignTask, TakeTask, MarkTask, SetOff, WaitForApproval, AskApproval
  <2>2. overlapped' = IF cmd' \in Recalling THEN overlapped \/ line' # "none"
                      ELSE overlapped /\ state' = "recalled"
    BY <1>2 DEF AssignStep, Remember
  <2> QED
    BY <2>1, <2>2
<1>3. ASSUME NEW t \in Tasks, AcceptTask(t), UNCHANGED cmd, Remember PROVE Held'
  <2>1. /\ UNCHANGED <<state, task, esc, recalled>> /\ line' = "take" /\ state = "idle"
    BY <1>3 DEF AcceptTask, Available
  <2>2. overlapped' = IF cmd' \in Recalling THEN overlapped \/ line' # "none"
                      ELSE overlapped /\ state' = "recalled"
    BY <1>3 DEF Remember
  <2> QED
    BY <1>3, <2>1, <2>2
<1>4. CASE (Recall \/ Redeploy) /\ UNCHANGED <<loopVars, callVars>> /\ Remember
  BY <1>4 DEF Recall, Redeploy, callVars, Remember
<1>5. CASE CommandStep
  <2>1. UNCHANGED line
        /\ overlapped' = IF cmd' \in Recalling THEN overlapped \/ line' # "none"
                         ELSE overlapped /\ state' = "recalled"
    BY <1>5 DEF CommandStep, callVars, Remember
  <2>2. CASE CheckTask \/ CancelTask \/ DropTask
    BY <2>1, <2>2 DEF CheckTask, CancelTask, DropTask
  <2>3. CASE ClearRequest \/ Hold \/ Resume
    BY <2>1, <2>3 DEF ClearRequest, Hold, Resume
  <2> QED
    BY <1>5, <2>2, <2>3 DEF CommandStep, Command
<1>6. CASE UNCHANGED vars
  BY <1>6 DEF vars, callVars, history
<1> QED
  BY <1>1, <1>2, <1>3, <1>4, <1>5, <1>6 DEF Next

\* However a recall falls between the steps of the handlers, a drone it holds has no task
\* and waits for no answer, unless an assignment was under way meanwhile (_handle_recall).
THEOREM HeldDronesHaveNoTask == Spec => []HeldWithoutTask
<1>1. Init => Held
  BY DEF Init, Held, Recalling
<1>2. Held => HeldWithoutTask
  BY DEF Held, HeldWithoutTask
<1> QED
  BY <1>1, <1>2, StaysHeld, TypeCorrect, PTL DEF Spec

-----------------------------------------------------------------------------
(* A drone from rest to the next command *)

\* Where the main loop can be in a state that no command has changed behind its back.
InStep ==
  \/ state = "idle" /\ pc \in {"loop", "idle"}
  \/ state = "awaiting_approval" /\ pc \in {"loop", "awaiting_approval", "timedOut", "giveUp"}
  \/ state = "transiting" /\ pc \in {"loop", "transiting", "depart", "navigate", "descend"}
  \/ state = "executing" /\ pc \in {"loop", "executing", "begin", "work", "finish", "settle"}
  \/ state = "returning" /\ pc \in {"loop", "returning", "homeward", "refill"}

\* An assignment meets an idle drone at its await.
Assigning ==
  /\ line # "none" => pc = "loop"
  /\ line \in {"take", "mark", "move"} => state = "idle" /\ 100 * payload > 5 * Capacity
  /\ line = "ask" => state = "awaiting_approval" /\ given \in NeedsApproval
  /\ line = "take" => task = NoTask
  /\ line \in {"mark", "move", "ask"} => task = given

\* In states without a task there is none, and in the others there is one.
InHand ==
  IF pc \in {"giveUp", "settle"} \/ (state \in {"idle", "returning"} /\ line \notin {"mark", "move"})
  THEN task = NoTask
  ELSE task \in Tasks

\* The request is for the task in hand, and so is the flight, which ends at its place.
OneTask ==
  /\ state = "awaiting_approval" /\ pc \notin {"timedOut", "giveUp"} /\ line # "ask" => esc = task
  /\ pc \in {"navigate", "descend", "work", "finish"} => local = task
  /\ pc = "descend" => place = task
  /\ state = "executing" /\ pc # "settle" => place = task
  /\ pc = "refill" => place = Home

\* Who is to ask, waits; the task in hand is marked for that, or not.
Approved ==
  /\ state = "awaiting_approval" /\ pc # "giveUp" => task \in NeedsApproval
  /\ timeoutAction = "abort" /\ task \in NeedsApproval =>
       state = "awaiting_approval" \/ line \in {"mark", "move"}
  /\ task # NoTask /\ line # "mark" /\ pc # "finish" =>
       tstate[task] = IF task \in NeedsApproval THEN "awaiting_approval" ELSE "assigned"

Calm ==
  /\ cmd = "none" /\ ~recalled
  /\ InStep /\ Assigning /\ InHand /\ OneTask /\ Approved

CalmUntilDisturbed == ~disturbed => Calm

LEMMA LoopKeepsCalm ==
  ASSUME TypeOK, Calm, LoopStep
  PROVE  Calm'
<1>0. /\ Loop /\ line = "none" /\ ~recalled /\ cmd = "none"
      /\ UNCHANGED <<given, line, cmd, timeoutAction>>
  BY DEF Calm, LoopStep, Loop, callVars, Remember
<1>1. UNCHANGED recalled
  BY LoopClears DEF LoopStep, LoopOnlyClears
<1>2. NoTask \notin Tasks /\ NeedsApproval \subseteq Tasks
  BY ExecutorAssumption
<1> SUFFICES InStep' /\ Assigning' /\ InHand' /\ OneTask' /\ Approved'
  BY <1>0, <1>1 DEF Calm
<1> USE <1>0, <1>2 DEF Calm, InStep, Assigning, InHand, OneTask, Approved
<1>3. CASE Dispatch
  BY <1>3 DEF Dispatch
<1>4. CASE HandleIdle
  BY <1>4 DEF HandleIdle
<1>5. CASE HandleRecalled
  BY <1>5 DEF HandleRecalled
<1>6. CASE NothingToDo
  BY <1>6 DEF NothingToDo
<1>7. CASE GiveUp
  BY <1>7 DEF GiveUp
<1>8. CASE KeepWaiting
  BY <1>8 DEF KeepWaiting
<1>9. CASE ApprovalTimeout
  BY <1>9 DEF ApprovalTimeout
<1>10. CASE Proceed
  BY <1>10 DEF Proceed
<1>11. CASE Abort
  BY <1>11 DEF Abort
<1>12. CASE HandleCurrentTask
  BY <1>12 DEF HandleCurrentTask
<1>13. CASE Depart
  BY <1>13 DEF Depart
<1>14. CASE Begin
  BY <1>14 DEF Begin
<1>15. CASE Raise
  BY <1>15 DEF Raise
<1>16. CASE Descend
  BY <1>16 DEF Descend
<1>17. CASE Work
  BY <1>17 DEF Work
<1>18. CASE Finish
  BY <1>18 DEF Finish
<1>19. CASE WindUp
  <2>1. state' \in {"returning", "idle"} /\ pc' = "loop" /\ UNCHANGED <<task, esc, tstate>>
    BY <1>19 DEF WindUp
  <2> QED
    BY <1>19, <2>1 DEF WindUp
<1>20. CASE HandleReturning
  BY <1>20 DEF HandleReturning
<1>21. CASE Navigate
  BY <1>21 DEF Navigate, Destination, NextLeg
<1>22. CASE Refill
  BY <1>22 DEF Refill
<1> HIDE DEF Calm, InStep, Assigning, InHand, OneTask, Approved
<1> QED
  BY <1>3, <1>4, <1>5, <1>6, <1>7, <1>8, <1>9, <1>10, <1>11, <1>12, <1>13, <1>14, <1>15,
     <1>16, <1>17, <1>18, <1>19, <1>20, <1>21, <1>22 DEF Loop

LEMMA AssignKeepsCalm ==
  ASSUME TypeOK, Calm, UNCHANGED cmd, UNCHANGED timeoutAction,
         AssignTask \/ \E t \in Tasks : AcceptTask(t)
  PROVE  Calm'
<1>1. NoTask \notin Tasks /\ NeedsApproval \subseteq Tasks
  BY ExecutorAssumption
<1> USE <1>1 DEF TypeOK, Calm, InStep, Assigning, InHand, OneTask, Approved, loopVars
<1>2. CASE \E t \in Tasks : AcceptTask(t)
  BY <1>2 DEF AcceptTask, Available, Awaits
<1>3. CASE TakeTask
  BY <1>3 DEF TakeTask
<1>4. CASE MarkTask
  BY <1>4 DEF MarkTask
<1>5. CASE SetOff
  BY <1>5 DEF SetOff
<1>6. CASE WaitForApproval
  BY <1>6 DEF WaitForApproval
<1>7. CASE AskApproval
  BY <1>7 DEF AskApproval
<1> QED
  BY <1>2, <1>3, <1>4, <1>5, <1>6, <1>7 DEF AssignTask

LEMMA CommandsDisturb ==
  ASSUME TypeOK, cmd = "none", Next, ~disturbed'
  PROVE  LoopStep \/ AssignStep \/ \E t \in Tasks : AcceptTask(t) /\ UNCHANGED cmd /\ Remember
<1>1. cmd' = "none" /\ Remember
  BY DEF Next, LoopStep, AssignStep, CommandStep, Remember
<1>2. ~(Recall \/ Redeploy \/ Command)
  BY <1>1 DEF Recall, Redeploy, Command, CheckTask, CancelTask, DropTask, ClearRequest, Hold, Resume
<1> QED
  BY <1>2 DEF Next, CommandStep

LEMMA StaysCalm == TypeOK /\ TypeOK' /\ CalmUntilDisturbed /\ [Next]_vars => CalmUntilDisturbed'
<1> SUFFICES ASSUME TypeOK, TypeOK', CalmUntilDisturbed, [Next]_vars, ~disturbed'
             PROVE  Calm'
  BY DEF CalmUntilDisturbed
<1>1. CASE UNCHANGED vars
  BY <1>1 DEF CalmUntilDisturbed, Calm, InStep, Assigning, InHand, OneTask, Approved,
              vars, loopVars, callVars, history
<1>2. CASE Next /\ disturbed
  <2>1. Remember
    BY <1>2 DEF Next, LoopStep, AssignStep, CommandStep
  <2>2. AtRest'
    BY <1>2, <2>1 DEF Remember
  <2> QED
    BY <2>2, ExecutorAssumption
       DEF TypeOK, AtRest, Calm, InStep, Assigning, InHand, OneTask, Approved
<1>3. CASE Next /\ ~disturbed
  <2>1. Calm
    BY <1>3 DEF CalmUntilDisturbed
  <2>2. LoopStep \/ AssignStep \/ \E t \in Tasks : AcceptTask(t) /\ UNCHANGED cmd /\ Remember
    BY <1>3, <2>1, CommandsDisturb DEF Calm
  <2>3. CASE LoopStep
    BY <2>1, <2>3, LoopKeepsCalm
  <2>4. CASE ~LoopStep
    <3>1. /\ UNCHANGED <<cmd, timeoutAction>>
          /\ AssignTask \/ \E t \in Tasks : AcceptTask(t)
      BY <2>2, <2>4 DEF AssignStep, Remember
    <3> QED
      BY <2>1, <3>1, AssignKeepsCalm
  <2> QED
    BY <2>3, <2>4
<1> QED
  BY <1>1, <1>2, <1>3

THEOREM StepsAreCalm == Spec => []CalmUntilDisturbed
<1>1. Init => CalmUntilDisturbed
  BY ExecutorAssumption DEF Init, CalmUntilDisturbed, Calm, InStep, Assigning, InHand, OneTask, Approved
<1> QED
  BY <1>1, StaysCalm, TypeCorrect, PTL DEF Spec

\* From rest to the next command a drone works where its current task is, for any
\* commands and whatever they interrupted before (_handle_transiting, _handle_executing).
THEOREM WorkIsAtTarget == Spec => []WorksAtTarget
<1>1. TypeOK /\ CalmUntilDisturbed => WorksAtTarget
  BY DEF TypeOK, CalmUntilDisturbed, Calm, InStep, OneTask, WorksAtTarget
<1> QED
  BY <1>1, TypeCorrect, StepsAreCalm, PTL

\* From rest to the next command a drone set to abort neither flies to nor works on a task
\* that it should have asked for (_handle_awaiting_approval, for any commands before).
THEOREM ApprovalIsRespected == Spec => []ApprovalRespected
<1>1. TypeOK /\ CalmUntilDisturbed => ApprovalRespected
  BY ExecutorAssumption
     DEF TypeOK, CalmUntilDisturbed, Calm, InStep, Assigning, OneTask, Approved, ApprovalRespected
<1> QED
  BY <1>1, TypeCorrect, StepsAreCalm, PTL

\* From rest to the next command the payload is refilled at home only (_handle_returning).
THEOREM RefillIsAtHome == Spec => RefilledAtHome
<1>1. TypeOK /\ CalmUntilDisturbed /\ [Next]_vars =>
        [payload' > payload => disturbed \/ place = Home]_vars
  <2> SUFFICES ASSUME TypeOK, CalmUntilDisturbed, Next, payload' > payload, ~disturbed
               PROVE  place = Home
    OBVIOUS
  <2>1. Calm
    BY DEF CalmUntilDisturbed
  <2>2. CASE Refill
    BY <2>1, <2>2 DEF Refill, Calm, InStep, OneTask
  <2>3. ~(payload' = payload)
    BY DEF TypeOK
  <2>4. CASE Work
    <3>0. payload \in 0 .. Capacity /\ local \in Tasks
      BY <2>4 DEF Work, TypeOK
    <3>1. payload \in Nat /\ Cost[local] \in Nat
      BY <3>0, ExecutorAssumption
    <3> QED
      BY <2>4, <3>1 DEF Work, Left
  <2>5. CASE Loop /\ ~Refill /\ ~Work
    <3> USE <2>3, <2>5
    <3> QED
      BY DEF Loop, Dispatch, HandleIdle, HandleRecalled, NothingToDo, GiveUp, KeepWaiting,
             ApprovalTimeout, Proceed, Abort, HandleCurrentTask, Depart, Begin, Raise,
             Descend, Finish, WindUp, HandleReturning, Navigate
  <2>6. CASE AssignTask \/ \E t \in Tasks : AcceptTask(t)
    BY <2>3, <2>6 DEF AssignTask, TakeTask, MarkTask, SetOff, WaitForApproval, AskApproval, AcceptTask
  <2>7. CASE Recall \/ Redeploy \/ Command
    BY <2>3, <2>7 DEF Recall, Redeploy, Command, CheckTask, CancelTask, DropTask, ClearRequest,
                      Hold, Resume
  <2> QED
    BY <2>2, <2>4, <2>5, <2>6, <2>7 DEF Next, LoopStep, AssignStep, CommandStep
<1> QED
  BY <1>1, TypeCorrect, StepsAreCalm, PTL DEF Spec, RefilledAtHome

Current == IF line = "mark" \/ pc = "finish" THEN NoTask ELSE task

\* What the drone does from rest to the next command, seen as the server does.
LEMMA LoopServes ==
  ASSUME TypeOK, Calm, LoopStep
  PROVE  Server!Serve \/ UNCHANGED <<Current, tstate, payload, place>>
<1>0. /\ Loop /\ line = "none" /\ line' = "none"
      /\ timeoutAction \in {"proceed", "abort"}
  BY ExecutorAssumption DEF LoopStep, Loop, callVars, TypeOK
<1>1. CASE Dispatch \/ HandleIdle \/ HandleRecalled \/ NothingToDo \/ GiveUp \/ KeepWaiting
  BY <1>0, <1>1 DEF TypeOK, States, Current, Dispatch, HandleIdle, HandleRecalled, NothingToDo, GiveUp, KeepWaiting
<1>2. CASE ApprovalTimeout \/ Proceed \/ HandleCurrentTask \/ Depart \/ Begin \/ Raise
  BY <1>0, <1>2 DEF Current, ApprovalTimeout, Proceed, HandleCurrentTask, Depart, Begin, Raise
<1>3. CASE HandleReturning \/ Descend \/ Finish
  BY <1>0, <1>3 DEF Current, HandleReturning, Descend, Finish
<1>4. CASE WindUp
  BY <1>0, <1>4 DEF Current, WindUp
<1>5. CASE Abort
  <2>1. /\ task \in NeedsApproval /\ tstate[task] = "awaiting_approval" /\ line = "none"
        /\ timeoutAction = "abort" /\ Current = task /\ task # NoTask /\ Current' = NoTask
    BY <1>0, <1>5 DEF Abort, Calm, InStep, Approved, Current
  <2>2. Server!Cancel
    BY <1>5, <2>1 DEF Abort, Server!Cancel, Server!Allowed, Current
  <2> QED
    BY <2>2 DEF Server!Serve
<1>6. CASE Work
  <2>1. /\ Current = task /\ task \in Tasks /\ task # NoTask /\ place = task /\ local = task
        /\ state = "executing" /\ Current' = NoTask
    BY <1>0, <1>6, ExecutorAssumption DEF Work, Calm, InStep, InHand, OneTask, Current
  <2>2. timeoutAction = "proceed" \/ tstate[task] = "assigned"
    BY <1>0, <1>6, <2>1 DEF Work, Calm, Approved
  <2>3. Server!Complete
    BY <1>6, <2>1, <2>2 DEF Work, Left, Server!Complete, Server!Allowed, Current
  <2> QED
    BY <2>3 DEF Server!Serve
<1>7. CASE Navigate /\ pc = "navigate"
  <2>1. /\ Current = task /\ task \in Tasks /\ task # NoTask /\ local = task
        /\ state = "transiting" /\ UNCHANGED <<Current, tstate, payload>>
    BY <1>0, <1>7, ExecutorAssumption DEF Navigate, NextLeg, Calm, InStep, InHand, OneTask, Current
  <2>2. timeoutAction = "proceed" \/ tstate[task] = "assigned"
    BY <1>0, <1>7, <2>1 DEF Calm, Approved
  <2>3. place' \in {Elsewhere, task}
    BY <1>7, <2>1 DEF Navigate, Destination, Calm
  <2>4. Server!Move
    BY <2>1, <2>2, <2>3 DEF Server!Move, Server!Allowed, Current
  <2> QED
    BY <2>4 DEF Server!Serve
<1>8. CASE Navigate /\ pc = "homeward"
  <2>1. Current = NoTask /\ UNCHANGED <<Current, tstate, payload>> /\ place' \in {Elsewhere, Home}
    BY <1>0, <1>8 DEF Navigate, Destination, NextLeg, Calm, InStep, InHand, Current
  <2>2. Server!Move
    BY <2>1 DEF Server!Move, Server!Allowed, Current
  <2> QED
    BY <2>2 DEF Server!Serve
<1>9. CASE Refill
  <2>1. Current = NoTask /\ UNCHANGED <<Current, tstate, place>> /\ place = Home /\ payload' = Capacity
    BY <1>0, <1>9 DEF Refill, Calm, InStep, InHand, OneTask, Current
  <2>2. Server!Refill
    BY <2>1 DEF Server!Refill, Current
  <2> QED
    BY <2>2 DEF Server!Serve
<1> QED
  BY <1>0, <1>1, <1>2, <1>3, <1>4, <1>5, <1>6, <1>7, <1>8, <1>9 DEF Loop, Navigate

LEMMA AssignServes ==
  ASSUME TypeOK, Calm, AssignTask \/ \E t \in Tasks : AcceptTask(t)
  PROVE  Server!Serve \/ UNCHANGED <<Current, tstate, payload, place>>
<1>0. line # "none" => pc = "loop"
  BY DEF Calm, Assigning
<1>1. CASE \E t \in Tasks : AcceptTask(t)
  BY <1>1 DEF AcceptTask, Current, loopVars
<1>2. CASE TakeTask
  BY <1>0, <1>2 DEF TakeTask, Calm, Assigning, Current, loopVars
<1>3. CASE MarkTask
  <2>1. /\ Current = NoTask /\ Current' = given /\ given \in Tasks
        /\ 100 * payload > 5 * Capacity /\ UNCHANGED <<payload, place>>
    BY <1>0, <1>3 DEF MarkTask, TypeOK, Calm, Assigning, Current, loopVars
  <2>2. Server!Accept(given)
    BY <1>3, <2>1 DEF MarkTask, Server!Accept, Current
  <2> QED
    BY <2>1, <2>2 DEF Server!Serve
<1>4. CASE SetOff \/ WaitForApproval \/ AskApproval
  BY <1>4 DEF SetOff, WaitForApproval, AskApproval, Current, loopVars
<1> QED
  BY <1>1, <1>2, <1>3, <1>4 DEF AssignTask

\* From rest to the next command the executor is a server of tasks, whatever the commands
\* have interrupted: one task at a time, completed at its place or cancelled unbegun
\* (every handler, assign_task and the handler of the commands).
THEOREM ExecutorServesTasks == Spec => ServesTasks
<1>1. Init => Server!Init
  BY DEF Init, Server!Init
<1>2. TypeOK /\ CalmUntilDisturbed /\ [Next]_vars => [Server!Next]_(Server!vars)
  <2> SUFFICES ASSUME TypeOK, CalmUntilDisturbed, [Next]_vars
               PROVE  Server!Next \/ UNCHANGED Server!vars
    OBVIOUS
  <2>1. CASE UNCHANGED vars
    BY <2>1 DEF vars, loopVars, callVars, history, Server!vars
  <2>2. CASE Next
    <3>1. Remember
      BY <2>2 DEF Next, LoopStep, AssignStep, CommandStep
    <3>2. CASE disturbed
      BY <3>1, <3>2 DEF Remember, AtRest, Server!Next
    <3>3. CASE ~disturbed /\ disturbed'
      BY <3>1, <3>3 DEF Remember, Server!Next
    <3>4. CASE ~disturbed /\ ~disturbed'
      <4>1. Calm
        BY <3>4 DEF CalmUntilDisturbed
      <4>2. LoopStep \/ AssignTask \/ \E t \in Tasks : AcceptTask(t)
        BY <2>2, <3>4, <4>1, CommandsDisturb DEF Calm, AssignStep
      <4>3. Server!Serve \/ UNCHANGED <<Current, tstate, payload, place>>
        BY <4>1, <4>2, LoopServes, AssignServes
      <4> QED
        BY <3>1, <3>4, <4>3 DEF Remember, Server!Next, Server!vars, Current
    <3> QED
      BY <3>2, <3>3, <3>4 DEF Remember
  <2> QED
    BY <2>1, <2>2
<1> QED
  BY <1>1, <1>2, TypeCorrect, StepsAreCalm, PTL DEF Spec, ServesTasks, Server!Spec

-----------------------------------------------------------------------------
(* The levels of risk: the thresholds of every vertical, and what each factor adds *)

Graded == {"notify", "approve_required", "emergency"}

LEMMA HighestOf ==
  ASSUME NEW L \in SUBSET Graded
  PROVE  Highest(L) = IF "emergency" \in L THEN "emergency"
                      ELSE IF "approve_required" \in L THEN "approve_required"
                      ELSE IF "notify" \in L THEN "notify" ELSE "auto"
<1> DEFINE Top(l) == l \in L /\ \A k \in L : Rank[k] <= Rank[l]
<1>0. /\ Rank["notify"] = 1 /\ Rank["approve_required"] = 2 /\ Rank["emergency"] = 3
  BY DEF Rank
<1>1. ASSUME L # {}  PROVE Highest(L) = CHOOSE l \in L : \A k \in L : Rank[k] <= Rank[l]
  BY <1>1 DEF Highest
<1>2. ASSUME NEW l, Top(l)  PROVE Highest(L) = l
  <2>1. \A k : Top(k) => k = l
    BY <1>0, <1>2 DEF Graded
  <2>2. Highest(L) = CHOOSE k \in L : \A m \in L : Rank[m] <= Rank[k]
    BY <1>1, <1>2
  <2> QED
    BY <1>2, <2>1, <2>2
<1>3. CASE "emergency" \in L
  BY <1>0, <1>2, <1>3 DEF Graded
<1>4. CASE "emergency" \notin L /\ "approve_required" \in L
  BY <1>0, <1>2, <1>4 DEF Graded
<1>5. CASE "emergency" \notin L /\ "approve_required" \notin L /\ "notify" \in L
  BY <1>0, <1>2, <1>5 DEF Graded
<1>6. CASE L = {}
  BY <1>6 DEF Highest
<1> QED
  BY <1>3, <1>4, <1>5, <1>6 DEF Graded

Fields ==
  {"minAuto", "minNotify", "highPriority", "maxCommitment", "alwaysApprove", "alwaysAuto",
   "timeoutAction"}

LEMMA DefaultValues ==
  /\ DOMAIN Default = Fields /\ Default = [f \in DOMAIN Default |-> Default[f]]
  /\ Default.minAuto = 70 /\ Default.minNotify = 50
  /\ Default.highPriority = 8 /\ Default.maxCommitment = 50
  /\ Default.alwaysApprove = {"drop_supplies"}
  /\ Default.alwaysAuto = {"photograph", "inspect", "relay"}
BY DEF Default, Fields

LEMMA AthenaValues ==
  LET th == ThresholdsOf("ATHENA") IN
  /\ th.minNotify = 50 /\ th.minAuto = 85
  /\ th.highPriority = 6 /\ th.maxCommitment = 30
  /\ th.alwaysApprove = {"drop_supplies", "mark_location", "investigate"}
  /\ th.alwaysAuto = {"photograph", "inspect", "relay"}
<1> DEFINE A == [Default EXCEPT !.minAuto = 85]
           B == [A EXCEPT !.highPriority = 6]
           C == [B EXCEPT !.maxCommitment = 30]
           D == [C EXCEPT !.alwaysApprove = {"drop_supplies", "mark_location", "investigate"}]
           E == [D EXCEPT !.timeoutAction = "abort"]
<1>1. ThresholdsOf("ATHENA") = E
  BY DEF ThresholdsOf, Thresholds
<1> USE DEF Fields
<1>2. DOMAIN A = Fields /\ \A g \in Fields : A[g] = IF g = "minAuto" THEN 85 ELSE Default[g]
  BY DefaultValues
<1> HIDE DEF A
<1>3. DOMAIN B = Fields /\ \A g \in Fields : B[g] = IF g = "highPriority" THEN 6 ELSE A[g]
  BY <1>2
<1> HIDE DEF B
<1>4. DOMAIN C = Fields /\ \A g \in Fields : C[g] = IF g = "maxCommitment" THEN 30 ELSE B[g]
  BY <1>3
<1> HIDE DEF C
<1>5. DOMAIN D = Fields
      /\ \A g \in Fields : D[g] = IF g = "alwaysApprove"
                                    THEN {"drop_supplies", "mark_location", "investigate"} ELSE C[g]
  BY <1>4
<1> HIDE DEF D
<1>6. \A g \in Fields : E[g] = IF g = "timeoutAction" THEN "abort" ELSE D[g]
  BY <1>5
<1> HIDE DEF E
<1>7. /\ E["minNotify"] = 50 /\ E["minAuto"] = 85 /\ E["highPriority"] = 6
      /\ E["maxCommitment"] = 30
      /\ E["alwaysApprove"] = {"drop_supplies", "mark_location", "investigate"}
      /\ E["alwaysAuto"] = {"photograph", "inspect", "relay"}
  BY <1>2, <1>3, <1>4, <1>5, <1>6, DefaultValues
<1> QED
  BY <1>1, <1>7

LEMMA OtherValues ==
  ASSUME NEW v, v # "ATHENA"
  PROVE  LET th == ThresholdsOf(v) IN
         /\ th.minNotify = 50 /\ th.minAuto \in {50, 60, 70}
         /\ th.highPriority = 8 /\ th.maxCommitment \in {50, 70, 80}
         /\ th.alwaysApprove = {"drop_supplies"}
         /\ th.alwaysAuto = {"photograph", "inspect", "relay"}
<1> DEFINE A(x) == [Default EXCEPT !.minAuto = x]
           B(x, y) == [A(x) EXCEPT !.maxCommitment = y]
<1>1. \/ ThresholdsOf(v) = Default
      \/ ThresholdsOf(v) = B(60, 70)
      \/ ThresholdsOf(v) = B(50, 80)
  BY DEF ThresholdsOf, Thresholds
<1> USE DEF Fields
<1>2. \A x : DOMAIN A(x) = Fields /\ \A g \in Fields : A(x)[g] = IF g = "minAuto" THEN x ELSE Default[g]
  BY DefaultValues
<1> HIDE DEF A
<1>3. \A x, y : \A g \in Fields : B(x, y)[g] = IF g = "maxCommitment" THEN y ELSE A(x)[g]
  BY <1>2
<1> HIDE DEF B
<1>4. ASSUME NEW x, NEW y
      PROVE  /\ B(x, y)["minAuto"] = x /\ B(x, y)["maxCommitment"] = y
             /\ B(x, y)["minNotify"] = 50 /\ B(x, y)["highPriority"] = 8
             /\ B(x, y)["alwaysApprove"] = {"drop_supplies"}
             /\ B(x, y)["alwaysAuto"] = {"photograph", "inspect", "relay"}
  BY <1>2, <1>3, DefaultValues
<1> QED
  BY <1>1, <1>4, DefaultValues

-----------------------------------------------------------------------------
(* What each factor adds to the level *)

Request ==
  [type : STRING, priority : Nat, seenAs : STRING, confidence : Nat, committed : Nat,
   total : Nat, near : BOOLEAN]

\* Some factor is an emergency; some needs approval; some is worth a notice.
Urgent(req) == req.priority >= 10
Risky(th, req) ==
  \/ req.seenAs # NoDetection /\ req.confidence < th.minNotify
  \/ req.total > 0 /\ 100 * req.committed >= th.maxCommitment * req.total
  \/ req.near
Notable(th, req, s) ==
  \/ req.seenAs # NoDetection /\ (req.confidence < th.minAuto \/ req.seenAs \notin s)
  \/ req.priority >= th.highPriority

LEMMA LevelOf ==
  ASSUME NEW v, NEW req \in Request, NEW s
  PROVE  LET th == ThresholdsOf(v) IN
         Level(v, req, s) =
           IF req.type \in th.alwaysApprove THEN "approve_required"
           ELSE IF req.type \in th.alwaysAuto THEN "auto"
           ELSE IF Urgent(req) THEN "emergency"
           ELSE IF Risky(th, req) THEN "approve_required"
           ELSE IF Notable(th, req, s) THEN "notify" ELSE "auto"
<1> DEFINE th == ThresholdsOf(v)
           L  == Factors(th, req, s)
<1>1. L \in SUBSET Graded
  BY DEF Factors, DetectionFactors, PriorityFactors, SwarmFactors, FenceFactors, Graded
<1>2. "emergency" \in L <=> Urgent(req)
  BY DEF Factors, DetectionFactors, PriorityFactors, SwarmFactors, FenceFactors, Urgent
<1>3. "approve_required" \in L <=> Risky(th, req)
  BY DEF Factors, DetectionFactors, PriorityFactors, SwarmFactors, FenceFactors, Risky
<1>4. th.minNotify \in Int /\ th.minAuto \in Int /\ th.minNotify <= th.minAuto
  <2>1. CASE v = "ATHENA"
    BY <2>1, AthenaValues
  <2>2. CASE v # "ATHENA"
    BY <2>2, OtherValues
  <2> QED
    BY <2>1, <2>2
<1>5. ~Risky(th, req) => ("notify" \in L <=> Notable(th, req, s))
  BY <1>4 DEF Factors, DetectionFactors, PriorityFactors, SwarmFactors, FenceFactors, Risky, Notable,
     Request
<1>6. Highest(L) = IF Urgent(req) THEN "emergency" ELSE IF Risky(th, req) THEN "approve_required"
                   ELSE IF Notable(th, req, s) THEN "notify" ELSE "auto"
  BY <1>1, <1>2, <1>3, <1>5, HighestOf
<1>7. /\ req.type \in th.alwaysApprove => Level(v, req, s) = "approve_required"
      /\ req.type \in th.alwaysAuto /\ req.type \notin th.alwaysApprove => Level(v, req, s) = "auto"
      /\ req.type \notin th.alwaysAuto /\ req.type \notin th.alwaysApprove => Level(v, req, s) = Highest(L)
  BY DEF Level
<1> QED
  BY <1>6, <1>7

LEMMA RiskierFields ==
  ASSUME NEW a \in Requests, NEW b \in Riskier(a)
  PROVE  /\ a \in Request /\ b \in Request
         /\ b.type = a.type /\ b.seenAs = a.seenAs /\ b.total = a.total
         /\ b.priority >= a.priority /\ b.confidence <= a.confidence
         /\ b.committed >= a.committed /\ (a.near => b.near)
<1>0. a \in Request /\ \A r \in Requests : r.priority \in Nat /\ r.confidence \in Nat
  BY TaskingAssumption DEF Request
<1>1. CASE \E p \in {r.priority : r \in Requests} \ 0..a.priority : b = [a EXCEPT !.priority = p]
  BY <1>0, <1>1 DEF Request
<1>2. CASE \E c \in {r.confidence : r \in Requests} \cap 0..a.confidence : b = [a EXCEPT !.confidence = c]
  BY <1>0, <1>2 DEF Request
<1>3. CASE \E c \in a.committed..a.total : b = [a EXCEPT !.committed = c]
  BY <1>0, <1>3 DEF Request
<1>4. CASE b = [a EXCEPT !.near = TRUE]
  <2>1. /\ b \in Request
        /\ b.type = a.type /\ b.seenAs = a.seenAs /\ b.total = a.total
        /\ b.priority = a.priority /\ b.confidence = a.confidence
        /\ b.committed = a.committed
    BY <1>0, <1>4 DEF Request
  <2>2. b.near
    BY <1>0, <1>4, Zenon DEF Request
  <2> QED
    BY <1>0, <2>1, <2>2 DEF Request
<1> QED
  BY <1>0, <1>1, <1>2, <1>3, <1>4 DEF Riskier

\* RiskNeverLowers holds of any set the engine may have seen (EscalationEngine.score).
LEMMA RiskOnlyAdds == RiskNeverLowers
<1> SUFFICES ASSUME NEW a \in Requests, NEW b \in Riskier(a)
             PROVE  Rank[Level(Vertical, a, seen)] <= Rank[Level(Vertical, b, seen)]
  BY DEF RiskNeverLowers
<1> DEFINE th == ThresholdsOf(Vertical)
<1>0. /\ Rank["auto"] = 0 /\ Rank["notify"] = 1
      /\ Rank["approve_required"] = 2 /\ Rank["emergency"] = 3
  BY DEF Rank
<1>1. /\ th.minNotify \in Nat /\ th.minAuto \in Nat /\ th.highPriority \in Nat
      /\ th.maxCommitment \in Nat
  <2>1. CASE Vertical = "ATHENA"
    BY <2>1, AthenaValues
  <2>2. CASE Vertical # "ATHENA"
    BY <2>2, OtherValues
  <2> QED
    BY <2>1, <2>2
<1>2. Urgent(a) => Urgent(b)
  BY RiskierFields DEF Urgent, Request
<1>3. Risky(th, a) => Risky(th, b)
  <2>1. CASE a.seenAs # NoDetection /\ a.confidence < th.minNotify
    BY <1>1, <2>1, RiskierFields DEF Risky, Request
  <2>2. CASE a.total > 0 /\ 100 * a.committed >= th.maxCommitment * a.total
    <3>1. /\ a.committed \in Nat /\ b.committed \in Nat /\ a.committed <= b.committed
          /\ a.total \in Nat /\ b.total = a.total
      BY RiskierFields DEF Request
    <3>2. th.maxCommitment * a.total \in Int
      BY <1>1, <3>1
    <3>3. 100 * b.committed >= th.maxCommitment * b.total
      BY <2>2, <3>1, <3>2
    <3> QED
      BY <2>2, <3>1, <3>3 DEF Risky
  <2>3. CASE a.near
    BY <2>3, RiskierFields DEF Risky
  <2> QED
    BY <2>1, <2>2, <2>3 DEF Risky
<1>4. Notable(th, a, seen) => Notable(th, b, seen)
  BY <1>1, RiskierFields DEF Notable, Request
<1> QED
  BY <1>0, <1>2, <1>3, <1>4, RiskierFields, LevelOf

LEMMA AskingDoesNotDepend == AskingIsFixed
<1> SUFFICES ASSUME NEW req \in Requests
             PROVE  /\ Asks(Level(Vertical, req, seen)) <=> Asks(Level(Vertical, req, {}))
                    /\ Asks(Level(Vertical, req, seen)) => Asks(Level("ATHENA", req, {}))
  BY DEF AskingIsFixed
<1> DEFINE ask(v) == LET th == ThresholdsOf(v) IN
             \/ req.type \in th.alwaysApprove
             \/ req.type \notin th.alwaysAuto /\ (Urgent(req) \/ Risky(th, req))
<1>0. req \in Request
  BY TaskingAssumption DEF Request
<1>1. ASSUME NEW v, NEW s  PROVE Asks(Level(v, req, s)) <=> ask(v)
  BY <1>0, LevelOf DEF Asks
<1>2. Vertical # "ATHENA" /\ ask(Vertical) => ask("ATHENA")
  <2> SUFFICES ASSUME Vertical # "ATHENA", ask(Vertical)  PROVE ask("ATHENA")
    OBVIOUS
  <2> DEFINE th == ThresholdsOf(Vertical)
             at == ThresholdsOf("ATHENA")
  <2>1. Risky(th, req) => Risky(at, req)
    <3>1. req.total > 0 /\ 100 * req.committed >= th.maxCommitment * req.total
            => 100 * req.committed >= at.maxCommitment * req.total
      BY <1>0, AthenaValues, OtherValues DEF Request
    <3> QED
      BY <3>1, AthenaValues, OtherValues DEF Risky
  <2> QED
    BY <2>1, AthenaValues, OtherValues
<1> QED
  BY <1>1, <1>2

\* A request that is riskier in one respect is never scored lower, whatever the engine
\* has seen (EscalationEngine.score).
THEOREM RiskAdds == TaskingSpec => []RiskNeverLowers
BY RiskOnlyAdds, PTL DEF TaskingSpec

\* Whether a human is asked does not depend on what the engine has seen, and a vertical
\* asks for less than ATHENA (EscalationEngine.score, VERTICAL_THRESHOLDS).
THEOREM AskingIsSettled == TaskingSpec => []AskingIsFixed
BY AskingDoesNotDepend, PTL DEF TaskingSpec

-----------------------------------------------------------------------------
(* Allocation: what is held, what it scores, and when the rounds end *)

LEMMA LeastNatural ==
  ASSUME NEW T \in SUBSET Nat, T # {}
  PROVE  \E x \in T : \A y \in T : x <= y
<1> DEFINE R == OpToRel(<, Nat)
<1>1. IsWellFoundedOn(R, Nat)
  BY NatLessThanWellFounded
<1>2. \E x \in T : \A y \in T : <<y, x>> \notin R
  <2> HIDE DEF R
  <2> QED BY <1>1, WFMin
<1>3. \A x, y \in Nat : <<y, x>> \notin R => x <= y
  BY DEF OpToRel
<1> QED
  <2> HIDE DEF R
  <2> QED BY <1>2, <1>3

-----------------------------------------------------------------------------
(* Allocation: what the executor is believed to hold, and what it bids *)

\* What the drones are believed to hold, seen from drone me: the others hold nothing,
\* and nobody bids for what is not in its own bundle.
HeldOK(in, s) ==
  LET b == Mine(in, s) IN
  /\ s = [bundles |-> s.bundles, bids |-> s.bids, agents |-> s.agents, changed |-> s.changed]
  /\ s.bundles \in [DOMAIN in.drones -> Seq(DOMAIN in.tasks)]
  /\ s.bids \in [DOMAIN in.tasks -> Int]
  /\ \A d \in DOMAIN in.drones \ {in.me} : s.bundles[d] = <<>>
  /\ \A t \in DOMAIN in.tasks \ ToSet(b) : s.bids[t] = -1
  /\ IsInjective(b) /\ Len(b) <= MaxBundle

LEMMA ScoresAreNatural ==
  ASSUME NEW q, WellPosed(q), NEW t \in DOMAIN q.tasks, NEW p \in 0..MaxBundle
  PROVE  Score(q, q.me, q.tasks[t], p) \in Nat
<1> DEFINE raw == RawScore(q, q.me, q.tasks[t])
           band == IF HighBandwidth(q.tasks[t].type) THEN Bandwidth(q.mode) ELSE 10
           free == Uncongested(q.load)
           less == Discount[p + 1]
           near == IF q.tasks[t].deadline = "near" THEN 3 ELSE 2
<1>1. raw \in Nat
  <2>1. /\ q.tasks[t].priority \in Nat /\ q.tasks[t].near[q.me] \in Nat
        /\ q.drones[q.me].battery \in Nat /\ q.drones[q.me].payload \in Nat
    BY DEF WellPosed
  <2> QED
    BY <2>1 DEF RawScore, Weight
<1>2. band \in Nat
  BY DEF Bandwidth
<1>3. free \in Nat
  <2>1. q.load \in 0..10
    BY DEF WellPosed
  <2> QED
    BY <2>1 DEF Uncongested
<1>4. less \in Nat
  BY DEF Discount, MaxBundle
<1>5. near \in Nat
  OBVIOUS
<1>6. Score(q, q.me, q.tasks[t], p)
        = IF Barred(q, q.me, q.tasks[t]) THEN 0 ELSE raw * band * free * less * near
  BY DEF Score
<1> HIDE DEF raw, band, free, less, near
<1>7. \A i, j \in Nat : i * j \in Nat
  OBVIOUS
<1>8. raw * band \in Nat
  BY <1>1, <1>2, <1>7
<1>9. raw * band * free \in Nat
  BY <1>8, <1>3, <1>7
<1>10. raw * band * free * less \in Nat
  BY <1>9, <1>4, <1>7
<1>11. raw * band * free * less * near \in Nat
  BY <1>10, <1>5, <1>7
<1> QED
  BY <1>6, <1>11

LEMMA BidsAreNatural ==
  ASSUME NEW q, WellPosed(q), NEW s, HeldOK(q, s), NEW t \in DOMAIN q.tasks
  PROVE  Bid(q, s, t) \in Nat
<1> DEFINE n == Len(Mine(q, s))
<1>1. n \in Nat /\ n <= 3
  BY DEF HeldOK, Mine, WellPosed, MaxBundle
<1> HIDE DEF n
<1>2. n \in 0..MaxBundle
  BY <1>1 DEF MaxBundle
<1> QED
  BY <1>2, ScoresAreNatural DEF Bid, n

\* The same question with one drone available.
Alone(q) == [q EXCEPT !.available = 1]

LEMMA AloneIsPosed ==
  ASSUME NEW q, WellPosed(q)
  PROVE  /\ WellPosed(Alone(q))
         /\ Alone(q).tasks = q.tasks /\ Alone(q).drones = q.drones /\ Alone(q).me = q.me
         /\ Alone(q).load = q.load /\ Alone(q).mode = q.mode
         /\ Alone(q).instance = q.instance /\ Alone(q).available = 1
<1>1. /\ DOMAIN q = {"tasks", "drones", "me", "available", "mode", "load", "instance"}
      /\ q = [g \in DOMAIN q |-> q[g]]
  BY DEF WellPosed
<1>2. /\ DOMAIN Alone(q) = DOMAIN q /\ Alone(q) = [g \in DOMAIN q |-> Alone(q)[g]]
      /\ Alone(q).tasks = q.tasks /\ Alone(q).drones = q.drones /\ Alone(q).me = q.me
      /\ Alone(q).load = q.load /\ Alone(q).mode = q.mode
      /\ Alone(q).instance = q.instance /\ Alone(q).available = 1
  BY <1>1 DEF Alone
<1>3. Alone(q) = [tasks |-> Alone(q).tasks, drones |-> Alone(q).drones, me |-> Alone(q).me,
                  available |-> Alone(q).available, mode |-> Alone(q).mode,
                  load |-> Alone(q).load, instance |-> Alone(q).instance]
  BY <1>1, <1>2
<1> HIDE DEF Alone
<1> QED
  BY <1>2, <1>3 DEF WellPosed

\* A drone alone scores a task as the others do, or not at all.
LEMMA AloneScoresLess ==
  ASSUME NEW q, WellPosed(q), NEW s, HeldOK(q, s), NEW t \in DOMAIN q.tasks
  PROVE  Bid(Alone(q), s, t) <= Bid(q, s, t)
<1> DEFINE k == q.tasks[t]
           b == Alone(q)
<1>0. q.available \in Nat /\ q.available >= 1
  BY DEF WellPosed
<1>1. /\ b.tasks = q.tasks /\ b.drones = q.drones /\ b.me = q.me /\ b.load = q.load
      /\ b.mode = q.mode /\ b.instance = q.instance /\ b.available = 1
  BY AloneIsPosed
<1>2. Mine(b, s) = Mine(q, s)
  BY <1>1 DEF Mine
<1> HIDE DEF b
<1>3. \A type, det : Permitted(type, det, b.available) => Permitted(type, det, q.available)
  BY <1>0, <1>1 DEF Permitted
<1>4. Barred(q, q.me, k) => Barred(b, q.me, k)
  BY <1>1, <1>3 DEF Barred
<1>5. Bid(q, s, t) \in Nat
  BY BidsAreNatural
<1>6. Bid(b, s, t) = 0 \/ Bid(b, s, t) = Bid(q, s, t)
  <2>1. CASE Barred(b, q.me, k)
    BY <1>1, <1>2, <2>1 DEF Bid, Score
  <2>2. CASE ~Barred(b, q.me, k)
    <3>1. RawScore(b, q.me, k) = RawScore(q, q.me, k)
      BY <1>1 DEF RawScore
    <3> QED
      BY <1>1, <1>2, <1>4, <2>2, <3>1 DEF Bid, Score
  <2> QED
    BY <2>1, <2>2
<1> QED
  BY <1>5, <1>6 DEF b

LEMMA StartHeld ==
  ASSUME NEW q, WellPosed(q)
  PROVE  HeldOK(q, Start(q)) /\ Mine(q, Start(q)) = <<>>
<1>1. q.me \in DOMAIN q.drones
  BY DEF WellPosed
<1>2. Mine(q, Start(q)) = <<>>
  BY <1>1 DEF Start, Mine
<1>3. ToSet(<<>>) = {} /\ IsInjective(<<>>)
  BY DEF ToSet, IsInjective
<1> QED
  BY <1>1, <1>2, <1>3 DEF HeldOK, Start, MaxBundle

LEMMA AddedHeld ==
  ASSUME NEW q, WellPosed(q), NEW s, HeldOK(q, s), NEW score \in Int,
         NEW t \in DOMAIN q.tasks \ ToSet(Mine(q, s)), Len(Mine(q, s)) < MaxBundle
  PROVE  /\ HeldOK(q, Added(q, s, t, score))
         /\ Mine(q, Added(q, s, t, score)) = Append(Mine(q, s), t)
<1> DEFINE b == Mine(q, s)
           c == Append(b, t)
           a == Added(q, s, t, score)
<1>1. /\ t \in DOMAIN q.tasks \ ToSet(b) /\ Len(b) < MaxBundle
      /\ q.me \in DOMAIN q.drones /\ b \in Seq(DOMAIN q.tasks)
  BY DEF HeldOK, Mine, WellPosed
<1>2. /\ c \in Seq(DOMAIN q.tasks) /\ Len(c) = Len(b) + 1
      /\ \A i \in 1..Len(b) : c[i] = b[i]
      /\ c[Len(b) + 1] = t /\ DOMAIN c = 1..Len(b) + 1 /\ DOMAIN b = 1..Len(b)
  BY <1>1
<1>3. ToSet(c) = ToSet(b) \cup {t}
  BY <1>1, <1>2 DEF ToSet
<1>4. IsInjective(c)
  BY <1>1, <1>2 DEF IsInjective, ToSet, HeldOK
<1>5. /\ a.bundles = [s.bundles EXCEPT ![q.me] = c]
      /\ a.bids = [s.bids EXCEPT ![t] = score]
      /\ a = [bundles |-> a.bundles, bids |-> a.bids, agents |-> a.agents,
              changed |-> a.changed]
  <2> DEFINE s1 == [s EXCEPT !.bundles[q.me] = c]
             s2 == [s1 EXCEPT !.bids[t] = score]
  <2>1. a = [s2 EXCEPT !.agents[t] = q.me]
    BY DEF Added, Mine
  <2>2. /\ DOMAIN s = {"bundles", "bids", "agents", "changed"}
        /\ s = [g \in DOMAIN s |-> s[g]]
    BY DEF HeldOK
  <2>3. /\ DOMAIN s1 = DOMAIN s /\ s1 = [g \in DOMAIN s |-> s1[g]]
        /\ s1.bundles = [s.bundles EXCEPT ![q.me] = c]
        /\ s1.bids = s.bids
    BY <2>2
  <2> HIDE DEF s1
  <2>4. /\ DOMAIN s2 = DOMAIN s /\ s2 = [g \in DOMAIN s |-> s2[g]]
        /\ s2.bundles = s1.bundles /\ s2.bids = [s.bids EXCEPT ![t] = score]
    BY <2>2, <2>3
  <2> HIDE DEF s2
  <2> QED
    BY <2>1, <2>2, <2>3, <2>4
<1>6. Mine(q, a) = c
  BY <1>1, <1>5 DEF Mine, HeldOK
<1> HIDE DEF a, c
<1> QED
  BY <1>1, <1>2, <1>3, <1>4, <1>5, <1>6 DEF HeldOK, Mine, MaxBundle, a, c

\* Nobody else holds a task, so that the phase settles nothing.
LEMMA NothingToSettle ==
  ASSUME NEW q, NEW s, HeldOK(q, s), NEW t
  PROVE  Settle(q, s, t) = s
<1> DEFINE claims == {d \in DOMAIN q.drones : t \in ToSet(s.bundles[d])}
<1>1. claims \in SUBSET {q.me}
  BY DEF HeldOK, ToSet
<1>2. claims = {} \/ claims = {q.me}
  BY <1>1
<1>3. Cardinality(claims) <= 1
  <2>1. Cardinality({}) = 0 /\ Cardinality({q.me}) = 1
    BY FS_EmptySet, FS_Singleton
  <2> HIDE DEF claims
  <2> QED
    BY <1>2, <2>1
<1> QED
  BY <1>3 DEF Settle

LEMMA ConsentHolds ==
  ASSUME NEW q, WellPosed(q), NEW s, HeldOK(q, s)
  PROVE  Consent(q, s) = [s EXCEPT !.changed = FALSE]
<1> DEFINE n == Len(q.tasks)
           s0 == [s EXCEPT !.changed = FALSE]
           g == [i \in 0..n |-> s0]
           IsAfter(f) == f = [i \in 0..n |-> IF i = 0 THEN s0 ELSE Settle(q, f[i - 1], i)]
           after == CHOOSE f : IsAfter(f)
<1>0. n \in Nat
  BY DEF WellPosed
<1>1. HeldOK(q, s0)
  <2>1. /\ s0 = [bundles |-> s0.bundles, bids |-> s0.bids, agents |-> s0.agents,
                 changed |-> s0.changed]
        /\ s0.bundles = s.bundles /\ s0.bids = s.bids
    <3>1. /\ DOMAIN s = {"bundles", "bids", "agents", "changed"}
          /\ s = [f \in DOMAIN s |-> s[f]]
      BY DEF HeldOK
    <3>2. /\ DOMAIN s0 = {"bundles", "bids", "agents", "changed"}
          /\ s0 = [f \in DOMAIN s0 |-> s0[f]]
      BY <3>1
    <3>3. s0.bundles = s.bundles /\ s0.bids = s.bids
      BY <3>1
    <3> HIDE DEF s0
    <3> QED
      BY <3>2, <3>3
  <2> HIDE DEF s0
  <2> QED
    BY <2>1 DEF HeldOK, Mine
<1>2. Consent(q, s) = after[n]
  BY DEF Consent
<1>3. \A t : Settle(q, s0, t) = s0
  BY <1>1, NothingToSettle
<1> HIDE DEF s0
<1>4. IsAfter(g)
  BY <1>0, <1>3
<1>5. IsAfter(after)
  BY <1>4
<1> HIDE DEF after
<1>6. after[0] = s0
  BY <1>0, <1>5
<1>7. \A i \in 1..n : after[i] = Settle(q, after[i - 1], i)
  BY <1>0, <1>5
<1> DEFINE Other == {i \in 0..n : after[i] # s0}
<1>8. ASSUME Other # {}  PROVE FALSE
  <2>1. PICK k \in Other : \A j \in Other : k <= j
    <3>1. Other \in SUBSET Nat
      OBVIOUS
    <3> HIDE DEF Other
    <3> QED BY <1>8, <3>1, LeastNatural
  <2>2. k \in 1..n /\ k - 1 \in 0..n
    BY <1>6, <2>1
  <2>3. after[k - 1] = s0
    BY <2>1, <2>2
  <2> QED
    BY <1>3, <1>7, <2>1, <2>2, <2>3
<1>9. after[n] = s0
  BY <1>0, <1>8
<1> QED
  BY <1>2, <1>9 DEF s0

-----------------------------------------------------------------------------
(* The rounds *)

\* What a score is compared with at the end: the question as it has been since the pass
\* began, for a drone alone if the number of drones has changed.
Asking == IF recounted THEN Alone(asked) ELSE asked

\* A pass of _bundle_phase: what was looked at scores no more than the best.
PassOK ==
  LET b == Mine(asked, held) IN
  /\ next \in 1..(Len(asked.tasks) + 1)
  /\ \/ best = 0 /\ top = -1
     \/ best \in DOMAIN asked.tasks \ ToSet(b) /\ top \in Nat
  /\ \A t \in 1..(next - 1) : t \notin ToSet(b) => best # 0 /\ Bid(Asking, held, t) <= top

\* Every round but the last ones adds a task, and a round that does not is followed by
\* one that does or is the last.
RoundsOK ==
  LET b == Mine(asked, held) IN
  /\ WellPosed(asked) /\ HeldOK(asked, held)
  /\ before \in Seq(DOMAIN asked.tasks) /\ (before = b \/ Len(before) < Len(b))
  /\ stable \in Nat /\ round \in Nat /\ ended \in BOOLEAN /\ recounted \in BOOLEAN
  /\ ~ended => stable <= 1 /\ round <= 2 * Len(before) + stable + 1
  /\ ~ended => PassOK
  /\ NothingLeftOut /\ EndsByItself

LEMMA TasksAreCounted ==
  ASSUME NEW q, WellPosed(q)
  PROVE  Len(q.tasks) \in Nat /\ DOMAIN q.tasks = 1..Len(q.tasks)
BY DEF WellPosed

LEMMA AskingScoresLess ==
  ASSUME RoundsOK, NEW t \in DOMAIN asked.tasks
  PROVE  /\ Bid(Asking, held, t) \in Nat /\ Bid(asked, held, t) \in Nat
         /\ Bid(Asking, held, t) <= Bid(asked, held, t)
<1>1. WellPosed(asked) /\ HeldOK(asked, held)
  BY DEF RoundsOK
<1>2. Bid(asked, held, t) \in Nat
  BY <1>1, BidsAreNatural
<1>3. CASE recounted
  <2>1. /\ WellPosed(Alone(asked)) /\ HeldOK(Alone(asked), held)
        /\ t \in DOMAIN Alone(asked).tasks
    BY <1>1, AloneIsPosed DEF HeldOK, Mine
  <2>2. Bid(Alone(asked), held, t) \in Nat
    BY <2>1, BidsAreNatural
  <2>3. Bid(Alone(asked), held, t) <= Bid(asked, held, t)
    BY <1>1, AloneScoresLess
  <2> QED
    BY <1>2, <1>3, <2>2, <2>3 DEF Asking
<1>4. CASE ~recounted
  BY <1>2, <1>4 DEF Asking
<1> QED
  BY <1>3, <1>4

LEMMA AskingIsTheQuestion ==
  ASSUME WellPosed(asked), recounted \in BOOLEAN
  PROVE  [asked EXCEPT !.available = IF recounted THEN 1 ELSE @] = Asking
<1>1. asked = [g \in DOMAIN asked |-> asked[g]]
  BY DEF WellPosed
<1>2. CASE recounted
  BY <1>2 DEF Asking, Alone
<1>3. CASE ~recounted
  BY <1>1, <1>3 DEF Asking
<1> QED
  BY <1>2, <1>3

LEMMA RoundsBegin == TaskingInit => RoundsOK
<1> SUFFICES ASSUME TaskingInit  PROVE RoundsOK
  OBVIOUS
<1>1. WellPosed(asked) /\ HeldOK(asked, held) /\ Mine(asked, held) = <<>>
  BY TaskingAssumption, StartHeld DEF TaskingInit
<1>2. /\ before = <<>> /\ stable = 0 /\ round = 1 /\ ended = FALSE
      /\ next = 1 /\ best = 0 /\ top = -1 /\ recounted = FALSE
  BY DEF TaskingInit
<1>3. NothingLeftOut /\ EndsByItself
  BY <1>2 DEF NothingLeftOut, EndsByItself, MaxBundle, Convergence
<1>4. before \in Seq(DOMAIN asked.tasks) /\ Len(before) = 0 /\ before = Mine(asked, held)
  BY <1>1, <1>2
<1>5. stable <= 1 /\ round <= 2 * Len(before) + stable + 1
  BY <1>2, <1>4
<1>6. stable \in Nat /\ round \in Nat /\ ended \in BOOLEAN /\ recounted \in BOOLEAN
  BY <1>2
<1>7. PassOK
  BY <1>1, <1>2, TasksAreCounted DEF PassOK
<1> QED
  BY <1>1, <1>3, <1>4, <1>5, <1>6, <1>7 DEF RoundsOK

LEMMA LooksGoOn == RoundsOK /\ Look => RoundsOK'
<1> SUFFICES ASSUME RoundsOK, Look  PROVE RoundsOK'
  OBVIOUS
<1> DEFINE b == Mine(asked, held)
           n == Len(asked.tasks)
<1>1. /\ UNCHANGED <<asked, held, before, stable, round, ended, recounted>>
      /\ ~ended /\ next' = next + 1 /\ next <= n
      /\ IF Beats(asked, held, next, top)
         THEN best' = next /\ top' = Bid(asked, held, next)
         ELSE UNCHANGED <<best, top>>
  BY DEF Look
<1>2. n \in Nat /\ DOMAIN asked.tasks = 1..n /\ next \in 1..n /\ PassOK
  BY <1>1, TasksAreCounted DEF RoundsOK, PassOK
<1>3. \A t \in 1..n : /\ Bid(Asking, held, t) \in Nat /\ Bid(asked, held, t) \in Nat
                      /\ Bid(Asking, held, t) <= Bid(asked, held, t)
  BY <1>2, AskingScoresLess
<1>4. Asking' = Asking /\ UNCHANGED <<asked, held>>
  BY <1>1 DEF Asking
<1>5. next \notin ToSet(b) => held.bids[next] = -1
  BY <1>2 DEF RoundsOK, HeldOK
<1>6. PassOK'
  <2> DEFINE B(t) == Bid(asked, held, t)
             A(t) == Bid(Asking, held, t)
  <2>1. /\ \/ best = 0 /\ top = -1
           \/ best \in DOMAIN asked.tasks \ ToSet(b) /\ top \in Nat
        /\ \A t \in 1..(next - 1) : t \notin ToSet(b) => best # 0 /\ A(t) <= top
    BY <1>2 DEF PassOK
  <2>2. \A t \in 1..n : A(t) \in Nat /\ B(t) \in Nat /\ A(t) <= B(t)
    BY <1>3
  <2>3. /\ next' \in 1..(n + 1)
        /\ \/ best' = 0 /\ top' = -1
           \/ best' \in DOMAIN asked.tasks \ ToSet(b) /\ top' \in Nat
        /\ \A t \in 1..next : t \notin ToSet(b) => best' # 0 /\ A(t) <= top'
    <3>1. next' \in 1..(n + 1)
      BY <1>1, <1>2
    <3>2. CASE Beats(asked, held, next, top)
      <4>1. next \notin ToSet(b) /\ B(next) > top /\ best' = next /\ top' = B(next)
        BY <1>1, <3>2 DEF Beats
      <4> HIDE DEF A, B, b, n
      <4>2. \A t \in 1..(next - 1) : t \notin ToSet(b) => A(t) <= top'
        BY <1>2, <2>1, <2>2, <4>1
      <4> QED
        BY <1>2, <2>2, <3>1, <4>1, <4>2
    <3>3. CASE ~Beats(asked, held, next, top)
      <4>1. /\ UNCHANGED <<best, top>>
            /\ next \in ToSet(b) \/ ~(B(next) > held.bids[next]) \/ ~(B(next) > top)
        BY <1>1, <3>3 DEF Beats
      <4> HIDE DEF A, B, b, n
      <4>2. next \notin ToSet(b) => best # 0 /\ A(next) <= top
        BY <1>2, <1>5, <2>1, <2>2, <4>1
      <4>3. \A t \in 1..next : t \notin ToSet(b) => best' # 0 /\ A(t) <= top'
        <5>1. \A t \in 1..next : t = next \/ t \in 1..(next - 1)
          BY <1>2
        <5> QED
          BY <2>1, <4>1, <4>2, <5>1
      <4> QED
        BY <2>1, <3>1, <4>1, <4>3
    <3> QED
      BY <3>2, <3>3
  <2>4. next' - 1 = next
    BY <1>1, <1>2
  <2> QED
    BY <1>4, <2>3, <2>4 DEF PassOK
<1>7. NothingLeftOut' /\ EndsByItself'
  BY <1>1 DEF NothingLeftOut, EndsByItself, RoundsOK
<1> QED
  BY <1>1, <1>6, <1>7 DEF RoundsOK

LEMMA NewPassOK ==
  ASSUME NewPass, WellPosed(asked), UNCHANGED asked
  PROVE  PassOK'
BY TasksAreCounted DEF NewPass, PassOK

LEMMA AdditionsGoOn == RoundsOK /\ Add => RoundsOK'
<1> SUFFICES ASSUME RoundsOK, Add  PROVE RoundsOK'
  OBVIOUS
<1> DEFINE b == Mine(asked, held)
<1>1. /\ UNCHANGED <<asked, before, stable, round, ended>> /\ ~ended /\ NewPass
      /\ best # 0 /\ held' = Added(asked, held, best, top) /\ Len(b) < MaxBundle
  BY DEF Add, Found, HasRoom
<1>2. best \in DOMAIN asked.tasks \ ToSet(b) /\ top \in Int
  BY <1>1 DEF RoundsOK, PassOK
<1>3. HeldOK(asked, held') /\ Mine(asked, held') = Append(b, best)
  BY <1>1, <1>2, AddedHeld DEF RoundsOK
<1>4. Len(Append(b, best)) = Len(b) + 1 /\ Len(b) \in Nat
  BY DEF RoundsOK, HeldOK, Mine, WellPosed
<1>5. NothingLeftOut' /\ EndsByItself'
  BY <1>1 DEF NothingLeftOut, EndsByItself, RoundsOK
<1>6. Len(before) < Len(Mine(asked, held'))
  <2>1. before = b \/ Len(before) < Len(b)
    BY DEF RoundsOK
  <2>2. Len(before) \in Nat
    BY DEF RoundsOK
  <2> QED
    BY <1>3, <1>4, <2>1, <2>2
<1>7. PassOK' /\ recounted' \in BOOLEAN
  BY <1>1, NewPassOK DEF RoundsOK, NewPass
<1> QED
  BY <1>1, <1>3, <1>5, <1>6, <1>7 DEF RoundsOK

LEMMA EndsGoOn == RoundsOK /\ EndRound => RoundsOK'
<1> SUFFICES ASSUME RoundsOK, EndRound  PROVE RoundsOK'
  OBVIOUS
<1> DEFINE b == Mine(asked, held)
<1>1. /\ ~ended /\ UNCHANGED asked
      /\ Len(b) < MaxBundle => next > Len(asked.tasks) /\ ~Found
      /\ stable' = IF ~held'.changed /\ Mine(asked, held') = before THEN stable + 1 ELSE 0
      /\ ended' = (Converged(stable') \/ round = MaxRounds)
      /\ before' = Mine(asked, held')
      /\ round' = IF ended' THEN round ELSE round + 1
      /\ IF ended' THEN UNCHANGED pass ELSE NewPass
  BY DEF EndRound, HasRoom
<1>2. held' = [held EXCEPT !.changed = FALSE]
  BY ConsentHolds DEF EndRound, RoundsOK
<1>3. /\ held'.changed = FALSE /\ held'.bundles = held.bundles /\ held'.bids = held.bids
      /\ held' = [bundles |-> held'.bundles, bids |-> held'.bids, agents |-> held'.agents,
                  changed |-> held'.changed]
  <2>1. /\ DOMAIN held = {"bundles", "bids", "agents", "changed"}
        /\ held = [g \in DOMAIN held |-> held[g]]
    BY DEF RoundsOK, HeldOK
  <2>2. /\ DOMAIN held' = {"bundles", "bids", "agents", "changed"}
        /\ held' = [g \in DOMAIN held' |-> held'[g]]
    BY <1>2, <2>1
  <2>3. held'.changed = FALSE /\ held'.bundles = held.bundles /\ held'.bids = held.bids
    BY <1>2, <2>1
  <2> QED
    BY <2>2, <2>3
<1>4. HeldOK(asked, held') /\ Mine(asked, held') = b
  BY <1>3 DEF RoundsOK, HeldOK, Mine
<1>5. before' = b /\ b \in Seq(DOMAIN asked.tasks) /\ Len(b) \in Nat /\ Len(b) <= 3
  BY <1>1, <1>4 DEF RoundsOK, HeldOK, Mine, WellPosed, MaxBundle
<1>6. /\ stable' \in Nat /\ round' \in Nat /\ ended' \in BOOLEAN /\ round <= 8
      /\ ~ended' => stable' <= 1 /\ round' <= 2 * Len(b) + stable' + 1
  <2> DEFINE m == Len(b)
             k == Len(before)
  <2>1. /\ stable \in Nat /\ round \in Nat /\ stable <= 1 /\ round <= 2 * k + stable + 1
        /\ k \in Nat /\ (before = b \/ k < m)
    BY <1>1 DEF RoundsOK
  <2>2. before = b => k = m
    OBVIOUS
  <2>3. m \in Nat /\ m <= 3
    BY <1>5
  <2> HIDE DEF m, k
  <2>4. stable' \in {0, stable + 1} /\ (stable' = 0 => before # b)
    BY <1>1, <1>3, <1>4, <2>1
  <2>5. ~ended' => stable' <= 1
    <3> SUFFICES ASSUME ~ended'  PROVE stable' <= 1
      OBVIOUS
    <3>1. ~Converged(stable')
      BY <1>1
    <3>2. ~(stable' >= 2)
      BY <3>1 DEF Converged, Convergence
    <3> QED
      BY <2>1, <2>4, <3>2
  <2>6. round <= 8 /\ (~ended' => round' <= 2 * m + stable' + 1)
    <3>1. CASE before = b
      BY <1>1, <2>1, <2>2, <2>3, <2>4, <3>1
    <3>2. CASE before # b
      BY <1>1, <2>1, <2>3, <2>4, <3>2
    <3> QED
      BY <3>1, <3>2
  <2>7. ended' \in BOOLEAN
    BY <1>1
  <2> QED
    BY <1>1, <2>1, <2>4, <2>5, <2>6, <2>7 DEF m
<1>7. EndsByItself'
  BY <1>1, <1>5, <1>6 DEF EndsByItself, MaxBundle, Convergence
<1>8. NothingLeftOut'
  <2>1. Len(b) <= MaxBundle /\ IsInjective(b)
    BY DEF RoundsOK, HeldOK
  <2>2. ASSUME Len(b) < MaxBundle, NEW t \in DOMAIN asked.tasks \ ToSet(b)
        PROVE  Bid(Asking, held', t) = 0
    <3>1. PassOK /\ next > Len(asked.tasks) /\ ~Found
      BY <1>1, <2>2 DEF RoundsOK
    <3>2. t \in 1..(next - 1)
      BY <2>2, <3>1, TasksAreCounted DEF RoundsOK, PassOK
    <3>3. best # 0 /\ top \in Nat /\ Bid(Asking, held, t) <= top
      BY <2>2, <3>1, <3>2 DEF PassOK
    <3>4. Bid(Asking, held, t) = 0
      BY <3>1, <3>3, AskingScoresLess DEF Found
    <3>5. Mine(Asking, held') = Mine(Asking, held)
      BY <1>3 DEF Mine
    <3> QED
      BY <3>4, <3>5 DEF Bid
  <2>3. [asked EXCEPT !.available = IF recounted THEN 1 ELSE @] = Asking
    BY AskingIsTheQuestion DEF RoundsOK
  <2>4. ended' => UNCHANGED <<asked, recounted>>
    BY <1>1 DEF pass
  <2> SUFFICES ASSUME ended'  PROVE NothingLeftOut'
    BY DEF NothingLeftOut
  <2>5. [asked' EXCEPT !.available = IF recounted' THEN 1 ELSE @] = Asking
    BY <2>3, <2>4
  <2> QED
    BY <1>4, <2>1, <2>2, <2>4, <2>5 DEF NothingLeftOut
<1>9. recounted' \in BOOLEAN /\ (~ended' => PassOK')
  BY <1>1, NewPassOK DEF RoundsOK, NewPass, pass
<1> QED
  BY <1>1, <1>4, <1>5, <1>6, <1>7, <1>8, <1>9 DEF RoundsOK

LEMMA CountsGoOn ==
  ASSUME RoundsOK, NEW count \in Counts, SetAvailable(count)
  PROVE  RoundsOK'
<1> DEFINE b == Mine(asked, held)
           n == IF count < 1 THEN 1 ELSE count
<1>1. /\ ~ended /\ asked' = [asked EXCEPT !.available = n]
      /\ UNCHANGED <<held, before, stable, round, ended, next, best, top>>
      /\ recounted' = (recounted \/ next > 1) /\ n \in Nat \ {0}
  BY TaskingAssumption DEF SetAvailable
<1>2. /\ asked'.tasks = asked.tasks /\ asked'.drones = asked.drones /\ asked'.me = asked.me
      /\ asked'.load = asked.load /\ asked'.available = n
      /\ asked' = [tasks |-> asked'.tasks, drones |-> asked'.drones, me |-> asked'.me,
                   available |-> asked'.available, mode |-> asked'.mode,
                   load |-> asked'.load, instance |-> asked'.instance]
  <2>1. /\ DOMAIN asked = {"tasks", "drones", "me", "available", "mode", "load", "instance"}
        /\ asked = [g \in DOMAIN asked |-> asked[g]]
    BY DEF RoundsOK, WellPosed
  <2>2. /\ DOMAIN asked' = DOMAIN asked /\ asked' = [g \in DOMAIN asked' |-> asked'[g]]
    BY <1>1, <2>1
  <2>3. /\ asked'.tasks = asked.tasks /\ asked'.drones = asked.drones /\ asked'.me = asked.me
        /\ asked'.load = asked.load /\ asked'.available = n
    BY <1>1, <2>1
  <2> QED
    BY <2>1, <2>2, <2>3
<1>3. WellPosed(asked')
  BY <1>1, <1>2 DEF RoundsOK, WellPosed
<1>4. HeldOK(asked', held) /\ Mine(asked', held) = b
  BY <1>2 DEF RoundsOK, HeldOK, Mine
<1>5. NothingLeftOut' /\ EndsByItself'
  BY <1>1 DEF NothingLeftOut, EndsByItself, RoundsOK
<1>6. PassOK'
  <2>1. PassOK /\ recounted \in BOOLEAN
    BY <1>1 DEF RoundsOK
  <2>2. ASSUME next > 1, NEW t \in 1..(next - 1), t \notin ToSet(b)
        PROVE  best # 0 /\ Bid(Asking', held, t) <= top
    <3>1. Asking' = Alone(asked)
      <4>1. asked = [g \in DOMAIN asked |-> asked[g]]
        BY DEF RoundsOK, WellPosed
      <4>2. Alone(asked') = Alone(asked)
        BY <1>1, <4>1 DEF Alone
      <4> QED
        BY <1>1, <2>2, <4>2 DEF Asking
    <3>2. best # 0 /\ Bid(Asking, held, t) <= top /\ top \in Nat
      BY <2>1, <2>2 DEF PassOK
    <3>3. t \in DOMAIN asked.tasks
      BY <2>1, <2>2, TasksAreCounted DEF RoundsOK, PassOK
    <3>4. CASE recounted
      BY <3>1, <3>2, <3>4 DEF Asking
    <3>5. CASE ~recounted
      <4>1. Bid(Alone(asked), held, t) <= Bid(asked, held, t) /\ Bid(asked, held, t) \in Nat
        BY <3>3, AloneScoresLess, BidsAreNatural DEF RoundsOK
      <4>2. Bid(Alone(asked), held, t) \in Nat
        BY <3>3, AloneIsPosed, BidsAreNatural DEF RoundsOK, HeldOK, Mine
      <4>3. Bid(asked, held, t) <= top
        BY <3>2, <3>5 DEF Asking
      <4> QED
        BY <3>1, <3>2, <4>1, <4>2, <4>3
    <3> QED
      BY <2>1, <3>4, <3>5
  <2>3. next \in 1..(Len(asked.tasks) + 1)
    BY <2>1 DEF PassOK
  <2>4. ASSUME NEW t \in 1..(next - 1), t \notin ToSet(b)
        PROVE  best # 0 /\ Bid(Asking', held, t) <= top
    <3>1. next > 1
      BY <2>3, <2>4, TasksAreCounted DEF RoundsOK
    <3> QED
      BY <2>2, <2>4, <3>1
  <2> QED
    BY <1>1, <1>2, <1>4, <2>1, <2>4 DEF PassOK
<1> QED
  BY <1>1, <1>2, <1>3, <1>4, <1>5, <1>6 DEF RoundsOK

LEMMA RoundsGoOn == RoundsOK /\ [TaskingNext]_taskingVars => RoundsOK'
<1> SUFFICES ASSUME RoundsOK, [TaskingNext]_taskingVars  PROVE RoundsOK'
  OBVIOUS
<1>1. CASE UNCHANGED allocation
  BY <1>1 DEF allocation, pass, RoundsOK, PassOK, Asking, NothingLeftOut, EndsByItself
<1> QED
  BY <1>1, LooksGoOn, AdditionsGoOn, EndsGoOn, CountsGoOn
     DEF TaskingNext, ScoreTask, taskingVars, allocation


\* The bundle run_allocation returns has no task twice and not more than its size, and
\* leaves no task out that scores while there is room (run_allocation, _bundle_phase).
THEOREM BundlesAreFull == TaskingSpec => []NothingLeftOut
<1>1. RoundsOK => NothingLeftOut
  BY DEF RoundsOK
<1> QED
  BY <1>1, RoundsBegin, RoundsGoOn, PTL DEF TaskingSpec

\* The rounds end long before their limit, because nothing changes any more
\* (run_allocation, _consensus_phase).
THEOREM RoundsEnd == TaskingSpec => []EndsByItself
<1>1. RoundsOK => EndsByItself
  BY DEF RoundsOK
<1> QED
  BY <1>1, RoundsBegin, RoundsGoOn, PTL DEF TaskingSpec
=============================================================================
