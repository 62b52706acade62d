------------------------------- MODULE Executor -------------------------------
(***************************************************************************)
(* olympus_brain/executor.py: a drone that carries out tasks.              *)
(*                                                                         *)
(* Two threads share its attributes, without a lock.  On the event loop    *)
(* the main loop reads self.state and awaits the handler of that state     *)
(* (pc), and at an await somebody may call assign_task (line); on a thread *)
(* of Zenoh run the commands (cmd).  An action is what a thread does up to *)
(* its next use of an attribute that the other one writes, as far as the   *)
(* other can tell.  An AttributeError on a task that is gone ends the      *)
(* handler: the loop, and the node, only log it.                           *)
(*                                                                         *)
(* A position is the place of a task, home, or somewhere else; altitudes   *)
(* are left out.  Nothing in the repository assigns _escalation_response,  *)
(* so a request only ever times out; the state BIDDING is never entered,   *)
(* nothing reads pending_bids (Tasking has what _on_task_received changes  *)
(* otherwise), and the battery can only make assign_task refuse, as a      *)
(* caller that does not call it does.                                      *)
(***************************************************************************)
EXTENDS Integers

CONSTANTS
  Tasks,         \* names of tasks
  NeedsApproval, \* those the escalation engine scores APPROVE_REQUIRED or EMERGENCY
  TimeoutActions, \* what an unanswered escalation may be set to do: "proceed", "abort"
  Commands,      \* the commands that may arrive
  Capacity,      \* payload_capacity
  Cost,          \* payload a task consumes
  NoTask, Home, Elsewhere

ASSUME ExecutorAssumption ==
  /\ NeedsApproval \subseteq Tasks
  /\ TimeoutActions \subseteq {"proceed", "abort"}
  /\ Commands \subseteq {"RECALL_FOR_UPDATE", "REDEPLOY"}
  /\ Capacity \in Nat \ {0}
  /\ Cost \in [Tasks -> Nat]
  /\ NoTask \notin Tasks
  /\ Home \notin Tasks /\ Elsewhere \notin Tasks \cup {Home}

VARIABLES
  timeoutAction, \* of the vertical the drone was started for
  state,    \* ExecutorState
  task,     \* current_task
  tstate,   \* the state of each task object
  esc,      \* the task of _pending_escalation
  recalled, \* _recalled
  payload,  \* payload_level
  place,    \* node.telemetry.position
  pc,       \* where the main loop is: a handler just selected, a step of it, an await
  local,    \* the task the running handler holds in a local variable
  given,    \* the task assign_task was called with, while it runs
  line,     \* what assign_task does next
  cmd,      \* what the handler of a command does next
  disturbed,  \* history: a command came since the drone last was idle and free
  overlapped  \* history: a recall met an assignment under way

loopVars == <<pc, local>>
callVars == <<given, line>>
history  == <<disturbed, overlapped>>
vars == <<timeoutAction, state, task, tstate, esc, recalled, payload, place,
          loopVars, callVars, cmd, history>>

States  == {"idle", "awaiting_approval", "transiting", "executing", "returning", "recalled"}
Steps   == {"giveUp", "timedOut", "depart", "begin", "finish", "settle"}
Awaits  == {"loop", "navigate", "descend", "work", "homeward", "refill"}
Lines   == {"none", "take", "mark", "move", "ask"}
Recalling == {"check", "cancel", "drop", "clear", "hold"}
Live    == {"assigned", "awaiting_approval"}
Places  == Tasks \cup {Home, Elsewhere}

TypeOK ==
  /\ timeoutAction \in TimeoutActions
  /\ state \in States
  /\ task \in Tasks \cup {NoTask}
  /\ tstate \in [Tasks -> Live \cup {"pending", "completed", "cancelled"}]
  /\ esc \in Tasks \cup {NoTask}
  /\ recalled \in BOOLEAN
  /\ payload \in 0 .. Capacity
  /\ place \in Places
  /\ pc \in States \cup Steps \cup Awaits
  /\ IF pc \in {"navigate", "descend", "work", "finish"} THEN local \in Tasks ELSE local = NoTask
  /\ given \in Tasks \cup {NoTask} /\ line \in Lines
  /\ line # "none" => given \in Tasks /\ pc \in Awaits
  /\ cmd \in Recalling \cup {"none", "resume"}
  /\ disturbed \in BOOLEAN /\ overlapped \in BOOLEAN

Init ==
  /\ timeoutAction \in TimeoutActions
  /\ state = "idle" /\ task = NoTask /\ esc = NoTask
  /\ tstate = [t \in Tasks |-> "pending"]
  /\ recalled = FALSE
  /\ payload = Capacity /\ place = Home
  /\ pc = "loop" /\ local = NoTask
  /\ given = NoTask /\ line = "none"
  /\ cmd = "none"
  /\ disturbed = FALSE /\ overlapped = FALSE

-----------------------------------------------------------------------------
(* assign_task, called on the event loop while the main loop awaits *)

Below(percent, level) == 100 * level < percent * Capacity

LowLevels == {p \in 0 .. Capacity : Below(20, p)}
HardlyAny == {p \in 0 .. Capacity : Below(10, p)}

Available == state = "idle" /\ 100 * payload > 5 * Capacity

\* A name that nothing refers to any more stands for a fresh task.
OutOfUse(t) == t \notin {task, esc, local}

\* Mutant of AcceptTask: is_available does not look at the state.
AcceptWhenever(t) ==
  /\ pc \in Awaits /\ line = "none"
  /\ 100 * payload > 5 * Capacity /\ OutOfUse(t)
  /\ given' = t /\ line' = "take"
  /\ UNCHANGED <<state, task, tstate, esc, recalled, payload, place, loopVars>>

AcceptTask(t) ==
  /\ pc \in Awaits /\ line = "none"
  /\ Available /\ OutOfUse(t)
  /\ given' = t /\ line' = "take"
  /\ UNCHANGED <<state, task, tstate, esc, recalled, payload, place, loopVars>>

TakeTask ==
  /\ line = "take"
  /\ task' = given
  /\ line' = "mark"
  /\ UNCHANGED <<state, tstate, esc, recalled, payload, place, loopVars, given>>

\* The ASSIGNED that is overwritten at once is left out.
MarkTask ==
  /\ line = "mark"
  /\ tstate' = [tstate EXCEPT ![given] =
                  IF given \in NeedsApproval THEN "awaiting_approval" ELSE "assigned"]
  /\ line' = "move"
  /\ UNCHANGED <<state, task, esc, recalled, payload, place, loopVars, given>>

\* Mutant of SetOff: the flight to the task is left out.
SetToWork ==
  /\ line = "move" /\ given \notin NeedsApproval
  /\ state' = "executing"
  /\ line' = "none" /\ given' = NoTask
  /\ UNCHANGED <<task, tstate, esc, recalled, payload, place, loopVars>>

SetOff ==
  /\ line = "move" /\ given \notin NeedsApproval
  /\ state' = "transiting"
  /\ line' = "none" /\ given' = NoTask
  /\ UNCHANGED <<task, tstate, esc, recalled, payload, place, loopVars>>

WaitForApproval ==
  /\ line = "move" /\ given \in NeedsApproval
  /\ state' = "awaiting_approval"
  /\ line' = "ask"
  /\ UNCHANGED <<task, tstate, esc, recalled, payload, place, loopVars, given>>

AskApproval ==
  /\ line = "ask"
  /\ esc' = given
  /\ line' = "none" /\ given' = NoTask
  /\ UNCHANGED <<state, task, tstate, recalled, payload, place, loopVars>>

AssignTask == TakeTask \/ MarkTask \/ SetOff \/ WaitForApproval \/ AskApproval

-----------------------------------------------------------------------------
(* The main loop *)

Dispatch ==
  /\ pc = "loop"
  /\ pc' = state
  /\ UNCHANGED <<state, task, tstate, esc, recalled, payload, place, local>>

HandleIdle ==
  /\ pc = "idle"
  /\ pc' = "loop"
  /\ state' = IF Below(10, payload) /\ place # Home THEN "returning" ELSE state
  /\ UNCHANGED <<task, tstate, esc, recalled, payload, place, local>>

HandleRecalled ==
  /\ pc = "recalled"
  /\ pc' = "loop"
  /\ UNCHANGED <<state, task, tstate, esc, recalled, payload, place, local>>

\* A handler that needs the current task finds none.
NothingToDo ==
  /\ \/ pc = "awaiting_approval" /\ (esc = NoTask \/ task = NoTask)
     \/ pc \in {"transiting", "executing"} /\ task = NoTask
  /\ pc' = "giveUp"
  /\ UNCHANGED <<state, task, tstate, esc, recalled, payload, place, local>>

GiveUp ==
  /\ pc = "giveUp"
  /\ state' = "idle" /\ pc' = "loop"
  /\ UNCHANGED <<task, tstate, esc, recalled, payload, place, local>>

KeepWaiting ==
  /\ pc = "awaiting_approval" /\ esc # NoTask /\ task # NoTask
  /\ pc' = "loop"
  /\ UNCHANGED <<state, task, tstate, esc, recalled, payload, place, local>>

ApprovalTimeout ==
  /\ pc = "awaiting_approval" /\ esc # NoTask /\ task # NoTask
  /\ esc' = NoTask
  /\ pc' = "timedOut"
  /\ UNCHANGED <<state, task, tstate, recalled, payload, place, local>>

Proceed ==
  /\ pc = "timedOut" /\ timeoutAction = "proceed"
  /\ state' = "transiting" /\ pc' = "loop"
  /\ UNCHANGED <<task, tstate, esc, recalled, payload, place, local>>

\* Mutant of Abort: the other action is taken.
ProceedAnyway ==
  /\ pc = "timedOut" /\ timeoutAction = "abort" /\ task # NoTask
  /\ state' = "transiting" /\ pc' = "loop"
  /\ UNCHANGED <<task, tstate, esc, recalled, payload, place, local>>

Abort ==
  /\ pc = "timedOut" /\ timeoutAction = "abort" /\ task # NoTask
  /\ tstate' = [tstate EXCEPT ![task] = "cancelled"]
  /\ task' = NoTask
  /\ pc' = "giveUp"
  /\ UNCHANGED <<state, esc, recalled, payload, place, local>>

HandleCurrentTask ==
  /\ pc \in {"transiting", "executing"} /\ task # NoTask
  /\ pc' = IF pc = "transiting" THEN "depart" ELSE "begin"
  /\ UNCHANGED <<state, task, tstate, esc, recalled, payload, place, local>>

Depart ==
  /\ pc = "depart" /\ task # NoTask
  /\ local' = task /\ pc' = "navigate"
  /\ UNCHANGED <<state, task, tstate, esc, recalled, payload, place>>

Begin ==
  /\ pc = "begin" /\ task # NoTask
  /\ local' = task /\ pc' = "work"
  /\ UNCHANGED <<state, task, tstate, esc, recalled, payload, place>>

\* The current task is gone since the handler looked.
Raise ==
  /\ task = NoTask
  /\ pc \in {"depart", "begin"} \/ (pc = "timedOut" /\ timeoutAction = "abort")
  /\ pc' = "loop"
  /\ UNCHANGED <<state, task, tstate, esc, recalled, payload, place, local>>

HandleReturning ==
  /\ pc = "returning"
  /\ pc' = "homeward"
  /\ UNCHANGED <<state, task, tstate, esc, recalled, payload, place, local>>

Destination == IF pc = "homeward" THEN Home ELSE local
NextLeg     == IF pc = "homeward" THEN "refill" ELSE "descend"

\* Mutants of Navigate: a recall is not looked at, the flight ends anywhere.
NavigateOnlyFlying ==
  /\ pc \in {"navigate", "homeward"} /\ ~recalled
  /\ \/ place' = Elsewhere /\ UNCHANGED pc
     \/ place' = Destination /\ pc' = NextLeg
  /\ UNCHANGED <<state, task, tstate, esc, recalled, payload, local>>

NavigateStopsShort ==
  /\ pc \in {"navigate", "homeward"}
  /\ \/ place' \in {Elsewhere, Destination} /\ UNCHANGED pc
     \/ pc' = NextLeg /\ UNCHANGED place
  /\ UNCHANGED <<state, task, tstate, esc, recalled, payload, local>>

\* One iteration of _navigate_to; the last one reaches the destination, and a
\* recall ends the flight where it is.
Navigate ==
  /\ pc \in {"navigate", "homeward"}
  /\ \/ ~recalled /\ place' = Elsewhere /\ UNCHANGED pc
     \/ ~recalled /\ place' = Destination /\ pc' = NextLeg
     \/ recalled /\ pc' = NextLeg /\ UNCHANGED place
  /\ UNCHANGED <<state, task, tstate, esc, recalled, payload, local>>

Descend ==
  /\ pc = "descend"
  /\ state' = "executing"
  /\ pc' = "loop" /\ local' = NoTask
  /\ UNCHANGED <<task, tstate, esc, recalled, payload, place>>

Left(t) == IF Cost[t] > payload THEN 0 ELSE payload - Cost[t]

Work ==
  /\ pc = "work"
  /\ payload' = Left(local)
  /\ tstate' = [tstate EXCEPT ![local] = "completed"]
  /\ pc' = "finish"
  /\ UNCHANGED <<state, task, esc, recalled, place, local>>

Finish ==
  /\ pc = "finish"
  /\ task' = NoTask
  /\ pc' = "settle" /\ local' = NoTask
  /\ UNCHANGED <<state, tstate, esc, recalled, payload, place>>

\* Mutant of WindUp: the drone goes on with an empty tank.
WindUpIdle ==
  /\ pc = "settle"
  /\ state' = "idle" /\ pc' = "loop"
  /\ UNCHANGED <<task, tstate, esc, recalled, payload, place, local>>

WindUp ==
  /\ pc = "settle"
  /\ state' = IF Below(20, payload) THEN "returning" ELSE "idle"
  /\ pc' = "loop"
  /\ UNCHANGED <<task, tstate, esc, recalled, payload, place, local>>

Refill ==
  /\ pc = "refill"
  /\ payload' = Capacity
  /\ state' = "idle"
  /\ pc' = "loop"
  /\ UNCHANGED <<task, tstate, esc, recalled, place, local>>

Loop ==
  /\ line = "none"
  /\ \/ Dispatch \/ HandleIdle \/ HandleRecalled \/ NothingToDo \/ GiveUp
     \/ KeepWaiting \/ ApprovalTimeout \/ Proceed \/ Abort
     \/ HandleCurrentTask \/ Depart \/ Begin \/ Raise
     \/ Descend \/ Work \/ Finish \/ WindUp
     \/ HandleReturning \/ Navigate \/ Refill

-----------------------------------------------------------------------------
(* The thread of the commands *)

Recall ==
  /\ "RECALL_FOR_UPDATE" \in Commands
  /\ cmd = "none"
  /\ recalled' = TRUE
  /\ cmd' = "check"
  /\ UNCHANGED <<state, task, tstate, esc, payload, place>>

CheckTask ==
  /\ cmd = "check"
  /\ cmd' = IF task = NoTask THEN "clear" ELSE "cancel"
  /\ UNCHANGED <<state, task, tstate, esc, recalled, payload, place>>

\* If the task is gone by now, the handler ends here, with the flag set.
CancelTask ==
  /\ cmd = "cancel"
  /\ tstate' = [t \in Tasks |-> IF t = task THEN "cancelled" ELSE tstate[t]]
  /\ cmd' = IF task = NoTask THEN "none" ELSE "drop"
  /\ UNCHANGED <<state, task, esc, recalled, payload, place>>

DropTask ==
  /\ cmd = "drop"
  /\ task' = NoTask
  /\ cmd' = "clear"
  /\ UNCHANGED <<state, tstate, esc, recalled, payload, place>>

\* Mutant of ClearRequest: the request for approval stays.
KeepRequest ==
  /\ cmd = "clear"
  /\ cmd' = "hold"
  /\ UNCHANGED <<state, task, tstate, esc, recalled, payload, place>>

ClearRequest ==
  /\ cmd = "clear"
  /\ esc' = NoTask
  /\ cmd' = "hold"
  /\ UNCHANGED <<state, task, tstate, recalled, payload, place>>

Hold ==
  /\ cmd = "hold"
  /\ state' = "recalled"
  /\ cmd' = "none"
  /\ UNCHANGED <<task, tstate, esc, recalled, payload, place>>

Redeploy ==
  /\ "REDEPLOY" \in Commands
  /\ cmd = "none" /\ recalled
  /\ recalled' = FALSE
  /\ cmd' = "resume"
  /\ UNCHANGED <<state, task, tstate, esc, payload, place>>

Resume ==
  /\ cmd = "resume"
  /\ state' = "idle"
  /\ cmd' = "none"
  /\ UNCHANGED <<task, tstate, esc, recalled, payload, place>>

Command == CheckTask \/ CancelTask \/ DropTask \/ ClearRequest \/ Hold \/ Resume

-----------------------------------------------------------------------------
\* The drone is idle with nothing in hand and no command is being handled.
AtRest ==
  /\ state = "idle" /\ pc = "loop" /\ line = "none" /\ cmd = "none"
  /\ ~recalled /\ task = NoTask /\ esc = NoTask

\* What the properties remember of the commands.
Remember ==
  /\ UNCHANGED timeoutAction
  /\ disturbed' = (cmd' # "none" \/ (disturbed /\ ~AtRest'))
  /\ overlapped' =
       IF cmd' \in Recalling
       THEN overlapped \/ line' # "none"
       ELSE overlapped /\ state' = "recalled"

LoopStep    == Loop /\ UNCHANGED <<callVars, cmd>> /\ Remember
AssignStep  == AssignTask /\ UNCHANGED cmd /\ Remember
CommandStep == Command /\ UNCHANGED <<loopVars, callVars>> /\ Remember

Next ==
  \/ LoopStep \/ AssignStep \/ CommandStep
  \/ \E t \in Tasks : AcceptTask(t) /\ UNCHANGED cmd /\ Remember
  \/ (Recall \/ Redeploy) /\ UNCHANGED <<loopVars, callVars>> /\ Remember

Spec == Init /\ [][Next]_vars

FlightEnds == Navigate /\ pc' # pc /\ LoopStep
TimeLimit  == ApprovalTimeout /\ LoopStep

\* The threads run, asyncio gives the main loop its turns between assignments, a flight
\* has a fixed number of steps, and the clock passes the time limit of an escalation.
FairSpec ==
  /\ Spec
  /\ SF_vars(LoopStep) /\ WF_vars(AssignStep) /\ WF_vars(CommandStep)
  /\ SF_vars(TimeLimit) /\ SF_vars(FlightEnds)

-----------------------------------------------------------------------------
(* Properties.  A command may interrupt anything, and what it interrupts   *)
(* may go on and do harm (see the README); what holds again once the drone *)
(* has come to rest is said of an undisturbed drone.                       *)

\* From rest to the next command, a task that needs approval and whose request runs
\* out with the action "abort" is neither flown to nor worked on
\* (_handle_awaiting_approval against whatever an earlier command left behind).
ApprovalRespected ==
  ~disturbed /\ timeoutAction = "abort" => local \notin NeedsApproval

\* From rest to the next command, the work of a task is done at its place, on the task
\* that is current, after the flight there (_handle_transiting, _handle_executing).
WorksAtTarget ==
  ~disturbed /\ pc = "work" => place = local /\ task = local

\* A drone held by a recall that no assignment overlapped has no task, waits
\* for no answer for nothing and knows that it is held (_handle_recall, whatever
\* handler of the main loop was running).
HeldWithoutTask ==
  state = "recalled" /\ cmd = "none" /\ ~overlapped =>
    recalled /\ task = NoTask /\ esc = NoTask

\* From rest to the next command, the payload is refilled at home and nowhere else
\* (_handle_returning); runs check it as a part of ServesTasks.
RefilledAtHome ==
  [][payload' > payload => disturbed \/ place = Home]_vars

\* Every task in hand ends, approved or not, unless a command comes (the main loop).
TaskEnds ==
  \A t \in Tasks :
    task = t /\ tstate[t] \in Live ~> tstate[t] \in {"completed", "cancelled"} \/ disturbed

\* A drone comes back for more when a task leaves its payload low, and when it is idle
\* away from home with hardly any (_handle_executing, _handle_idle, _handle_returning).
LowIsRefilled ==
  /\ pc = "settle" /\ payload \in LowLevels ~> payload = Capacity \/ disturbed
  /\ state = "idle" /\ payload \in HardlyAny /\ place # Home
       ~> payload = Capacity \/ disturbed

\* Whatever commands arrive, no handler keeps the main loop for ever.
LoopGoesOn ==
  []<>(pc = "loop")

\* escalation.py:4 says of tasks that they "require human approval"; no human ever
\* answers, so with the action "abort" no such task would be begun.  The code does not
\* keep this: a flight that a recall cut short makes the drone execute whatever task
\* has become current meanwhile (executor.py:389).
ApprovalRequired ==
  timeoutAction = "abort" => local \notin NeedsApproval

Server ==
  INSTANCE TaskServer WITH
    current <- IF line = "mark" \/ pc = "finish" THEN NoTask ELSE task,
    status <- tstate, at <- place, calm <- ~disturbed,
    Asks <- NeedsApproval, mayProceed <- timeoutAction = "proceed"

\* What the executor is for: from rest to the next command the drone serves one task after
\* the other, completes each at its place or cancels it unbegun, and refills at home
\* (every handler and assign_task).
ServesTasks == Server!Spec
===============================================================================
