--------------------------------- MODULE Tasking --------------------------------
(***************************************************************************)
(* What an executor decides about tasks: which of them to bid for          *)
(* (run_allocation) and whether to ask before it carries one out (score).  *)
(*                                                                         *)
(* run_allocation suspends after every round; the number of drones that    *)
(* are available is set by another thread (_on_task_received) at any       *)
(* moment, between the scores of two tasks too.                            *)
(***************************************************************************)
EXTENDS Allocation, Escalation

CONSTANTS
  Questions, \* what run_allocation may be called with
  Counts,    \* of the drones that _on_task_received finds available
  Requests,  \* what score may be called with
  Vertical   \* of the engine

VARIABLES
  asked,  \* the question; the field `available` is _available_drone_count
  held,   \* bundles, bids and agents of run_allocation
  before, \* prev_bundle
  stable, \* stable_rounds
  round,  \* counts the rounds
  ended,  \* run_allocation has returned
  next,   \* the task the pass over the tasks looks at next
  best,   \* best_task_id of this pass, 0 for None
  top,    \* best_score of this pass
  recounted, \* history: the number of drones has changed since this pass began
  seen    \* _seen_detection_types of the engine

pass        == <<next, best, top, recounted>>
allocation  == <<asked, held, before, stable, round, ended, pass>>
taskingVars == <<allocation, seen>>

\* What run_allocation is given: scores and levels are natural numbers.
WellPosed(q) ==
  /\ q = [tasks |-> q.tasks, drones |-> q.drones, me |-> q.me, available |-> q.available,
           mode |-> q.mode, load |-> q.load, instance |-> q.instance]
  /\ q.me \in DOMAIN q.drones
  /\ \A d \in DOMAIN q.drones : q.drones[d].battery \in Nat /\ q.drones[d].payload \in Nat
  /\ q.tasks \in Seq(ToSet(q.tasks))
  /\ \A t \in DOMAIN q.tasks : q.tasks[t].priority \in Nat /\ q.tasks[t].near[q.me] \in Nat
  /\ q.load \in 0..10 /\ q.available \in Nat \ {0}

ASSUME TaskingAssumption ==
  /\ Counts \subseteq Nat
  /\ \A q \in Questions : WellPosed(q)
  /\ Requests \subseteq [type : STRING, priority : Nat, seenAs : STRING, confidence : Nat,
                         committed : Nat, total : Nat, near : BOOLEAN]

TaskingInit ==
  /\ asked \in Questions
  /\ held = Start(asked)
  /\ before = <<>> /\ stable = 0 /\ round = 1 /\ ended = FALSE
  /\ next = 1 /\ best = 0 /\ top = -1 /\ recounted = FALSE
  /\ seen = {}

-----------------------------------------------------------------------------
(* run_allocation *)

NewPass == next' = 1 /\ best' = 0 /\ top' = -1 /\ recounted' = FALSE

\* The pass of _bundle_phase scores one task.
Look ==
  /\ ~ended /\ HasRoom(asked, held) /\ next <= Len(asked.tasks)
  /\ IF Beats(asked, held, next, top)
     THEN best' = next /\ top' = Bid(asked, held, next)
     ELSE UNCHANGED <<best, top>>
  /\ next' = next + 1
  /\ UNCHANGED <<asked, held, before, stable, round, ended, recounted, seen>>

Found == best # 0 /\ top > 0

Add ==
  /\ ~ended /\ HasRoom(asked, held) /\ next > Len(asked.tasks) /\ Found
  /\ held' = Added(asked, held, best, top)
  /\ NewPass
  /\ UNCHANGED <<asked, before, stable, round, ended, seen>>

\* Mutant of Converged: one quiet round more is waited for.
ConvergedLate(rounds) == rounds > Convergence

Converged(rounds) == rounds >= Convergence

\* The bundle phase adds nothing more; the rest of the round has no use for the number
\* of drones, as nobody else holds anything.
EndRound ==
  /\ ~ended
  /\ HasRoom(asked, held) => next > Len(asked.tasks) /\ ~Found
  /\ held' = Consent(asked, held)
  /\ stable' = IF ~held'.changed /\ Mine(asked, held') = before THEN stable + 1 ELSE 0
  /\ ended' = (Converged(stable') \/ round = MaxRounds)
  /\ before' = Mine(asked, held')
  /\ round' = IF ended' THEN round ELSE round + 1
  /\ IF ended' THEN UNCHANGED pass ELSE NewPass
  /\ UNCHANGED <<asked, seen>>

\* _on_task_received, set_available_drone_count
SetAvailable(count) ==
  /\ ~ended
  /\ asked' = [asked EXCEPT !.available = IF count < 1 THEN 1 ELSE count]
  /\ asked' # asked
  /\ recounted' = (recounted \/ next > 1)
  /\ UNCHANGED <<held, before, stable, round, ended, next, best, top, seen>>

-----------------------------------------------------------------------------
(* score *)

ScoreTask(req) ==
  /\ SeenAfter(Vertical, req, seen) # seen
  /\ seen' = SeenAfter(Vertical, req, seen)
  /\ UNCHANGED allocation

-----------------------------------------------------------------------------
TaskingNext ==
  \/ Look \/ Add \/ EndRound
  \/ \E count \in Counts : SetAvailable(count)
  \/ \E req \in Requests : ScoreTask(req)

TaskingSpec == TaskingInit /\ [][TaskingNext]_taskingVars

-----------------------------------------------------------------------------
(* Properties *)

\* However the number of drones changes meanwhile, between two scores of a pass too: the
\* bundle that is returned has no task twice and no more tasks than its size, and while
\* there is room, no task is left out that scores for the drones there are or, if they
\* have changed since the last pass began, for a drone alone (run_allocation, whose
\* rounds are to find exactly that).
NothingLeftOut ==
  LET b == Mine(asked, held)
      q == [asked EXCEPT !.available = IF recounted THEN 1 ELSE @]
  IN
  ended =>
    /\ Len(b) <= MaxBundle /\ IsInjective(b)
    /\ Len(b) < MaxBundle =>
         \A t \in DOMAIN asked.tasks \ ToSet(b) : Bid(q, held, t) = 0

\* The rounds end because nothing changes any more, long before their limit: a round
\* that adds nothing can only be followed by one that does while there is room.
EndsByItself == round <= 2 * MaxBundle + Convergence

Riskier(a) ==
  {[a EXCEPT !.priority = p] : p \in {r.priority : r \in Requests} \ 0..a.priority}
  \cup {[a EXCEPT !.confidence = c] : c \in {r.confidence : r \in Requests} \cap 0..a.confidence}
  \cup {[a EXCEPT !.committed = c] : c \in a.committed..a.total}
  \cup {[a EXCEPT !.near = TRUE]}

\* A request that is riskier in one respect is never scored lower, whatever the engine
\* has seen: priority, confidence, commitment and fence only ever add to the level
\* (score).
RiskNeverLowers ==
  \A a \in Requests : \A b \in Riskier(a) :
    Rank[Level(Vertical, a, seen)] <= Rank[Level(Vertical, b, seen)]

\* What the engine has scored before, which differs from drone to drone and is lost in
\* a restart, does not decide whether a human is asked; and a vertical does not let
\* pass what ATHENA would not be asked about (score, VERTICAL_THRESHOLDS).
AskingIsFixed ==
  \A req \in Requests :
    /\ Asks(Level(Vertical, req, seen)) <=> Asks(Level(Vertical, req, {}))
    /\ Asks(Level(Vertical, req, seen)) => Asks(Level("ATHENA", req, {}))
================================================================================
