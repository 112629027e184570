------------------------------- MODULE AIGoal -------------------------------
(***************************************************************************)
(* Goal mode: one goal of AIGoalService (services/ai_goal_service.go).     *)
(* RunGoal drives the goal in a loop of rounds (plan, execute, account,    *)
(* checkpoint, evaluate) on the goroutine of its binding call, and takes   *)
(* the goal's mutex only around each access to its fields.  Meanwhile the  *)
(* user pauses, resumes, aborts, makes checkpoints and rolls back from     *)
(* either window.  A RUN is one call of RunGoal or ResumeGoal; nothing     *)
(* stops a second run from starting while the first one is inside a round. *)
(* Goals share nothing but the service's active pointer, which no          *)
(* transition reads, so one goal is modelled.                              *)
(***************************************************************************)
EXTENDS Integers, Sequences, FiniteSets

CONSTANTS
  Runs,                \* the calls of RunGoal and ResumeGoal (bound)
  MaxIterations,       \* Goal.MaxIterations
  MaxCost,             \* Goal.MaxCost, in cents
  RoundCost,           \* the most one round may cost, in cents (bound)
  CheckpointInterval,  \* defaultCheckpointInterval
  MaxErrors,           \* maxConsecutiveErrors
  MaxMarks             \* manual checkpoints and rollbacks of the user (bound)

ASSUME GoalAssumption ==
  /\ IsFiniteSet(Runs)
  /\ MaxIterations \in Nat \ {0}
  /\ MaxCost \in Nat \ {0}
  /\ RoundCost \in Nat
  /\ CheckpointInterval \in Nat \ {0}
  /\ MaxErrors \in Nat \ {0}
  /\ MaxMarks \in Nat

VARIABLES
  status,       \* Goal.Status
  iteration,    \* Goal.Iteration
  cost,         \* Goal.TotalCost
  errs,         \* Goal.consecutiveErrs
  checkpoints,  \* Goal.Checkpoints
  expired,      \* MaxDuration has passed since Goal.StartedAt
  marks,        \* how many manual checkpoints and rollbacks there were
  pc,           \* per run: where its goroutine is
  stranded      \* history: a refused ResumeGoal left the goal running

goalVars == <<status, iteration, cost, errs, checkpoints>>
vars == <<goalVars, expired, marks, pc, stranded>>

-----------------------------------------------------------------------------
Statuses == {"created", "running", "paused", "completed", "aborted", "failed"}

(* A run:
     unused     it was not called
     resuming   ResumeGoal has set the status and is about to call RunGoal
     check      it is at the head of the loop
     round      the executor plans and executes
     executed   the round is accounted for
     mark       it is about to append an automatic checkpoint
     evaluate   the executor evaluates
     returned   the loop has ended
     refused    ResumeGoal returned the error of RunGoal                     *)
InLoop(r) == pc[r] \in {"check", "round", "executed", "mark", "evaluate"}

\* A run that drives the goal, or is about to.
Drives(r) == InLoop(r) \/ pc[r] = "resuming"

Checkpoints == [iteration : 0..MaxIterations, cost : Nat]

Init ==
  /\ status = "created"
  /\ iteration = 0
  /\ cost = 0
  /\ errs = 0
  /\ checkpoints = <<>>
  /\ expired = FALSE
  /\ marks = 0
  /\ pc = [r \in Runs |-> "unused"]
  /\ stranded = FALSE

Goto(r, l) == pc' = [pc EXCEPT ![r] = l]

-----------------------------------------------------------------------------
(* The entry of RunGoal and ResumeGoal.                                    *)

Runnable == status \in {"created", "paused"}

\* RunGoal, called by the user.  A refused call changes nothing.
RunGoal(r) ==
  /\ pc[r] = "unused"
  /\ Runnable
  /\ status' = "running"
  /\ Goto(r, "check")
  /\ UNCHANGED <<iteration, cost, errs, checkpoints, expired, marks, stranded>>

\* ResumeGoal makes the goal running, and leaves the rest to RunGoal.
ResumeGoal(r) ==
  /\ pc[r] = "unused"
  /\ status = "paused"
  /\ status' = "running"
  /\ Goto(r, "resuming")
  /\ UNCHANGED <<iteration, cost, errs, checkpoints, expired, marks, stranded>>

\* RunGoal, called by ResumeGoal: it wants a goal that does not run.
ResumeRuns(r) ==
  /\ pc[r] = "resuming"
  /\ IF Runnable
     THEN status' = "running" /\ Goto(r, "check") /\ UNCHANGED stranded
     ELSE /\ Goto(r, "refused")
          /\ stranded' = (status = "running" /\ \A q \in Runs \ {r} : ~Drives(q))
          /\ UNCHANGED status
  /\ UNCHANGED <<iteration, cost, errs, checkpoints, expired, marks>>

-----------------------------------------------------------------------------
(* The loop.                                                               *)

\* Mutant: one more round than MaxIterations allows.
LimitReachedLate ==
  \/ iteration > MaxIterations
  \/ cost >= MaxCost
  \/ expired
  \/ errs >= MaxErrors

\* Mutant: the budget is not a limit.
LimitWithoutBudget ==
  \/ iteration >= MaxIterations
  \/ expired
  \/ errs >= MaxErrors

LimitReached ==
  \/ iteration >= MaxIterations
  \/ cost >= MaxCost
  \/ expired
  \/ errs >= MaxErrors

\* Mutant: a loop waits out a pause, and returns only from a finished goal.
LoopWaitsOutPause(r) ==
  /\ pc[r] = "check"
  /\ status \in {"completed", "aborted", "failed"}
  /\ Goto(r, "returned")
  /\ UNCHANGED <<goalVars, expired, marks, stranded>>

\* The goal was paused, aborted or finished meanwhile.
LoopStops(r) ==
  /\ pc[r] = "check"
  /\ status # "running"
  /\ Goto(r, "returned")
  /\ UNCHANGED <<goalVars, expired, marks, stranded>>

\* One of the limits ends the goal.
LoopFails(r) ==
  /\ pc[r] = "check"
  /\ status = "running"
  /\ LimitReached
  /\ status' = "failed"
  /\ stranded' = FALSE
  /\ Goto(r, "returned")
  /\ UNCHANGED <<iteration, cost, errs, checkpoints, expired, marks>>

RoundBegins(r) ==
  /\ pc[r] = "check"
  /\ status = "running"
  /\ ~LimitReached
  /\ iteration' = iteration + 1
  /\ Goto(r, "round")
  /\ UNCHANGED <<status, cost, errs, checkpoints, expired, marks, stranded>>

\* executor.Plan or executor.Execute returned an error.
RoundErrs(r) ==
  /\ pc[r] = "round"
  /\ errs' = errs + 1
  /\ Goto(r, "check")
  /\ UNCHANGED <<status, iteration, cost, checkpoints, expired, marks, stranded>>

\* Both succeeded, and the round cost c.
RoundExecuted(r, c) ==
  /\ pc[r] = "round"
  /\ cost' = cost + c
  /\ errs' = 0
  /\ Goto(r, "executed")
  /\ UNCHANGED <<status, iteration, checkpoints, expired, marks, stranded>>

\* The loop reads the iteration without the mutex to decide on a checkpoint.
DecideCheckpoint(r) ==
  /\ pc[r] = "executed"
  /\ Goto(r, IF iteration % CheckpointInterval = 0 THEN "mark" ELSE "evaluate")
  /\ UNCHANGED <<goalVars, expired, marks, stranded>>

\* createCheckpoint
NewCheckpoint == [iteration |-> iteration, cost |-> cost]
MakeCheckpoint == checkpoints' = Append(checkpoints, NewCheckpoint)

AutoCheckpoint(r) ==
  /\ pc[r] = "mark"
  /\ MakeCheckpoint
  /\ Goto(r, "evaluate")
  /\ UNCHANGED <<status, iteration, cost, errs, expired, marks, stranded>>

\* executor.Evaluate returned an error, or not achieved.
NotAchieved(r) ==
  /\ pc[r] = "evaluate"
  /\ Goto(r, "check")
  /\ UNCHANGED <<goalVars, expired, marks, stranded>>

\* Mutant: the loop returns without finishing the goal.
AchievedSilently(r) ==
  /\ pc[r] = "evaluate"
  /\ Goto(r, "returned")
  /\ UNCHANGED <<goalVars, expired, marks, stranded>>

\* executor.Evaluate returned achieved: the status is set whatever it is now.
Achieved(r) ==
  /\ pc[r] = "evaluate"
  /\ status' = "completed"
  /\ stranded' = FALSE
  /\ Goto(r, "returned")
  /\ UNCHANGED <<iteration, cost, errs, checkpoints, expired, marks>>

-----------------------------------------------------------------------------
(* The user and the clock.                                                 *)

PauseGoal ==
  /\ status = "running"
  /\ status' = "paused"
  /\ stranded' = FALSE
  /\ UNCHANGED <<iteration, cost, errs, checkpoints, expired, marks, pc>>

AbortGoal ==
  /\ status' = "aborted"
  /\ stranded' = FALSE
  /\ UNCHANGED <<iteration, cost, errs, checkpoints, expired, marks, pc>>

CreateCheckpoint ==
  /\ marks < MaxMarks
  /\ marks' = marks + 1
  /\ MakeCheckpoint
  /\ UNCHANGED <<status, iteration, cost, errs, expired, pc, stranded>>

\* Mutant: a rollback keeps the later checkpoints.
KeptAll(i) == checkpoints

\* The checkpoints after the i-th are dropped.
Kept(i) == SubSeq(checkpoints, 1, i)

RollbackToCheckpoint(i) ==
  /\ marks < MaxMarks
  /\ marks' = marks + 1
  /\ iteration' = checkpoints[i].iteration
  /\ cost' = checkpoints[i].cost
  /\ status' = "paused"
  /\ checkpoints' = Kept(i)
  /\ errs' = 0
  /\ stranded' = FALSE
  /\ UNCHANGED <<expired, pc>>

\* StartedAt is set once, when the first loop begins.
Expire ==
  /\ ~expired
  /\ \E r \in Runs : InLoop(r) \/ pc[r] = "returned"
  /\ expired' = TRUE
  /\ UNCHANGED <<goalVars, marks, pc, stranded>>

-----------------------------------------------------------------------------
LoopStep(r) ==
  \/ LoopStops(r)
  \/ LoopFails(r)
  \/ RoundBegins(r)
  \/ RoundErrs(r)
  \/ \E c \in 0..RoundCost : RoundExecuted(r, c)
  \/ DecideCheckpoint(r)
  \/ AutoCheckpoint(r)
  \/ NotAchieved(r)
  \/ Achieved(r)

UserStep ==
  \/ \E r \in Runs : RunGoal(r) \/ ResumeGoal(r)
  \/ PauseGoal
  \/ AbortGoal
  \/ CreateCheckpoint
  \/ \E i \in 1..Len(checkpoints) : RollbackToCheckpoint(i)

Next ==
  \/ \E r \in Runs : ResumeRuns(r) \/ LoopStep(r)
  \/ UserStep
  \/ Expire

Spec == Init /\ [][Next]_vars

(* A goroutine that can run does, and the executor returns: it runs commands
   under a timeout.  Nothing makes the user act.                            *)
Fairness == \A r \in Runs : WF_vars(ResumeRuns(r) \/ LoopStep(r))

FairSpec == Spec /\ Fairness

-----------------------------------------------------------------------------
TypeOK ==
  /\ status \in Statuses
  /\ iteration \in 0..MaxIterations
  /\ cost \in Nat
  /\ errs \in Nat
  /\ checkpoints \in Seq(Checkpoints)
  /\ expired \in BOOLEAN
  /\ marks \in 0..MaxMarks
  /\ pc \in [Runs -> {"unused", "resuming", "check", "round", "executed",
                      "mark", "evaluate", "returned", "refused"}]
  /\ stranded \in BOOLEAN

(* The budget is checked between rounds and outside the run of any other
   loop, so it may be overspent, but by less than one round per run: a round
   begins only while some money is left.  Rollbacks, which restore an earlier
   total, do not break it.                                                  *)
BudgetBound == cost < MaxCost + RoundCost * Cardinality(Runs)

(* A goal that claims to be running is driven by a loop: a loop that sees a
   pause and returns never leaves behind a goal that another run made running
   again, whatever overlaps.  The one exception is exact: from the moment a
   ResumeGoal was refused by its own RunGoal, with no other run at work, until
   the goal stops claiming to run.                                          *)
RunningIsDriven == status = "running" => stranded \/ \E r \in Runs : Drives(r)

(* ResumeGoal: "re-enter the autonomous loop", whose RunGoal it calls; so a
   goal that it made running is driven like any other.                      *)
ResumedIsDriven == status = "running" => \E r \in Runs : Drives(r)

(* The checkpoints of a goal are a history: each is no later and no dearer
   than the next, and the last one is no later and no dearer than the goal
   itself, so that a rollback never moves a goal forward or makes it dearer,
   whatever loops and rollbacks overlap.                                    *)
CheckpointsAreHistory ==
  /\ \A i, j \in 1..Len(checkpoints) : i < j =>
       /\ checkpoints[i].iteration <= checkpoints[j].iteration
       /\ checkpoints[i].cost <= checkpoints[j].cost
  /\ \A i \in 1..Len(checkpoints) :
       /\ checkpoints[i].iteration <= iteration
       /\ checkpoints[i].cost <= cost

(* Every RunGoal returns: the limits end it, also when two loops share the
   goal's counters and when the user keeps pausing.                         *)
RunsReturn == \A r \in Runs : InLoop(r) ~> pc[r] = "returned"
=============================================================================
