------------------------------- MODULE AIPlan -------------------------------
(***************************************************************************)
(* Plan mode: one plan of AIPlanService (services/ai_plan_service.go).     *)
(* The user approves, edits, skips and executes steps from either window.  *)
(* ExecuteStep marks a step under the lock, runs its tool without it, and  *)
(* writes the result through the pointer it took at the start; meanwhile   *)
(* everything else may happen to the plan.  Replan builds a new slice, so  *)
(* the pointers of running executions lead out of the plan afterwards,     *)
(* also when a copy of their step stays in it.                             *)
(*                                                                         *)
(* The windows name a step by its index in the plan they saw last, which   *)
(* may belong to another step by now: any step may be the one they hit.    *)
(* So the order of the steps does not matter, and a step is an identity.   *)
(***************************************************************************)
EXTENDS Naturals

CONSTANTS
  Steps,   \* the steps that CreatePlan and Replan may bring in (bound)
  Calls,   \* the calls of ExecuteStep (bound)
  None     \* no step

ASSUME PlanAssumption == None \notin Steps

VARIABLES
  plan,        \* Plan.Status
  stepStatus,  \* per step: PlanStep.Status, or new or dropped when not in the plan
  stage,       \* per call: where ExecuteStep is
  target       \* per call: the step it executes

planVars == <<plan, stepStatus, stage, target>>

-----------------------------------------------------------------------------
PlanStatuses == {"pending", "executing", "paused", "completed", "aborted"}

InPlan == {"pending", "approved", "executing", "completed", "failed", "skipped"}

Planned == {s \in Steps : stepStatus[s] \in InPlan}
In(st)  == {s \in Steps : stepStatus[s] = st}

\* The statuses after all of S were set to st.
Set(S, st) == [s \in Steps |-> IF s \in S THEN st ELSE stepStatus[s]]

(* A call:
     unused    it was not made
     running   its tool runs, and its pointer leads to a step of the plan
     detached  its tool runs, and the plan was replaced under its pointer
     done      it has returned                                              *)

\* CreatePlan: any steps, in the status that the caller gives them.
PlanInit ==
  /\ plan = "pending"
  /\ stepStatus \in [Steps -> InPlan \cup {"new"}]
  /\ stage = [c \in Calls |-> "unused"]
  /\ target = [c \in Calls |-> None]

-----------------------------------------------------------------------------
(* The approval.  None of it looks at the status of the plan.              *)

\* ApproveStep, and EditStep, which also replaces what the step will do.
ApproveStep(s) ==
  /\ stepStatus[s] = "pending"
  /\ stepStatus' = Set({s}, "approved")
  /\ UNCHANGED <<plan, stage, target>>

ApproveAll ==
  /\ stepStatus' = Set(In("pending"), "approved")
  /\ UNCHANGED <<plan, stage, target>>

RejectAll ==
  /\ stepStatus' = Set(In("pending"), "skipped")
  /\ UNCHANGED <<plan, stage, target>>

-----------------------------------------------------------------------------
(* ExecuteStep.                                                            *)

Execute(c, s) ==
  /\ stage[c] = "unused"
  /\ stepStatus[s] = "approved"
  /\ stepStatus' = Set({s}, "executing")
  /\ plan' = "executing"
  /\ stage' = [stage EXCEPT ![c] = "running"]
  /\ target' = [target EXCEPT ![c] = s]

\* What the call's pointer does to the plan when it writes st.
Written(c, st) == IF stage[c] = "running" THEN Set({target[c]}, st) ELSE stepStatus

Returned(c) ==
  /\ stage[c] \in {"running", "detached"}
  /\ stage' = [stage EXCEPT ![c] = "done"]
  /\ UNCHANGED target

\* Mutant: a plan is done when nothing is left to run.
AllDoneButFailed(st) == \A s \in Steps : st[s] \notin {"pending", "approved", "executing"}

\* Whether every step of the plan is completed or skipped.
AllDone(st) == \A s \in Steps : st[s] \in InPlan => st[s] \in {"completed", "skipped"}

\* The tool succeeded.
Succeed(c) ==
  /\ Returned(c)
  /\ stepStatus' = Written(c, "completed")
  /\ plan' = IF AllDone(stepStatus') THEN "completed" ELSE plan

\* The tool failed, was refused by CheckCommand, or there is no executor.
Fail(c) ==
  /\ Returned(c)
  /\ stepStatus' = Written(c, "failed")
  /\ plan' = "paused"

-----------------------------------------------------------------------------
(* The way out of a pause, and the end.                                    *)

\* SkipStep, of a step in any status.
SkipStep(s) ==
  /\ s \in Planned
  /\ stepStatus' = Set({s}, "skipped")
  /\ plan' = IF plan = "paused" THEN "executing" ELSE plan
  /\ UNCHANGED <<stage, target>>

\* Mutant: the steps that stay are initialised like the new ones.
ReplannedFromScratch(N) ==
  [s \in Steps |->
     CASE s \in N \cup In("completed") \cup In("skipped") -> "pending"
       [] s \in Planned \ (In("completed") \cup In("skipped")) -> "dropped"
       [] OTHER -> stepStatus[s]]

\* Mutant: only what was skipped stays.
ReplannedWithoutCompleted(N) ==
  [s \in Steps |->
     CASE s \in N -> "pending"
       [] s \in Planned \ In("skipped") -> "dropped"
       [] OTHER -> stepStatus[s]]

\* What Replan makes of the steps: finished ones stay, N comes in.
Replanned(N) ==
  [s \in Steps |->
     CASE s \in N -> "pending"
       [] s \in Planned \ (In("completed") \cup In("skipped")) -> "dropped"
       [] OTHER -> stepStatus[s]]

Replan(N) ==
  /\ N \subseteq In("new")
  /\ stepStatus' = Replanned(N)
  /\ plan' = "pending"
  /\ stage' = [c \in Calls |-> IF stage[c] = "running" THEN "detached" ELSE stage[c]]
  /\ UNCHANGED target

AbortPlan ==
  /\ plan' = "aborted"
  /\ UNCHANGED <<stepStatus, stage, target>>

-----------------------------------------------------------------------------
PlanUserStep ==
  \/ \E s \in Steps : ApproveStep(s) \/ SkipStep(s)
  \/ ApproveAll
  \/ RejectAll
  \/ \E c \in Calls, s \in Steps : Execute(c, s)
  \/ \E N \in SUBSET Steps : Replan(N)
  \/ AbortPlan

ToolStep(c) == Succeed(c) \/ Fail(c)

PlanNext == PlanUserStep \/ \E c \in Calls : ToolStep(c)

PlanSpec == PlanInit /\ [][PlanNext]_planVars

-----------------------------------------------------------------------------
PlanTypeOK ==
  /\ plan \in PlanStatuses
  /\ stepStatus \in [Steps -> InPlan \cup {"new", "dropped"}]
  /\ stage \in [Calls -> {"unused", "running", "detached", "done"}]
  /\ target \in [Calls -> Steps \cup {None}]

(* An approval is good for one run of the tool: whatever is skipped, replanned
   or aborted while tools run, no step is handed to the executor twice.     *)
RunsOnce ==
  \A c, d \in Calls : c # d /\ target[c] # None => target[c] # target[d]

(* A plan that says completed has nothing left: each of its steps is completed
   or skipped, although steps of an old plan may finish in it, and although it
   can be skipped, approved and replanned after its completion.             *)
CompletedIsSettled ==
  plan = "completed" => \A s \in Planned : stepStatus[s] \in {"completed", "skipped"}

(* "Keep what is completed": work that was done never leaves the plan and is
   never put up for approval or execution again.  A skip may hide it.       *)
WorkIsKept ==
  [][\A s \in Steps : stepStatus[s] = "completed" => stepStatus'[s] \in {"completed", "skipped"}]_planVars
=============================================================================
