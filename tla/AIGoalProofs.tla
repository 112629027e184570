---------------------------- MODULE AIGoalProofs ----------------------------
(***************************************************************************)
(* Theorems about AIGoal for any number of runs and any limits:            *)
(*   - its variables keep their types, the iteration its bound;            *)
(*   - the checkpoints stay an ordered history;                            *)
(*   - the budget is overspent by less than one round per run;             *)
(*   - only a refused ResumeGoal leaves a running goal without a loop.     *)
(* And about plan mode, AIPlan, for any steps and executions: see below.   *)
(***************************************************************************)
EXTENDS AIGoal, AIPlan, FiniteSetTheorems, TLAPS

-----------------------------------------------------------------------------
LEMMA TypeInit == Init => TypeOK
<1> SUFFICES ASSUME Init PROVE TypeOK
  OBVIOUS
<1>1. checkpoints \in Seq(Checkpoints)
  BY DEF Init
<1>2. iteration \in 0..MaxIterations /\ marks \in 0..MaxMarks
  BY GoalAssumption DEF Init
<1> QED
  BY <1>1, <1>2 DEF Init, TypeOK, Statuses

\* createCheckpoint appends a well-formed checkpoint.
LEMMA MakeCheckpointType ==
  ASSUME TypeOK, MakeCheckpoint
  PROVE  checkpoints' \in Seq(Checkpoints)
<1>1. NewCheckpoint \in Checkpoints
  BY DEF TypeOK, NewCheckpoint, Checkpoints
<1> QED
  BY <1>1 DEF TypeOK, MakeCheckpoint

\* What RollbackToCheckpoint keeps of the history.
LEMMA KeptPrefix ==
  ASSUME TypeOK, NEW i \in 1..Len(checkpoints)
  PROVE  /\ Kept(i) \in Seq(Checkpoints)
         /\ Len(Kept(i)) = i
         /\ \A j \in 1..i : Kept(i)[j] = checkpoints[j]
         /\ checkpoints[i] \in Checkpoints
BY DEF TypeOK, Kept

LEMMA TypeNext == TypeOK /\ [Next]_vars => TypeOK'
<1> SUFFICES ASSUME TypeOK, [Next]_vars PROVE TypeOK'
  OBVIOUS
<1> USE GoalAssumption DEF Statuses, Goto
<1>1. ASSUME NEW r \in Runs, RunGoal(r) \/ ResumeGoal(r) \/ ResumeRuns(r) PROVE TypeOK'
  BY <1>1 DEF TypeOK, RunGoal, ResumeGoal, ResumeRuns
<1>2. ASSUME NEW r \in Runs, LoopStops(r) \/ DecideCheckpoint(r) \/ NotAchieved(r)
      PROVE  TypeOK'
  BY <1>2 DEF TypeOK, LoopStops, DecideCheckpoint, NotAchieved, goalVars
<1>3. ASSUME NEW r \in Runs, LoopFails(r) \/ Achieved(r) \/ RoundErrs(r) PROVE TypeOK'
  <2>1. stranded' \in BOOLEAN
    BY <1>3 DEF TypeOK, LoopFails, Achieved, RoundErrs
  <2>2. QED
    BY <1>3, <2>1 DEF TypeOK, LoopFails, Achieved, RoundErrs
<1>4. ASSUME NEW r \in Runs, RoundBegins(r) PROVE TypeOK'
  BY <1>4 DEF TypeOK, RoundBegins, LimitReached
<1>5. ASSUME NEW r \in Runs, NEW c \in 0..RoundCost, RoundExecuted(r, c) PROVE TypeOK'
  BY <1>5 DEF TypeOK, RoundExecuted
<1>6. ASSUME NEW r \in Runs, AutoCheckpoint(r) PROVE TypeOK'
  BY <1>6, MakeCheckpointType DEF TypeOK, AutoCheckpoint
<1>7. CASE PauseGoal \/ AbortGoal
  BY <1>7 DEF TypeOK, PauseGoal, AbortGoal
<1>8. CASE CreateCheckpoint
  BY <1>8, MakeCheckpointType DEF TypeOK, CreateCheckpoint
<1>9. ASSUME NEW i \in 1..Len(checkpoints), RollbackToCheckpoint(i) PROVE TypeOK'
  <2>1. stranded' \in BOOLEAN
    BY <1>9 DEF RollbackToCheckpoint
  <2>2. QED
    BY <1>9, <2>1, KeptPrefix DEF TypeOK, RollbackToCheckpoint, Checkpoints
<1>10. CASE Expire
  BY <1>10 DEF TypeOK, Expire, goalVars
<1>11. CASE UNCHANGED vars
  BY <1>11 DEF TypeOK, vars, goalVars
<1> QED
  BY <1>1, <1>2, <1>3, <1>4, <1>5, <1>6, <1>7, <1>8, <1>9, <1>10, <1>11
     DEF Next, LoopStep, UserStep

(* Every field of the goal keeps its type; the iteration never passes
   MaxIterations, whatever loops share it and wherever rollbacks put it.    *)
THEOREM Typing == Spec => []TypeOK
BY TypeInit, TypeNext, PTL DEF Spec

-----------------------------------------------------------------------------
\* A checkpoint of the present keeps the history in order.
LEMMA HistoryExtends ==
  ASSUME TypeOK, CheckpointsAreHistory, MakeCheckpoint, UNCHANGED <<iteration, cost>>
  PROVE  CheckpointsAreHistory'
<1>1. /\ Len(checkpoints') = Len(checkpoints) + 1
      /\ Len(checkpoints) \in Nat
      /\ checkpoints'[Len(checkpoints) + 1] = NewCheckpoint
      /\ \A j \in 1..Len(checkpoints) : checkpoints'[j] = checkpoints[j]
  BY DEF TypeOK, MakeCheckpoint
<1>2. NewCheckpoint.iteration = iteration /\ NewCheckpoint.cost = cost
  BY DEF NewCheckpoint
<1>3. ASSUME NEW i \in 1..Len(checkpoints'), NEW j \in 1..Len(checkpoints'), i < j
      PROVE  /\ checkpoints'[i].iteration <= checkpoints'[j].iteration
             /\ checkpoints'[i].cost <= checkpoints'[j].cost
  <2>1. i \in 1..Len(checkpoints) /\ checkpoints'[i] = checkpoints[i]
    BY <1>1, <1>3
  <2>2. CASE j = Len(checkpoints) + 1
    BY <1>1, <1>2, <2>1, <2>2 DEF CheckpointsAreHistory
  <2>3. CASE j \in 1..Len(checkpoints)
    BY <1>1, <1>3, <2>1, <2>3 DEF CheckpointsAreHistory
  <2> QED
    BY <1>1, <2>2, <2>3
<1>4. ASSUME NEW i \in 1..Len(checkpoints')
      PROVE  checkpoints'[i].iteration <= iteration /\ checkpoints'[i].cost <= cost
  <2>1. CASE i = Len(checkpoints) + 1
    BY <1>1, <1>2, <2>1 DEF TypeOK
  <2>2. CASE i \in 1..Len(checkpoints)
    BY <1>1, <2>2 DEF CheckpointsAreHistory
  <2> QED
    BY <1>1, <2>1, <2>2
<1> QED
  BY <1>3, <1>4 DEF CheckpointsAreHistory

LEMMA HistoryNext ==
  TypeOK /\ CheckpointsAreHistory /\ [Next]_vars => CheckpointsAreHistory'
<1> SUFFICES ASSUME TypeOK, CheckpointsAreHistory, [Next]_vars
             PROVE  CheckpointsAreHistory'
  OBVIOUS
<1>1. \A i \in 1..Len(checkpoints) : checkpoints[i] \in Checkpoints
  BY DEF TypeOK
\* The goal only moves forward.
<1>a. ASSUME checkpoints' = checkpoints, iteration' \in Nat, cost' \in Nat,
             iteration' >= iteration, cost' >= cost
      PROVE  CheckpointsAreHistory'
  <2>1. ASSUME NEW i \in 1..Len(checkpoints)
        PROVE  checkpoints[i].iteration <= iteration' /\ checkpoints[i].cost <= cost'
    <3>1. checkpoints[i].iteration \in Nat /\ checkpoints[i].cost \in Nat
      BY <1>1 DEF Checkpoints
    <3>2. iteration \in Nat /\ cost \in Nat
      BY DEF TypeOK
    <3> QED  BY <1>a, <3>1, <3>2 DEF CheckpointsAreHistory
  <2> QED
    BY <1>a, <2>1 DEF CheckpointsAreHistory
<1>2. ASSUME NEW r \in Runs, RoundBegins(r) PROVE CheckpointsAreHistory'
  BY <1>2, <1>a DEF RoundBegins, TypeOK
<1>3. ASSUME NEW r \in Runs, NEW c \in 0..RoundCost, RoundExecuted(r, c)
      PROVE  CheckpointsAreHistory'
  BY <1>3, <1>a DEF RoundExecuted, TypeOK
<1>4. CASE \/ \E r \in Runs : \/ RunGoal(r) \/ ResumeGoal(r) \/ ResumeRuns(r)
                              \/ LoopStops(r) \/ LoopFails(r) \/ RoundErrs(r)
                              \/ DecideCheckpoint(r) \/ NotAchieved(r) \/ Achieved(r)
           \/ PauseGoal \/ AbortGoal \/ Expire \/ UNCHANGED vars
  <2>1. UNCHANGED <<iteration, cost, checkpoints>>
    BY <1>4 DEF RunGoal, ResumeGoal, ResumeRuns, LoopStops, LoopFails, RoundErrs,
                DecideCheckpoint, NotAchieved, Achieved, PauseGoal, AbortGoal,
                Expire, vars, goalVars
  <2> QED
    BY <2>1, <1>a DEF TypeOK
<1>5. ASSUME NEW r \in Runs, AutoCheckpoint(r) PROVE CheckpointsAreHistory'
  BY <1>5, HistoryExtends DEF AutoCheckpoint
<1>6. CASE CreateCheckpoint
  BY <1>6, HistoryExtends DEF CreateCheckpoint
<1>7. ASSUME NEW i \in 1..Len(checkpoints), RollbackToCheckpoint(i)
      PROVE  CheckpointsAreHistory'
  <2>1. /\ checkpoints' = Kept(i)
        /\ iteration' = checkpoints[i].iteration
        /\ cost' = checkpoints[i].cost
    BY <1>7 DEF RollbackToCheckpoint
  <2>2. /\ Len(checkpoints') = i
        /\ \A j \in 1..i : checkpoints'[j] = checkpoints[j]
    BY <2>1, KeptPrefix
  <2>3. i \in Nat /\ 1..i \subseteq 1..Len(checkpoints)
    BY DEF TypeOK
  <2>4. ASSUME NEW j \in 1..i
        PROVE  /\ checkpoints[j].iteration <= checkpoints[i].iteration
               /\ checkpoints[j].cost <= checkpoints[i].cost
    <3>1. CASE j < i
      BY <2>3, <3>1 DEF CheckpointsAreHistory
    <3>2. CASE j = i
      BY <1>1, <3>2 DEF Checkpoints
    <3> QED  BY <2>3, <3>1, <3>2
  <2> QED
    BY <2>1, <2>2, <2>3, <2>4 DEF CheckpointsAreHistory
<1> QED
  BY <1>2, <1>3, <1>4, <1>5, <1>6, <1>7 DEF Next, LoopStep, UserStep

(* Checkpoints, automatic or manual, of one loop or of several, form an
   ordered history that never runs ahead of the goal, and rollbacks keep it
   so: the goal never moves forward, or becomes dearer, by rolling back.    *)
THEOREM CheckpointHistory == Spec => []CheckpointsAreHistory
<1>1. Init => CheckpointsAreHistory
  BY DEF Init, CheckpointsAreHistory
<1> QED
  BY <1>1, HistoryNext, Typing, PTL DEF Spec

-----------------------------------------------------------------------------
(* The budget.  Each round in flight may still add RoundCost to the total. *)
InRound == {r \in Runs : pc[r] = "round"}

BudgetInv ==
  cost + RoundCost * Cardinality(InRound) < MaxCost + RoundCost * Cardinality(Runs)

LEMMA InRoundFinite ==
  /\ IsFiniteSet(InRound)
  /\ Cardinality(InRound) \in Nat
  /\ Cardinality(Runs) \in Nat
  /\ Cardinality(InRound) <= Cardinality(Runs)
<1>1. InRound \in SUBSET Runs
  BY DEF InRound
<1> QED
  BY <1>1, GoalAssumption, FS_Subset, FS_CardinalityType

LEMMA InRoundFinitePrime ==
  /\ Cardinality(InRound') \in Nat
  /\ Cardinality(InRound') <= Cardinality(Runs)
<1>1. InRound' \in SUBSET Runs
  BY DEF InRound
<1> QED
  BY <1>1, GoalAssumption, FS_Subset, FS_CardinalityType

LEMMA Products ==
  ASSUME NEW n \in Nat, NEW m \in Nat, NEW k \in Nat
  PROVE  /\ k * n \in Nat
         /\ n <= m => k * n <= k * m
         /\ n > 0 => k * (n - 1) = k * n - k
OBVIOUS

LEMMA BudgetNext ==
  TypeOK /\ CheckpointsAreHistory /\ BudgetInv /\ [Next]_vars => BudgetInv'
<1> SUFFICES ASSUME TypeOK, CheckpointsAreHistory, BudgetInv, [Next]_vars
             PROVE  BudgetInv'
  OBVIOUS
<1> DEFINE n == Cardinality(InRound)
           m == Cardinality(Runs)
<1>0. /\ n \in Nat /\ m \in Nat /\ n <= m
      /\ RoundCost \in Nat /\ MaxCost \in Nat /\ cost \in Nat
      /\ RoundCost * n \in Nat /\ RoundCost * m \in Nat
  BY InRoundFinite, GoalAssumption, Products DEF TypeOK
\* The rounds in flight stay the same, and nothing is spent.
<1>a. ASSUME InRound' = InRound, cost' \in Nat, cost' <= cost PROVE BudgetInv'
  BY <1>a, <1>0 DEF BudgetInv
\* A round leaves, and has spent at most RoundCost.
<1>b. ASSUME NEW r \in Runs, pc[r] = "round", InRound' = InRound \ {r},
             cost' \in Nat, cost' <= cost + RoundCost
      PROVE  BudgetInv'
  <2>1. Cardinality(InRound') = n - 1 /\ n > 0
    <3>1. r \in InRound
      BY <1>b DEF InRound
    <3>2. Cardinality(InRound \ {r}) = n - 1
      BY <3>1, InRoundFinite, FS_RemoveElement
    <3>3. n # 0
      BY <3>1, InRoundFinite, FS_EmptySet
    <3> QED  BY <1>b, <1>0, <3>2, <3>3
  <2>2. RoundCost * (n - 1) = RoundCost * n - RoundCost
    BY <1>0, <2>1, Products
  <2> QED
    BY <1>0, <1>b, <2>1, <2>2 DEF BudgetInv
<1>1. ASSUME NEW r \in Runs, RoundBegins(r) PROVE BudgetInv'
  <2>1. cost' = cost /\ cost < MaxCost
    BY <1>1, <1>0 DEF RoundBegins, LimitReached
  <2>2. RoundCost * Cardinality(InRound') <= RoundCost * m /\ RoundCost * Cardinality(InRound') \in Nat
    BY InRoundFinitePrime, <1>0, Products
  <2> QED
    BY <1>0, <2>1, <2>2 DEF BudgetInv
<1>2. ASSUME NEW r \in Runs, NEW c \in 0..RoundCost, RoundExecuted(r, c)
      PROVE  BudgetInv'
  <2>1. pc[r] = "round" /\ InRound' = InRound \ {r}
    BY <1>2 DEF RoundExecuted, InRound, Goto, TypeOK
  <2>2. cost' \in Nat /\ cost' <= cost + RoundCost
    BY <1>0, <1>2 DEF RoundExecuted
  <2> QED
    BY <1>b, <2>1, <2>2
<1>3. ASSUME NEW r \in Runs, RoundErrs(r) PROVE BudgetInv'
  <2>1. pc[r] = "round" /\ InRound' = InRound \ {r}
    BY <1>3 DEF RoundErrs, InRound, Goto, TypeOK
  <2> QED
    BY <1>0, <1>b, <1>3, <2>1 DEF RoundErrs
<1>4. CASE \E r \in Runs : \/ RunGoal(r) \/ ResumeGoal(r) \/ ResumeRuns(r)
                           \/ LoopStops(r) \/ LoopFails(r) \/ DecideCheckpoint(r)
                           \/ AutoCheckpoint(r) \/ NotAchieved(r) \/ Achieved(r)
  <2>1. InRound' = InRound
    BY <1>4 DEF RunGoal, ResumeGoal, ResumeRuns, LoopStops, LoopFails,
                DecideCheckpoint, AutoCheckpoint, NotAchieved, Achieved,
                InRound, Goto, TypeOK
  <2>2. cost' = cost
    BY <1>4 DEF RunGoal, ResumeGoal, ResumeRuns, LoopStops, LoopFails,
                DecideCheckpoint, AutoCheckpoint, NotAchieved, Achieved, goalVars
  <2> QED
    BY <1>0, <1>a, <2>1, <2>2
<1>5. CASE PauseGoal \/ AbortGoal \/ CreateCheckpoint \/ Expire \/ UNCHANGED vars
  <2>1. UNCHANGED <<pc, cost>>
    BY <1>5 DEF PauseGoal, AbortGoal, CreateCheckpoint, Expire, vars, goalVars
  <2>2. InRound' = InRound
    BY <2>1 DEF InRound
  <2> QED
    BY <1>0, <1>a, <2>1, <2>2
<1>6. ASSUME NEW i \in 1..Len(checkpoints), RollbackToCheckpoint(i) PROVE BudgetInv'
  <2>1. InRound' = InRound
    BY <1>6 DEF RollbackToCheckpoint, InRound
  <2>2. cost' \in Nat /\ cost' <= cost
    BY <1>6, KeptPrefix DEF RollbackToCheckpoint, CheckpointsAreHistory, Checkpoints
  <2> QED
    BY <1>a, <2>1, <2>2
<1> QED
  BY <1>1, <1>2, <1>3, <1>4, <1>5, <1>6 DEF Next, LoopStep, UserStep

(* MaxCost is checked only at the head of a loop, outside the rounds of other
   loops: the total passes it, but by less than one round per run, and no
   rollback makes more room than the history of the goal allows.            *)
THEOREM Budget == Spec => []BudgetBound
<1>1. Init => BudgetInv
  <2> SUFFICES ASSUME Init PROVE BudgetInv
    OBVIOUS
  <2>1. InRound = {}
    BY DEF Init, InRound
  <2>2. Cardinality(InRound) = 0 /\ Cardinality(Runs) \in Nat
    BY <2>1, FS_EmptySet, InRoundFinite
  <2>3. RoundCost * 0 = 0 /\ RoundCost * Cardinality(Runs) \in Nat
    BY <2>2, GoalAssumption, Products
  <2> QED
    BY <2>2, <2>3, GoalAssumption DEF Init, BudgetInv
<1>2. TypeOK /\ BudgetInv => BudgetBound
  <2> SUFFICES ASSUME TypeOK, BudgetInv PROVE BudgetBound
    OBVIOUS
  <2>1. /\ RoundCost * Cardinality(InRound) \in Nat
        /\ RoundCost * Cardinality(Runs) \in Nat
    BY InRoundFinite, GoalAssumption, Products
  <2> QED
    BY <2>1, GoalAssumption DEF TypeOK, BudgetInv, BudgetBound
<1> QED
  BY <1>1, <1>2, BudgetNext, CheckpointHistory, Typing, PTL DEF Spec

-----------------------------------------------------------------------------
LEMMA DrivenNext == TypeOK /\ RunningIsDriven /\ [Next]_vars => RunningIsDriven'
<1> SUFFICES ASSUME TypeOK, RunningIsDriven, [Next]_vars, status' = "running"
             PROVE  stranded' \/ \E r \in Runs : Drives(r)'
  BY DEF RunningIsDriven
<1> USE DEF TypeOK, Drives, InLoop, Goto
<1>1. ASSUME NEW r \in Runs, RunGoal(r) \/ ResumeGoal(r) PROVE Drives(r)'
  BY <1>1 DEF RunGoal, ResumeGoal
<1>2. ASSUME NEW r \in Runs, ResumeRuns(r)
      PROVE  stranded' \/ \E q \in Runs : Drives(q)'
  <2>1. CASE Runnable
    BY <1>2, <2>1 DEF ResumeRuns
  <2>2. ASSUME ~Runnable, NEW q \in Runs \ {r}, Drives(q) PROVE Drives(q)'
    BY <1>2, <2>2 DEF ResumeRuns
  <2>3. CASE ~Runnable /\ \A q \in Runs \ {r} : ~Drives(q)
    BY <1>2, <2>3 DEF ResumeRuns
  <2>4. QED
    BY <2>1, <2>2, <2>3
<1>3. ASSUME NEW r \in Runs, LoopStops(r) \/ LoopFails(r) \/ Achieved(r) PROVE FALSE
  BY <1>3 DEF LoopStops, LoopFails, Achieved, goalVars
<1>4. ASSUME NEW r \in Runs,
             \/ RoundBegins(r) \/ RoundErrs(r) \/ DecideCheckpoint(r)
             \/ AutoCheckpoint(r) \/ NotAchieved(r)
             \/ \E c \in 0..RoundCost : RoundExecuted(r, c)
      PROVE  Drives(r)'
  BY <1>4 DEF RoundBegins, RoundErrs, DecideCheckpoint, AutoCheckpoint,
              NotAchieved, RoundExecuted
<1>5. CASE PauseGoal \/ AbortGoal \/ \E i \in 1..Len(checkpoints) : RollbackToCheckpoint(i)
  BY <1>5 DEF PauseGoal, AbortGoal, RollbackToCheckpoint
<1>6. CASE CreateCheckpoint \/ Expire \/ UNCHANGED vars
  <2>1. pc' = pc /\ status = "running" /\ stranded' = stranded
    BY <1>6 DEF CreateCheckpoint, Expire, vars, goalVars
  <2> QED
    BY <2>1 DEF RunningIsDriven
<1> QED
  BY <1>1, <1>2, <1>3, <1>4, <1>5, <1>6 DEF Next, LoopStep, UserStep

(* Whoever makes a goal running drives it, however pauses, aborts, rollbacks
   and a second run interleave with a loop that is inside a round; only the
   refusal of a ResumeGoal by its own RunGoal strands it, until its status is
   changed again.                                                            *)
THEOREM Driven == Spec => []RunningIsDriven
<1>1. Init => RunningIsDriven
  BY DEF Init, RunningIsDriven
<1> QED
  BY <1>1, DrivenNext, Typing, PTL DEF Spec

-----------------------------------------------------------------------------
(* The plan of AIPlan, for plans of any length and any number of executions: an
   approved step runs once, a completed plan is settled, and completed work
   stays in the plan.                                                       *)


\* What the approvals, RejectAll, SkipStep and the executions do to a status.
LEMMA SetSteps ==
  ASSUME PlanTypeOK, NEW S, NEW st \in InPlan
  PROVE  /\ Set(S, st) \in [Steps -> InPlan \cup {"new", "dropped"}]
         /\ \A s \in Steps : Set(S, st)[s] = IF s \in S THEN st ELSE stepStatus[s]
BY DEF PlanTypeOK, Set

\* What the pointer of a call does: it sets one step or none.
LEMMA WrittenSteps ==
  ASSUME PlanTypeOK, NEW c \in Calls, NEW st \in {"completed", "failed"}
  PROVE  /\ Written(c, st) \in [Steps -> InPlan \cup {"new", "dropped"}]
         /\ \A s \in Steps :
              Written(c, st)[s] = IF stage[c] = "running" /\ s = target[c]
                                  THEN st ELSE stepStatus[s]
<1>1. st \in InPlan
  BY DEF InPlan
<1>2. CASE stage[c] = "running"
  BY <1>1, <1>2, SetSteps DEF Written
<1>3. CASE stage[c] # "running"
  BY <1>3 DEF Written, PlanTypeOK
<1>4. QED
  BY <1>2, <1>3

\* Where Replan takes a step.
LEMMA ReplannedSteps ==
  ASSUME PlanTypeOK, NEW N \in SUBSET Steps, N \subseteq In("new")
  PROVE  /\ Replanned(N) \in [Steps -> InPlan \cup {"new", "dropped"}]
         /\ \A s \in Steps :
              Replanned(N)[s] =
                IF s \in N THEN "pending"
                ELSE IF stepStatus[s] \in {"completed", "skipped", "new", "dropped"}
                     THEN stepStatus[s] ELSE "dropped"
<1>1. \A s \in Steps : Replanned(N)[s] =
        CASE s \in N -> "pending"
          [] s \in Planned \ (In("completed") \cup In("skipped")) -> "dropped"
          [] OTHER -> stepStatus[s]
  BY DEF Replanned
<1>2. ASSUME NEW s \in Steps, s \in N PROVE Replanned(N)[s] = "pending"
  <2>1. s \notin Planned
    BY <1>2 DEF In, Planned, InPlan
  <2>2. QED
    BY <1>1, <1>2, <2>1
<1>3. ASSUME NEW s \in Steps, s \notin N
      PROVE  Replanned(N)[s] = IF stepStatus[s] \in {"completed", "skipped", "new", "dropped"}
                               THEN stepStatus[s] ELSE "dropped"
  <2>1. stepStatus[s] \in InPlan \cup {"new", "dropped"}
    BY DEF PlanTypeOK
  <2>2. s \in Planned \ (In("completed") \cup In("skipped"))
          <=> stepStatus[s] \notin {"completed", "skipped", "new", "dropped"}
    BY <2>1 DEF Planned, In, InPlan
  <2>3. QED
    BY <1>1, <1>3, <2>2
<1>4. \A s \in Steps : Replanned(N)[s] \in InPlan \cup {"new", "dropped"}
  BY <1>2, <1>3 DEF InPlan, PlanTypeOK
<1>5. QED
  BY <1>2, <1>3, <1>4 DEF Replanned

-----------------------------------------------------------------------------
LEMMA PlanTypingStep == PlanTypeOK /\ [PlanNext]_planVars => PlanTypeOK'
<1> SUFFICES ASSUME PlanTypeOK, [PlanNext]_planVars
             PROVE  PlanTypeOK'
  OBVIOUS
<1>1. ASSUME NEW s \in Steps, ApproveStep(s) \/ SkipStep(s) PROVE PlanTypeOK'
  <2>1. stepStatus' \in [Steps -> InPlan \cup {"new", "dropped"}]
    BY <1>1, SetSteps DEF ApproveStep, SkipStep, InPlan
  <2>2. QED
    BY <1>1, <2>1 DEF PlanTypeOK, ApproveStep, SkipStep, PlanStatuses
<1>2. CASE ApproveAll \/ RejectAll
  <2>1. stepStatus' \in [Steps -> InPlan \cup {"new", "dropped"}]
    BY <1>2, SetSteps DEF ApproveAll, RejectAll, InPlan
  <2>2. QED
    BY <1>2, <2>1 DEF PlanTypeOK, ApproveAll, RejectAll
<1>3. ASSUME NEW c \in Calls, NEW s \in Steps, Execute(c, s) PROVE PlanTypeOK'
  <2>1. stepStatus' \in [Steps -> InPlan \cup {"new", "dropped"}]
    BY <1>3, SetSteps DEF Execute, InPlan
  <2>2. QED
    BY <1>3, <2>1 DEF PlanTypeOK, Execute, PlanStatuses
<1>4. ASSUME NEW N \in SUBSET Steps, Replan(N) PROVE PlanTypeOK'
  <2>1. stepStatus' \in [Steps -> InPlan \cup {"new", "dropped"}]
    BY <1>4, ReplannedSteps DEF Replan
  <2>2. QED
    BY <1>4, <2>1 DEF PlanTypeOK, Replan, PlanStatuses
<1>5. CASE AbortPlan
  BY <1>5 DEF PlanTypeOK, AbortPlan, PlanStatuses
<1>6. ASSUME NEW c \in Calls, ToolStep(c) PROVE PlanTypeOK'
  <2>1. stepStatus' \in [Steps -> InPlan \cup {"new", "dropped"}]
    BY <1>6, WrittenSteps DEF ToolStep, Succeed, Fail
  <2>2. QED
    BY <1>6, <2>1 DEF PlanTypeOK, ToolStep, Succeed, Fail, Returned, PlanStatuses
<1>7. CASE UNCHANGED planVars
  BY <1>7 DEF PlanTypeOK, planVars
<1>8. QED
  BY <1>1, <1>2, <1>3, <1>4, <1>5, <1>6, <1>7 DEF PlanNext, PlanUserStep

LEMMA PlanTypingInit == PlanInit => PlanTypeOK
BY DEF PlanInit, PlanTypeOK, PlanStatuses, InPlan

(* The statuses stay among those the code declares. *)
THEOREM PlanTyping == PlanSpec => []PlanTypeOK
BY PlanTypingInit, PlanTypingStep, PTL DEF PlanSpec

-----------------------------------------------------------------------------
(* What makes RunsOnce inductive: a step some call has executed is past its
   approval for good, whether it is in the plan or not.                     *)
Spent == {"executing", "completed", "failed", "skipped", "dropped"}
ExecutedIsSpent ==
  \A c \in Calls : target[c] # None => stepStatus[target[c]] \in Spent

\* No step of the system brings a spent step back.
LEMMA SpentStaysSpent ==
  ASSUME PlanTypeOK, [PlanNext]_planVars, NEW s \in Steps, stepStatus[s] \in Spent
  PROVE  stepStatus'[s] \in Spent
<1>1. ASSUME NEW t \in Steps, ApproveStep(t) \/ SkipStep(t) PROVE stepStatus'[s] \in Spent
  BY <1>1, SetSteps DEF ApproveStep, SkipStep, InPlan, Spent
<1>2. CASE ApproveAll \/ RejectAll
  BY <1>2, SetSteps DEF ApproveAll, RejectAll, In, InPlan, Spent
<1>3. ASSUME NEW c \in Calls, NEW t \in Steps, Execute(c, t) PROVE stepStatus'[s] \in Spent
  BY <1>3, SetSteps DEF Execute, InPlan, Spent
<1>4. ASSUME NEW N \in SUBSET Steps, Replan(N) PROVE stepStatus'[s] \in Spent
  <2>1. s \notin N
    BY <1>4 DEF Replan, In, Spent
  <2>2. QED
    BY <1>4, <2>1, ReplannedSteps DEF Replan, Spent
<1>5. ASSUME NEW c \in Calls, ToolStep(c) PROVE stepStatus'[s] \in Spent
  BY <1>5, WrittenSteps DEF ToolStep, Succeed, Fail, Spent
<1>6. CASE AbortPlan \/ UNCHANGED planVars
  BY <1>6 DEF AbortPlan, planVars
<1>7. QED
  BY <1>1, <1>2, <1>3, <1>4, <1>5, <1>6 DEF PlanNext, PlanUserStep

(* No step of a plan is handed to the executor by two calls. *)
THEOREM ApprovalIsForOneRun == PlanSpec => []RunsOnce
<1> DEFINE Inv == ExecutedIsSpent /\ RunsOnce
<1>1. PlanInit => Inv
  BY DEF PlanInit, ExecutedIsSpent, RunsOnce
<1>2. PlanTypeOK /\ PlanTypeOK' /\ Inv /\ [PlanNext]_planVars => Inv'
  <2> SUFFICES ASSUME PlanTypeOK, PlanTypeOK', Inv, [PlanNext]_planVars
               PROVE  Inv'
    OBVIOUS
  <2>1. CASE target' = target
    <3>1. ASSUME NEW c \in Calls, target[c] # None
          PROVE  stepStatus'[target[c]] \in Spent
      <4>1. target[c] \in Steps
        BY <3>1 DEF PlanTypeOK
      <4>2. stepStatus[target[c]] \in Spent
        BY <3>1 DEF ExecutedIsSpent
      <4>3. QED
        BY <4>1, <4>2, SpentStaysSpent
    <3>2. QED
      BY <2>1, <3>1 DEF ExecutedIsSpent, RunsOnce
  <2>2. ASSUME NEW c \in Calls, NEW s \in Steps, Execute(c, s)
        PROVE  Inv'
    <3>1. target' = [target EXCEPT ![c] = s] /\ stepStatus[s] = "approved"
      BY <2>2 DEF Execute
    <3>2. stepStatus'[s] = "executing"
      BY <2>2, SetSteps DEF Execute, InPlan
    <3>3. \A d \in Calls : target[d] # s
      BY <3>1, PlanAssumption DEF ExecutedIsSpent, Spent
    <3>4. ASSUME NEW d \in Calls, d # c, target[d] # None
          PROVE  stepStatus'[target[d]] \in Spent
      <4>1. target[d] \in Steps
        BY <3>4 DEF PlanTypeOK
      <4>2. stepStatus[target[d]] \in Spent
        BY <3>4 DEF ExecutedIsSpent
      <4>3. QED
        BY <4>1, <4>2, SpentStaysSpent
    <3>5. ExecutedIsSpent'
      BY <3>1, <3>2, <3>4 DEF ExecutedIsSpent, Spent, PlanTypeOK
    <3>6. RunsOnce'
      BY <3>1, <3>3 DEF RunsOnce, PlanTypeOK
    <3>7. QED
      BY <3>5, <3>6
  <2>3. QED
    BY <2>1, <2>2
    DEF PlanNext, PlanUserStep, ToolStep, ApproveStep, ApproveAll, RejectAll, SkipStep,
        Replan, AbortPlan, Succeed, Fail, Returned, planVars
<1>3. QED
  BY <1>1, <1>2, PlanTyping, PTL DEF PlanSpec

-----------------------------------------------------------------------------
(* Only a successful execution that finds every step finished completes the
   plan, and nothing that can happen to a finished plan unsettles it without
   taking the status back.                                                  *)
THEOREM Settled == PlanSpec => []CompletedIsSettled
<1>1. PlanInit => CompletedIsSettled
  BY DEF PlanInit, CompletedIsSettled
<1>2. PlanTypeOK /\ CompletedIsSettled /\ [PlanNext]_planVars => CompletedIsSettled'
  <2> SUFFICES ASSUME PlanTypeOK, CompletedIsSettled, [PlanNext]_planVars, plan' = "completed",
                      NEW s \in Steps, stepStatus'[s] \in InPlan
               PROVE  stepStatus'[s] \in {"completed", "skipped"}
    BY DEF CompletedIsSettled, Planned
  <2> USE DEF CompletedIsSettled, Planned, InPlan
  <2>1. ASSUME NEW t \in Steps, ApproveStep(t) \/ SkipStep(t)
        PROVE  stepStatus'[s] \in {"completed", "skipped"}
    BY <2>1, SetSteps DEF ApproveStep, SkipStep
  <2>2. CASE ApproveAll \/ RejectAll
    BY <2>2, SetSteps DEF ApproveAll, RejectAll, In
  <2>3. CASE (\E c \in Calls, t \in Steps : Execute(c, t)) \/ AbortPlan
             \/ (\E N \in SUBSET Steps : Replan(N))
    BY <2>3 DEF Execute, AbortPlan, Replan
  <2>4. ASSUME NEW c \in Calls, Succeed(c)
        PROVE  stepStatus'[s] \in {"completed", "skipped"}
    <3>1. CASE AllDone(stepStatus')
      BY <3>1 DEF AllDone
    <3>2. CASE ~AllDone(stepStatus')
      <4>1. plan = "completed"
        BY <2>4, <3>2 DEF Succeed
      <4>2. QED
        BY <2>4, <4>1, WrittenSteps DEF Succeed
    <3>3. QED
      BY <3>1, <3>2
  <2>5. ASSUME NEW c \in Calls, Fail(c) PROVE FALSE
    BY <2>5 DEF Fail
  <2>6. CASE UNCHANGED planVars
    BY <2>6 DEF planVars
  <2>7. QED
    BY <2>1, <2>2, <2>3, <2>4, <2>5, <2>6 DEF PlanNext, PlanUserStep, ToolStep
<1>3. QED
  BY <1>1, <1>2, PlanTyping, PTL DEF PlanSpec

-----------------------------------------------------------------------------
(* While a call's pointer leads into the plan its step is executing, or was
   skipped under it: a call that ends cannot have finished before.          *)
RunningIsLive ==
  \A c \in Calls :
    stage[c] = "running" =>
      target[c] \in Steps /\ stepStatus[target[c]] \in {"executing", "skipped"}

LEMMA Running == PlanSpec => []RunningIsLive
<1>1. PlanInit => RunningIsLive
  BY DEF PlanInit, RunningIsLive
<1>2. PlanTypeOK /\ RunsOnce /\ RunningIsLive /\ [PlanNext]_planVars => RunningIsLive'
  <2> SUFFICES ASSUME PlanTypeOK, RunsOnce, RunningIsLive, [PlanNext]_planVars,
                      NEW d \in Calls, stage'[d] = "running"
               PROVE  target'[d] \in Steps /\ stepStatus'[target'[d]] \in {"executing", "skipped"}
    BY DEF RunningIsLive
  <2> USE DEF PlanTypeOK, RunningIsLive
  <2>1. ASSUME NEW t \in Steps, ApproveStep(t) \/ SkipStep(t)
        PROVE  target'[d] \in Steps /\ stepStatus'[target'[d]] \in {"executing", "skipped"}
    BY <2>1, SetSteps DEF ApproveStep, SkipStep, InPlan
  <2>2. CASE ApproveAll \/ RejectAll
    BY <2>2, SetSteps DEF ApproveAll, RejectAll, In, InPlan
  <2>3. ASSUME NEW c \in Calls, NEW t \in Steps, Execute(c, t)
        PROVE  target'[d] \in Steps /\ stepStatus'[target'[d]] \in {"executing", "skipped"}
    <3>1. CASE d = c
      BY <2>3, <3>1, SetSteps DEF Execute, InPlan
    <3>2. CASE d # c
      <4>1. stage[d] = "running" /\ target'[d] = target[d]
        BY <2>3, <3>2 DEF Execute
      <4>2. target[d] # t
        BY <2>3, <4>1 DEF Execute
      <4>3. QED
        BY <2>3, <4>1, <4>2, SetSteps DEF Execute, InPlan
    <3>3. QED
      BY <3>1, <3>2
  <2>4. ASSUME NEW N \in SUBSET Steps, Replan(N) PROVE FALSE
    BY <2>4 DEF Replan
  <2>5. ASSUME NEW c \in Calls, ToolStep(c)
        PROVE  target'[d] \in Steps /\ stepStatus'[target'[d]] \in {"executing", "skipped"}
    <3>1. d # c /\ stage[d] = "running" /\ target' = target
      BY <2>5 DEF ToolStep, Succeed, Fail, Returned
    <3>2. target[d] \in Steps /\ target[d] # target[c]
      BY <3>1, PlanAssumption DEF RunsOnce
    <3>3. QED
      BY <2>5, <3>1, <3>2, WrittenSteps DEF ToolStep, Succeed, Fail
  <2>6. CASE AbortPlan \/ UNCHANGED planVars
    BY <2>6 DEF AbortPlan, planVars
  <2>7. QED
    BY <2>1, <2>2, <2>3, <2>4, <2>5, <2>6 DEF PlanNext, PlanUserStep
<1>3. QED
  BY <1>1, <1>2, PlanTyping, ApprovalIsForOneRun, PTL DEF PlanSpec

(* Completed work is only ever hidden by a skip. *)
THEOREM KeepsWork == PlanSpec => WorkIsKept
<1>1. PlanTypeOK /\ RunningIsLive /\ [PlanNext]_planVars
        => [\A s \in Steps : stepStatus[s] = "completed"
                              => stepStatus'[s] \in {"completed", "skipped"}]_planVars
  <2> SUFFICES ASSUME PlanTypeOK, RunningIsLive, [PlanNext]_planVars,
                      NEW s \in Steps, stepStatus[s] = "completed"
               PROVE  stepStatus'[s] \in {"completed", "skipped"}
    OBVIOUS
  <2>1. ASSUME NEW t \in Steps, ApproveStep(t) \/ SkipStep(t)
        PROVE  stepStatus'[s] \in {"completed", "skipped"}
    BY <2>1, SetSteps DEF ApproveStep, SkipStep, InPlan
  <2>2. CASE ApproveAll \/ RejectAll
    BY <2>2, SetSteps DEF ApproveAll, RejectAll, In, InPlan
  <2>3. ASSUME NEW c \in Calls, NEW t \in Steps, Execute(c, t)
        PROVE  stepStatus'[s] \in {"completed", "skipped"}
    BY <2>3, SetSteps DEF Execute, InPlan
  <2>4. ASSUME NEW N \in SUBSET Steps, Replan(N)
        PROVE  stepStatus'[s] \in {"completed", "skipped"}
    <3>1. s \notin N
      BY <2>4 DEF Replan, In
    <3>2. QED
      BY <2>4, <3>1, ReplannedSteps DEF Replan
  <2>5. ASSUME NEW c \in Calls, ToolStep(c)
        PROVE  stepStatus'[s] \in {"completed", "skipped"}
    <3>1. ~(stage[c] = "running" /\ s = target[c])
      BY DEF RunningIsLive
    <3>2. QED
      BY <2>5, <3>1, WrittenSteps DEF ToolStep, Succeed, Fail
  <2>6. CASE AbortPlan \/ UNCHANGED planVars
    BY <2>6 DEF AbortPlan, planVars
  <2>7. QED
    BY <2>1, <2>2, <2>3, <2>4, <2>5, <2>6 DEF PlanNext, PlanUserStep
<1>2. QED
  BY <1>1, PlanTyping, Running, PTL DEF PlanSpec, WorkIsKept
=============================================================================
