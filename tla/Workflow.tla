------------------------------ MODULE Workflow ------------------------------
(***************************************************************************)
(* Workflows as the windows run them (frontend/src/stores/workflows.ts):   *)
(* the order of the steps, their conditions, the run of a workflow in a    *)
(* terminal session, and the triggers: a saved file, or the completion of  *)
(* another workflow.                                                       *)
(*                                                                         *)
(* Every window has a store of its own and gets the events of all: a run   *)
(* belongs to a window and a workflow.  Whatever lies between two awaits   *)
(* is one step.  The text of a condition is abstracted to its tokens, a    *)
(* command to its exit code.                                               *)
(***************************************************************************)
EXTENDS Naturals, Sequences, SequencesExt

CONSTANTS
  Window,
  Workflow,
  Step,
  Definitions,      \* the .nknk/workflows a project may have, see TypeOK
  Holds(_, _),      \* evaluateCondition, see WorkflowConditions
  MaxChainDepth,    \* MAX_CHAIN_DEPTH
  MaxTurns,         \* steps of the search for an order (bound)
  MaxAct            \* runs and saves of the user (bound)

ASSUME WorkflowAssumption ==
  /\ MaxChainDepth \in Nat /\ MaxAct \in Nat /\ MaxTurns \in Nat
  /\ "loop" \notin Step
  /\ \A d \in Definitions : /\ d.steps \in [Workflow -> Seq(Step)]
                            /\ d.dependsOn \in [Step -> Seq(Step)]
  /\ "saved" \notin Workflow /\ "any" \notin Workflow /\ "never" \notin Workflow

VARIABLES
  def,     \* the definitions, as loadWorkflows left them
  run,     \* per window and workflow the latest run
  queue,   \* per window the events on their way to it
  acts
vars == <<def, run, queue, acts>>

Run == Window \X Workflow
Status == {"pending", "running", "success", "failed", "skipped"}

-----------------------------------------------------------------------------
(* The order of the steps                                                  *)

\* The calls of visit that are open, the innermost first, each with the steps it
\* has still to visit; the outermost is the loop over all steps.
StartSort(steps) ==
  [ok |-> TRUE, calls |-> <<[step |-> "loop", todo |-> steps]>>, result |-> <<>>]

\* What the innermost call does next: it returns, or it calls visit.
Return(st) == [st EXCEPT !.calls = Tail(@)]
Met(st) == [st EXCEPT !.calls[1].todo = Tail(@)]
Enter(d, st) == [st EXCEPT !.calls = <<[step |-> d, todo |-> def.dependsOn[d]]>> \o @]
Push(s, st) == [st EXCEPT !.result = Append(@, s)]
InProgress(d, st) == \E i \in DOMAIN st.calls : st.calls[i].step = d

\* Mutant: the step is pushed before its dependencies are visited.
VisitFirst(steps, st) ==
  LET s == st.calls[1].step
      todo == st.calls[1].todo
  IN CASE todo = <<>> -> Return(st)
       [] todo # <<>> /\ Head(todo) \in ToSet(st.result) -> Met(st)
       [] todo # <<>> /\ Head(todo) \in ToSet(steps) \ ToSet(st.result) ->
            Push(Head(todo), Enter(Head(todo), Met(st)))
       [] OTHER -> [st EXCEPT !.ok = FALSE]

\* A step in progress that is met again is a cycle; an unknown one is refused.
Visit(steps, st) ==
  LET s == st.calls[1].step
      todo == st.calls[1].todo
  IN CASE todo = <<>> /\ s = "loop" -> Return(st)
       [] todo = <<>> /\ s # "loop" -> Push(s, Return(st))
       [] todo # <<>> /\ Head(todo) \in ToSet(st.result) -> Met(st)
       [] todo # <<>> /\ Head(todo) \in ToSet(steps) \ ToSet(st.result) /\ ~InProgress(Head(todo), st) ->
            Enter(Head(todo), Met(st))
       [] OTHER -> [st EXCEPT !.ok = FALSE]

\* The search after n turns.  (Chosen from a set of one element: TLC evaluates
\* the elements of a set once.)
Turn(steps, st) == IF st.ok /\ st.calls # <<>> THEN Visit(steps, st) ELSE st
Sorting(steps) ==
  LET Search[n \in 0..MaxTurns] ==
        IF n = 0 THEN StartSort(steps)
        ELSE CHOOSE t \in {Turn(steps, st) : st \in {Search[n - 1]}} : TRUE
  IN Search

TopologicalSort(steps) == Sorting(steps)[MaxTurns]

-----------------------------------------------------------------------------
(* The run of a workflow                                                   *)

Init ==
  /\ def \in Definitions
  /\ run = [r \in Run |-> [at |-> "idle", depth |-> 0, left |-> <<>>, aborted |-> FALSE,
                           status |-> [s \in {} |-> "pending"], outputs |-> {}]]
  /\ queue = [w \in Window |-> <<>>]
  /\ acts = 0

Running(w, f) == run[<<w, f>>].at # "idle"

\* runWorkflow up to its first await, for all workflows fs of one listener: a
\* running one and one whose steps have no order are left alone.
Ordered(st) == st.ok /\ st.calls = <<>>
Startable(w, f) == ~Running(w, f) /\ Ordered(TopologicalSort(def.steps[f]))
StartAll(w, fs, d) ==
  run' = [r \in Run |->
    IF r[1] = w /\ r[2] \in fs /\ Startable(w, r[2])
    THEN [at |-> "creating", depth |-> d, aborted |-> FALSE, outputs |-> {},
          left |-> TopologicalSort(def.steps[r[2]]).result,
          status |-> [s \in ToSet(def.steps[r[2]]) |-> "pending"]]
    ELSE run[r]]

\* The loop skips the next j steps.
Skipped(st, j) ==
  [st EXCEPT !.left = SubSeq(@, j + 1, Len(@)),
             !.status = [s \in DOMAIN @ |-> IF \E i \in 1..j : st.left[i] = s THEN "skipped" ELSE @[s]]]

\* The condition of a step sees what became of those before it.
Runs(st) == st.left # <<>> /\ Holds(def.condition[Head(st.left)], st) /\ ~st.aborted

\* A command begins, or the end of the loop emits workflow:completed; the
\* session is killed, and running reset, behind it.  (The catch, which emits the
\* same event, is not reached: what the run calls and awaits catches its errors.)
Completed(r) == [event |-> "completed", name |-> r[2], depth |-> run[r].depth, match |-> {}]
StopAt(r, n) ==
  \/ /\ Runs(n) /\ UNCHANGED queue
     /\ run' = [run EXCEPT ![r] =
          [n EXCEPT !.at = "command", !.left = Tail(@), !.status[Head(n.left)] = "running"]]
  \/ /\ n.left = <<>>
     /\ run' = [run EXCEPT ![r] = [n EXCEPT !.at = "killing"]]
     /\ queue' = [w \in Window |-> Append(queue[w], Completed(r))]

\* The loop up to the next command, or to the end.
Proceed(r, st) ==
  /\ \E j \in 0..Len(st.left) : \E n \in {Skipped(st, j)} :
       (\A m \in {Skipped(st, i) : i \in 0..(j - 1)} : ~Runs(m)) /\ StopAt(r, n)
  /\ UNCHANGED <<def, acts>>

SessionCreated(r) == run[r].at = "creating" /\ Proceed(r, run[r])

\* Mutant: the early return is outside of try, and running stays set.
SessionFailsEarly(r) ==
  /\ run[r].at = "creating"
  /\ run' = [run EXCEPT ![r].at = "command"]
  /\ UNCHANGED <<def, queue, acts>>

\* No session: the run ends without an event.
SessionFails(r) ==
  /\ run[r].at = "creating"
  /\ run' = [run EXCEPT ![r].at = "idle"]
  /\ UNCHANGED <<def, queue, acts>>

\* The exit code of the command, or -1 when the session has ended or after the
\* timeout.  A step with output templates may extract a value.
CommandEnds(r) ==
  /\ run[r].at = "command"
  /\ \E s \in DOMAIN run[r].status :
       /\ run[r].status[s] = "running"
       /\ \/ \E out \in IF s \in def.templates THEN {{}, {s}} ELSE {{}} :
               \E st \in {[run[r] EXCEPT !.status[s] = "success", !.outputs = @ \cup out]} : Proceed(r, st)
          \/ \E st \in {[run[r] EXCEPT !.status[s] = "failed", !.aborted = @ \/ s \notin def.tolerated]} :
               Proceed(r, st)

SessionKilled(r) ==
  /\ run[r].at = "killing"
  /\ run' = [run EXCEPT ![r].at = "idle"]
  /\ UNCHANGED <<def, queue, acts>>

-----------------------------------------------------------------------------
(* Triggers.  The trigger of a workflow is "never" (also a startup workflow,
   which waits for the user), "saved", "any", or the workflow it follows.  *)

FindTriggered(w, m) == {f \in m : def.trigger[f] = "saved" /\ ~Running(w, f)}
FindChainTriggered(w, name) ==
  {f \in Workflow \ {name} : def.trigger[f] \in {"any", name} /\ ~Running(w, f)}

\* Mutant: off by one.
OnCompletedLate(w, e) ==
  IF e.depth > MaxChainDepth THEN run' = run
  ELSE StartAll(w, FindChainTriggered(w, e.name), e.depth + 1)

OnCompleted(w, e) ==
  IF e.depth >= MaxChainDepth THEN run' = run
  ELSE StartAll(w, FindChainTriggered(w, e.name), e.depth + 1)

Deliver(w) ==
  /\ queue[w] # <<>>
  /\ LET e == Head(queue[w])
     IN \/ e.event = "completed" /\ OnCompleted(w, e)
        \/ e.event = "saved" /\ StartAll(w, FindTriggered(w, e.match), 0)
  /\ queue' = [queue EXCEPT ![w] = Tail(@)]
  /\ UNCHANGED <<def, acts>>

\* WriteFile of any window or of the agent; m are the workflows whose glob
\* matches the path.
FileSaved(m) ==
  /\ acts < MaxAct /\ acts' = acts + 1
  /\ queue' = [w \in Window |-> Append(queue[w],
                [event |-> "saved", name |-> "saved", depth |-> 0, match |-> m])]
  /\ UNCHANGED <<def, run>>

\* The user runs a workflow.
RunWorkflow(w, f) ==
  /\ acts < MaxAct /\ acts' = acts + 1
  /\ StartAll(w, {f}, 0)
  /\ UNCHANGED <<def, queue>>

-----------------------------------------------------------------------------
Session(r) == SessionCreated(r) \/ SessionFails(r)

Next ==
  \/ \E r \in Run : Session(r) \/ CommandEnds(r) \/ SessionKilled(r)
  \/ \E w \in Window : Deliver(w) \/ \E f \in Workflow : RunWorkflow(w, f)
  \/ \E m \in SUBSET Workflow : FileSaved(m)

Spec == Init /\ [][Next]_vars

\* Sessions answer, a command ends or times out, events arrive.
Fairness ==
  /\ \A r \in Run : WF_vars(Session(r)) /\ WF_vars(CommandEnds(r)) /\ WF_vars(SessionKilled(r))
  /\ \A w \in Window : WF_vars(Deliver(w))
FairSpec == Spec /\ Fairness

-----------------------------------------------------------------------------
RunState ==
  [at : {"idle", "creating", "command", "killing"}, depth : 0..MaxChainDepth, left : Seq(Step),
   aborted : BOOLEAN, status : UNION {[S -> Status] : S \in SUBSET Step}, outputs : SUBSET Step]
Event ==
  [event : {"completed", "saved"}, name : Workflow \cup {"saved"}, depth : 0..MaxChainDepth,
   match : SUBSET Workflow]

\* The types; in particular no chain of triggers is deeper than MaxChainDepth.
TypeOK ==
  /\ def \in Definitions
  /\ run \in [Run -> RunState]
  /\ queue \in [Window -> Seq(Event)]
  /\ acts \in 0..MaxAct

\* For every graph of dependencies: a step begins, or is skipped, only when all
\* steps it depends on have ended, and a workflow with a cycle or an unknown
\* dependency does not begin at all.
DependenciesFirst ==
  \A r \in Run : \A s \in DOMAIN run[r].status : \A d \in ToSet(def.dependsOn[s]) :
    /\ d \in DOMAIN run[r].status
    /\ run[r].status[s] # "pending" => run[r].status[d] \notin {"pending", "running"}

\* Workflows that trigger one another, also across windows, do not run for
\* ever: when the user does nothing more, every run comes to its end.
CascadeEnds == <>[](\A r \in Run : run[r].at = "idle")
=============================================================================
