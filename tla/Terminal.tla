------------------------------ MODULE Terminal ------------------------------
(***************************************************************************)
(* Terminal sessions: TerminalService (services/terminal_service.go) and   *)
(* the terminal store of the window that owns them                         *)
(* (frontend/src/stores/terminal.ts), which also runs the steps of a       *)
(* workflow in a session and waits for the exit code of each.              *)
(*                                                                         *)
(* A session has a PTY with a shell, an entry in the service's table, a    *)
(* goroutine that reads the PTY (readLoop), and a state in the window.     *)
(* Binding calls run in goroutines of their own; events and the answers of *)
(* calls reach the window by different ways and may overtake one another.  *)
(* Session ids are random, so that no two calls start the same session.    *)
(***************************************************************************)
EXTENDS Naturals, Sequences

CONSTANTS
  Sessions,     \* the sessions that may be created (bound)
  MaxCommands   \* the commands that may be run in one session (bound)

ASSUME TerminalAssumption == MaxCommands \in Nat

VARIABLES
  \* TerminalService
  table,     \* the sessions in t.sessions
  running,   \* per session: session.running
  open,      \* per session: its PTY is open
  start,     \* per session: where StartSession is
  loop,      \* per session: where readLoop is
  kill,      \* per session: where KillSession is
  writing,   \* per session: the WriteSession calls that have not begun
  holding,   \* per session: those that hold the conn and are about to write
  shutdown,  \* where Shutdown is
  \* the shell
  alive,     \* per session: the shell runs
  typed,     \* per session: the commands it has read and not finished
  output,    \* per session: the exit codes it has printed and nobody has read
  ran,       \* per session: the commands it has finished
  \* the window
  events,    \* per session: the events not delivered yet
  view,      \* per session: the window's state of it
  issued,    \* per session: how many commands were run in it
  promise    \* per session: the state of the latest command

serviceVars == <<table, running, open, start, loop, kill, writing, holding, shutdown>>
shellVars   == <<alive, typed, output, ran>>
windowVars  == <<events, view, issued, promise>>
vars == <<serviceVars, shellVars, windowVars>>

-----------------------------------------------------------------------------
(* StartSession:  called, spawned (the PTY exists), inserted, launched; or
                  failed.
   readLoop:      check (the context), read, cleanup, emit (the exited event),
                  over.
   KillSession:   called, close (the entry is gone, the PTY is not), closed.
   Shutdown:      cancelled, waiting, returned.
   The window:    none, running, stopped, removed.
   A promise:     none, pending, code, gone (the session ended), timeout.   *)

Commands == 1..MaxCommands
Exited == 0            \* the terminal:exited event among the exit codes

Init ==
  /\ table = {}
  /\ running = [i \in Sessions |-> FALSE]
  /\ open    = [i \in Sessions |-> FALSE]
  /\ start   = [i \in Sessions |-> "unused"]
  /\ loop    = [i \in Sessions |-> "none"]
  /\ kill    = [i \in Sessions |-> "none"]
  /\ writing = [i \in Sessions |-> {}]
  /\ holding = [i \in Sessions |-> {}]
  /\ shutdown = "none"
  /\ alive   = [i \in Sessions |-> FALSE]
  /\ typed   = [i \in Sessions |-> <<>>]
  /\ output  = [i \in Sessions |-> <<>>]
  /\ ran     = [i \in Sessions |-> {}]
  /\ events  = [i \in Sessions |-> <<>>]
  /\ view    = [i \in Sessions |-> "none"]
  /\ issued  = [i \in Sessions |-> 0]
  /\ promise = [i \in Sessions |-> "none"]

\* The calls of a window end with it: the shutdown begins when app.Run is over.
WindowOpen == shutdown = "none"

-----------------------------------------------------------------------------
(* StartSession                                                            *)

\* createSession, up to its await.
CreateSession(i) ==
  /\ WindowOpen
  /\ start[i] = "unused"
  /\ start' = [start EXCEPT ![i] = "called"]
  /\ UNCHANGED <<table, running, open, loop, kill, writing, holding, shutdown>>
  /\ UNCHANGED <<shellVars, windowVars>>

\* The working directory, the shell or the PTY is refused.
StartFails(i) ==
  /\ start[i] = "called"
  /\ start' = [start EXCEPT ![i] = "failed"]
  /\ UNCHANGED <<table, running, open, loop, kill, writing, holding, shutdown>>
  /\ UNCHANGED <<shellVars, windowVars>>

Spawn(i) ==
  /\ start[i] = "called"
  /\ start' = [start EXCEPT ![i] = "spawned"]
  /\ open' = [open EXCEPT ![i] = TRUE]
  /\ alive' = [alive EXCEPT ![i] = TRUE]
  /\ UNCHANGED <<table, running, loop, kill, writing, holding, shutdown>>
  /\ UNCHANGED <<typed, output, ran, windowVars>>

Insert(i) ==
  /\ start[i] = "spawned"
  /\ start' = [start EXCEPT ![i] = "inserted"]
  /\ table' = table \cup {i}
  /\ running' = [running EXCEPT ![i] = TRUE]
  /\ UNCHANGED <<open, loop, kill, writing, holding, shutdown>>
  /\ UNCHANGED <<shellVars, windowVars>>

\* wg.Add and the go statement.
Launch(i) ==
  /\ start[i] = "inserted"
  /\ start' = [start EXCEPT ![i] = "launched"]
  /\ loop' = [loop EXCEPT ![i] = "check"]
  /\ UNCHANGED <<table, running, open, kill, writing, holding, shutdown>>
  /\ UNCHANGED <<shellVars, windowVars>>

\* createSession, after its await.
Created(i) ==
  /\ start[i] = "launched"
  /\ view[i] = "none"
  /\ view' = [view EXCEPT ![i] = "running"]
  /\ UNCHANGED <<serviceVars, shellVars, events, issued, promise>>

-----------------------------------------------------------------------------
(* readLoop                                                                *)

LoopGoto(i, l) == loop' = [loop EXCEPT ![i] = l]

\* Mutant: the context is not looked at between reads.
LoopChecksNothing(i) ==
  /\ loop[i] = "check"
  /\ LoopGoto(i, "read")
  /\ UNCHANGED <<table, running, open, start, kill, writing, holding, shutdown>>
  /\ UNCHANGED <<shellVars, windowVars>>

LoopChecks(i) ==
  /\ loop[i] = "check"
  /\ LoopGoto(i, IF shutdown = "none" THEN "read" ELSE "cleanup")
  /\ UNCHANGED <<table, running, open, start, kill, writing, holding, shutdown>>
  /\ UNCHANGED <<shellVars, windowVars>>

\* Read returns output: terminal:output is emitted.
LoopReads(i) ==
  /\ loop[i] = "read"
  /\ open[i]
  /\ output[i] # <<>>
  /\ output' = [output EXCEPT ![i] = Tail(@)]
  /\ events' = [events EXCEPT ![i] = Append(@, Head(output[i]))]
  /\ LoopGoto(i, "check")
  /\ UNCHANGED <<table, running, open, start, kill, writing, holding, shutdown>>
  /\ UNCHANGED <<alive, typed, ran, view, issued, promise>>

\* Read returns an error: the PTY was closed, or the shell is gone and read up.
LoopBreaks(i) ==
  /\ loop[i] = "read"
  /\ ~open[i] \/ (~alive[i] /\ output[i] = <<>>)
  /\ LoopGoto(i, "cleanup")
  /\ UNCHANGED <<table, running, open, start, kill, writing, holding, shutdown>>
  /\ UNCHANGED <<shellVars, windowVars>>

\* cleanupSession, inside the lock.
Cleanup(i) ==
  /\ loop[i] = "cleanup"
  /\ running' = [running EXCEPT ![i] = FALSE]
  /\ table' = table \ {i}
  /\ LoopGoto(i, "emit")
  /\ UNCHANGED <<open, start, kill, writing, holding, shutdown>>
  /\ UNCHANGED <<shellVars, windowVars>>

\* Mutant: the exit of a session is not announced (before N-47).
EmitNothing(i) ==
  /\ loop[i] = "emit"
  /\ LoopGoto(i, "over")
  /\ UNCHANGED <<table, running, open, start, kill, writing, holding, shutdown>>
  /\ UNCHANGED <<shellVars, windowVars>>

\* cleanupSession emits terminal:exited, and the goroutine is done.
EmitExited(i) ==
  /\ loop[i] = "emit"
  /\ LoopGoto(i, "over")
  /\ events' = [events EXCEPT ![i] = Append(@, Exited)]
  /\ UNCHANGED <<table, running, open, start, kill, writing, holding, shutdown>>
  /\ UNCHANGED <<shellVars, view, issued, promise>>

-----------------------------------------------------------------------------
(* KillSession and Shutdown                                                *)

\* conn.Close closes the PTY and kills the shell.
Close(S) ==
  /\ open'  = [i \in Sessions |-> open[i] /\ i \notin S]
  /\ alive' = [i \in Sessions |-> alive[i] /\ i \notin S]
  /\ typed' = [i \in Sessions |-> IF i \in S THEN <<>> ELSE typed[i]]

\* killSession of the window, up to its await: the user closes the terminal, or
\* the workflow that created it has ended.
KillCalled(i) ==
  /\ WindowOpen
  /\ view[i] \in {"running", "stopped"}
  /\ kill[i] = "none"
  /\ kill' = [kill EXCEPT ![i] = "called"]
  /\ UNCHANGED <<table, running, open, start, loop, writing, holding, shutdown>>
  /\ UNCHANGED <<shellVars, windowVars>>

\* Mutant: the PTY is closed while the session still counts as running.
KillClosesFirst(i) ==
  /\ kill[i] = "called"
  /\ kill' = [kill EXCEPT ![i] = "close"]
  /\ Close({i})
  /\ UNCHANGED <<table, running, start, loop, writing, holding, shutdown>>
  /\ UNCHANGED <<output, ran, windowVars>>

\* KillSession inside the lock, when the session still exists.
KillRemoves(i) ==
  /\ kill[i] = "called"
  /\ i \in table
  /\ kill' = [kill EXCEPT ![i] = "close"]
  /\ running' = [running EXCEPT ![i] = FALSE]
  /\ table' = table \ {i}
  /\ UNCHANGED <<open, start, loop, writing, holding, shutdown>>
  /\ UNCHANGED <<shellVars, windowVars>>

KillFindsNothing(i) ==
  /\ kill[i] = "called"
  /\ i \notin table
  /\ kill' = [kill EXCEPT ![i] = "closed"]
  /\ UNCHANGED <<table, running, open, start, loop, writing, holding, shutdown>>
  /\ UNCHANGED <<shellVars, windowVars>>

\* KillSession after the unlock.
KillCloses(i) ==
  /\ kill[i] = "close"
  /\ kill' = [kill EXCEPT ![i] = "closed"]
  /\ Close({i})
  /\ UNCHANGED <<table, running, start, loop, writing, holding, shutdown>>
  /\ UNCHANGED <<output, ran, windowVars>>

\* killSession of the window, after its await.
Removed(i) ==
  /\ kill[i] = "closed"
  /\ view[i] \in {"running", "stopped"}
  /\ view' = [view EXCEPT ![i] = "removed"]
  /\ UNCHANGED <<serviceVars, shellVars, events, issued, promise>>

\* Shutdown cancels the context.
ShutdownBegins ==
  /\ shutdown = "none"
  /\ shutdown' = "cancelled"
  /\ UNCHANGED <<table, running, open, start, loop, kill, writing, holding>>
  /\ UNCHANGED <<shellVars, windowVars>>

\* Inside the lock it closes every session of the table.
ShutdownCloses ==
  /\ shutdown = "cancelled"
  /\ shutdown' = "waiting"
  /\ running' = [i \in Sessions |-> running[i] /\ i \notin table]
  /\ Close(table)
  /\ UNCHANGED <<table, start, loop, kill, writing, holding>>
  /\ UNCHANGED <<output, ran, windowVars>>

\* wg.Wait: the goroutines that were launched are done.
ShutdownReturns ==
  /\ shutdown = "waiting"
  /\ \A i \in Sessions : loop[i] \in {"none", "over"}
  /\ shutdown' = "returned"
  /\ UNCHANGED <<table, running, open, start, loop, kill, writing, holding>>
  /\ UNCHANGED <<shellVars, windowVars>>

-----------------------------------------------------------------------------
(* Commands                                                                *)

\* runCommandInSession: the listeners, the timer, and a WriteSession that is
\* not awaited.
RunCommand(i) ==
  /\ WindowOpen
  /\ view[i] = "running"
  /\ promise[i] # "pending"
  /\ issued[i] < MaxCommands
  /\ issued' = [issued EXCEPT ![i] = @ + 1]
  /\ promise' = [promise EXCEPT ![i] = "pending"]
  /\ writing' = [writing EXCEPT ![i] = @ \cup {issued'[i]}]
  /\ UNCHANGED <<table, running, open, start, loop, kill, holding, shutdown>>
  /\ UNCHANGED <<shellVars, events, view>>

\* WriteSession inside the lock takes the conn of a running session.  The
\* window swallows the error otherwise.
WriteLooksUp(i, k) ==
  /\ k \in writing[i]
  /\ writing' = [writing EXCEPT ![i] = @ \ {k}]
  /\ holding' = IF i \in table /\ running[i]
                THEN [holding EXCEPT ![i] = @ \cup {k}] ELSE holding
  /\ UNCHANGED <<table, running, open, start, loop, kill, shutdown>>
  /\ UNCHANGED <<shellVars, windowVars>>

\* WriteSession after the unlock: the PTY may have been closed meanwhile.
WriteWrites(i, k) ==
  /\ k \in holding[i]
  /\ holding' = [holding EXCEPT ![i] = @ \ {k}]
  /\ typed' = IF open[i] /\ alive[i] THEN [typed EXCEPT ![i] = Append(@, k)] ELSE typed
  /\ UNCHANGED <<table, running, open, start, loop, kill, writing, shutdown>>
  /\ UNCHANGED <<alive, output, ran, windowVars>>

\* The shell finishes a command and prints its sentinel with the exit code.
ShellRuns(i) ==
  /\ alive[i]
  /\ typed[i] # <<>>
  /\ typed' = [typed EXCEPT ![i] = Tail(@)]
  /\ output' = [output EXCEPT ![i] = Append(@, Head(typed[i]))]
  /\ ran' = [ran EXCEPT ![i] = @ \cup {Head(typed[i])}]
  /\ UNCHANGED <<alive, serviceVars, windowVars>>

\* The shell ends by itself.
ShellExits(i) ==
  /\ alive[i]
  /\ alive' = [alive EXCEPT ![i] = FALSE]
  /\ typed' = [typed EXCEPT ![i] = <<>>]
  /\ UNCHANGED <<output, ran, serviceVars, windowVars>>

\* Mutant: any exit code answers the command that waits.
AnswersAny(i, e) == promise[i] = "pending" /\ e # Exited

\* The listener of the latest command looks for its own marker.
Answers(i, e) == promise[i] = "pending" /\ e = issued[i]

\* What an event makes of the latest command: the exit ends it as well.
Told(i, e) ==
  IF Answers(i, e) THEN "code"
  ELSE IF e = Exited /\ promise[i] = "pending" THEN "gone" ELSE promise[i]

Deliver(i) ==
  /\ events[i] # <<>>
  /\ LET e == Head(events[i]) IN
       /\ promise' = [promise EXCEPT ![i] = Told(i, e)]
       /\ view' = IF e = Exited /\ view[i] = "running"
                  THEN [view EXCEPT ![i] = "stopped"] ELSE view
  /\ events' = [events EXCEPT ![i] = Tail(@)]
  /\ UNCHANGED <<serviceVars, shellVars, issued>>

\* Five minutes have passed.
CommandTimesOut(i) ==
  /\ promise[i] = "pending"
  /\ promise' = [promise EXCEPT ![i] = "timeout"]
  /\ UNCHANGED <<serviceVars, shellVars, events, view, issued>>

-----------------------------------------------------------------------------
StartStep(i) == StartFails(i) \/ Spawn(i) \/ Insert(i) \/ Launch(i)

LoopStep(i) ==
  \/ LoopChecks(i)
  \/ LoopReads(i)
  \/ LoopBreaks(i)
  \/ Cleanup(i)
  \/ EmitExited(i)

KillStep(i) == KillRemoves(i) \/ KillFindsNothing(i) \/ KillCloses(i)

WriteStep(i) == \E k \in Commands : WriteLooksUp(i, k) \/ WriteWrites(i, k)

ShellStep(i) == ShellRuns(i) \/ ShellExits(i)

WindowStep(i) ==
  \/ CreateSession(i)
  \/ Created(i)
  \/ KillCalled(i)
  \/ Removed(i)
  \/ RunCommand(i)
  \/ Deliver(i)
  \/ CommandTimesOut(i)

ShutdownStep == ShutdownBegins \/ ShutdownCloses \/ ShutdownReturns

Next ==
  \/ \E i \in Sessions : \/ StartStep(i)
                         \/ LoopStep(i)
                         \/ KillStep(i)
                         \/ WriteStep(i)
                         \/ ShellStep(i)
                         \/ WindowStep(i)
  \/ ShutdownStep

Spec == Init /\ [][Next]_vars

(* Goroutines run and events are delivered.  No user acts, no shell answers or
   ends, and no timer fires, unless it happens to.                          *)
Fairness ==
  /\ WF_vars(ShutdownCloses \/ ShutdownReturns)
  /\ \A i \in Sessions :
       /\ WF_vars(StartStep(i))
       /\ WF_vars(LoopStep(i))
       /\ WF_vars(KillStep(i))
       /\ WF_vars(WriteStep(i))
       /\ WF_vars(Created(i) \/ Removed(i))
       /\ WF_vars(Deliver(i))

FairSpec == Spec /\ Fairness

-----------------------------------------------------------------------------
TypeOK ==
  /\ table \subseteq Sessions
  /\ running \in [Sessions -> BOOLEAN]
  /\ open \in [Sessions -> BOOLEAN]
  /\ start \in [Sessions -> {"unused", "called", "failed", "spawned", "inserted", "launched"}]
  /\ loop \in [Sessions -> {"none", "check", "read", "cleanup", "emit", "over"}]
  /\ kill \in [Sessions -> {"none", "called", "close", "closed"}]
  /\ writing \in [Sessions -> SUBSET Commands]
  /\ holding \in [Sessions -> SUBSET Commands]
  /\ shutdown \in {"none", "cancelled", "waiting", "returned"}
  /\ alive \in [Sessions -> BOOLEAN]
  /\ typed \in [Sessions -> Seq(Commands)]
  /\ output \in [Sessions -> Seq(Commands)]
  /\ ran \in [Sessions -> SUBSET Commands]
  /\ events \in [Sessions -> Seq(Commands \cup {Exited})]
  /\ view \in [Sessions -> {"none", "running", "stopped", "removed"}]
  /\ issued \in [Sessions -> 0..MaxCommands]
  /\ promise \in [Sessions -> {"none", "pending", "code", "gone", "timeout"}]

(* N-94: a session that WriteSession would accept has an open PTY, whatever
   KillSession, Shutdown and the end of the shell are doing to it.          *)
RunningIsOpen == \A i \in table : running[i] => open[i]

(* N-65: the table holds a session only as long as a goroutine reads it, or is
   about to: nothing that ended stays in it, however it ended.              *)
TableIsRead ==
  \A i \in table : start[i] = "inserted" \/ loop[i] \in {"check", "read", "cleanup"}

(* A step of a workflow succeeds or fails by the exit code of its own command:
   the late code of an earlier command, which had timed out, is not taken for
   it.                                                                      *)
CodeIsOwn == \A i \in Sessions : promise[i] = "code" => issued[i] \in ran[i]

(* N-95: Shutdown does not hang.  Every readLoop ends, also that of a session
   whose start it overtook, with no shell ending by itself.                 *)
ShutdownEnds == shutdown = "cancelled" ~> shutdown = "returned"

\* The exited event has not been delivered yet.
ExitToCome(i) ==
  loop[i] # "over" \/ \E j \in DOMAIN events[i] : events[i][j] = Exited

(* N-47: a command whose session dies under it, killed or by itself, returns
   without its timer, provided the window has not had the exit already.     *)
DeathEndsCommand ==
  \A i \in Sessions :
    promise[i] = "pending" /\ ~alive[i] /\ ExitToCome(i) ~> promise[i] # "pending"
=============================================================================
