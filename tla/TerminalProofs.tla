--------------------------- MODULE TerminalProofs ---------------------------
(***************************************************************************)
(* Proofs about Terminal, for any number of sessions and commands: the     *)
(* table of sessions, the PTYs and the reading goroutines agree, and the   *)
(* exit code a command ends with is its own.                               *)
(***************************************************************************)
EXTENDS Terminal, TLAPS

(* Every step of the service, the shell and the window keeps the types.    *)
LEMMA TypingStep == TypeOK /\ [Next]_vars => TypeOK'
<1> SUFFICES ASSUME TypeOK, [Next]_vars
             PROVE  TypeOK'
  OBVIOUS
<1> USE TerminalAssumption DEF TypeOK, Commands, Exited
<1>a. Commands \subseteq 0..MaxCommands
  OBVIOUS
<1>1. ASSUME NEW i \in Sessions, StartStep(i) PROVE TypeOK'
  <2>1. CASE StartFails(i)
    BY <2>1 DEF StartFails, shellVars, windowVars
  <2>2. CASE Spawn(i)
    BY <2>2 DEF Spawn, windowVars
  <2>3. CASE Insert(i)
    BY <2>3 DEF Insert, shellVars, windowVars
  <2>4. CASE Launch(i)
    BY <2>4 DEF Launch, shellVars, windowVars
  <2>5. QED
    BY <1>1, <2>1, <2>2, <2>3, <2>4 DEF StartStep
<1>2. ASSUME NEW i \in Sessions, LoopStep(i) PROVE TypeOK'
  <2>1. CASE LoopChecks(i)
    BY <2>1 DEF LoopChecks, LoopGoto, shellVars, windowVars
  <2>2. CASE LoopReads(i)
    <3>1. /\ Head(output[i]) \in Commands \cup {Exited}
          /\ Tail(output[i]) \in Seq(Commands)
      BY <2>2 DEF LoopReads
    <3>2. output' \in [Sessions -> Seq(Commands)]
      BY <2>2, <3>1 DEF LoopReads
    <3>3. Append(events[i], Head(output[i])) \in Seq(Commands \cup {Exited})
      BY <3>1
    <3>4. events' \in [Sessions -> Seq(Commands \cup {Exited})]
      BY <2>2, <3>3 DEF LoopReads
    <3>5. QED
      BY <2>2, <3>2, <3>4 DEF LoopReads, LoopGoto
  <2>3. CASE LoopBreaks(i)
    BY <2>3 DEF LoopBreaks, LoopGoto, shellVars, windowVars
  <2>4. CASE Cleanup(i)
    BY <2>4 DEF Cleanup, LoopGoto, shellVars, windowVars
  <2>5. CASE EmitExited(i)
    <3>1. Append(events[i], Exited) \in Seq(Commands \cup {Exited})
      OBVIOUS
    <3>2. events' \in [Sessions -> Seq(Commands \cup {Exited})]
      BY <2>5, <3>1 DEF EmitExited
    <3>3. QED
      BY <2>5, <3>2 DEF EmitExited, LoopGoto, shellVars
  <2>6. QED
    BY <1>2, <2>1, <2>2, <2>3, <2>4, <2>5 DEF LoopStep
<1>b. <<>> \in Seq(Commands)
  OBVIOUS
<1>3. ASSUME NEW S \in SUBSET Sessions, Close(S)
      PROVE  /\ open' \in [Sessions -> BOOLEAN]
             /\ alive' \in [Sessions -> BOOLEAN]
             /\ typed' \in [Sessions -> Seq(Commands)]
  <2>1. typed' \in [Sessions -> Seq(Commands)]
    BY <1>3, <1>b DEF Close
  <2>2. QED
    BY <1>3, <2>1, Zenon DEF Close
<1>4. ASSUME NEW i \in Sessions, KillStep(i) PROVE TypeOK'
  <2>1. CASE KillRemoves(i)
    BY <2>1 DEF KillRemoves, shellVars, windowVars
  <2>2. CASE KillFindsNothing(i)
    BY <2>2 DEF KillFindsNothing, shellVars, windowVars
  <2>3. CASE KillCloses(i)
    BY <1>3, <2>3 DEF KillCloses, windowVars
  <2>4. QED
    BY <1>4, <2>1, <2>2, <2>3 DEF KillStep
<1>5. ASSUME NEW i \in Sessions, WriteStep(i) PROVE TypeOK'
  <2>1. PICK k \in Commands : WriteLooksUp(i, k) \/ WriteWrites(i, k)
    BY <1>5 DEF WriteStep
  <2>2. CASE WriteLooksUp(i, k)
    BY <2>2 DEF WriteLooksUp, shellVars, windowVars
  <2>3. CASE WriteWrites(i, k)
    <3>1. Append(typed[i], k) \in Seq(Commands)
      OBVIOUS
    <3>2. typed' \in [Sessions -> Seq(Commands)]
      BY <2>3, <3>1 DEF WriteWrites
    <3>3. QED
      BY <2>3, <3>2 DEF WriteWrites, windowVars
  <2>4. QED
    BY <2>1, <2>2, <2>3
<1>6. ASSUME NEW i \in Sessions, ShellStep(i) PROVE TypeOK'
  <2>1. CASE ShellRuns(i)
    <3>1. /\ Head(typed[i]) \in Commands
          /\ Tail(typed[i]) \in Seq(Commands)
      BY <2>1 DEF ShellRuns
    <3>2. Append(output[i], Head(typed[i])) \in Seq(Commands)
      BY <3>1
    <3>3. QED
      BY <2>1, <3>1, <3>2 DEF ShellRuns, serviceVars, windowVars
  <2>2. CASE ShellExits(i)
    BY <1>b, <2>2 DEF ShellExits, serviceVars, windowVars
  <2>3. QED
    BY <1>6, <2>1, <2>2 DEF ShellStep
<1>7. ASSUME NEW i \in Sessions, WindowStep(i) PROVE TypeOK'
  <2>1. CASE CreateSession(i)
    BY <2>1 DEF CreateSession, shellVars, windowVars
  <2>2. CASE Created(i)
    BY <2>2 DEF Created, serviceVars, shellVars
  <2>3. CASE KillCalled(i)
    BY <2>3 DEF KillCalled, shellVars, windowVars
  <2>4. CASE Removed(i)
    BY <2>4 DEF Removed, serviceVars, shellVars
  <2>5. CASE RunCommand(i)
    <3>1. issued' \in [Sessions -> 0..MaxCommands] /\ issued'[i] \in Commands
      BY <2>5 DEF RunCommand
    <3>2. QED
      BY <2>5, <3>1 DEF RunCommand, shellVars
  <2>6. CASE Deliver(i)
    <3>1. Tail(events[i]) \in Seq(Commands \cup {Exited})
      BY <2>6 DEF Deliver
    <3>2. events' \in [Sessions -> Seq(Commands \cup {Exited})]
      BY <2>6, <3>1 DEF Deliver
    <3>3. /\ promise' \in [Sessions -> {"none", "pending", "code", "gone", "timeout"}]
          /\ view' \in [Sessions -> {"none", "running", "stopped", "removed"}]
      BY <2>6 DEF Deliver, Told, Answers
    <3>4. QED
      BY <2>6, <3>2, <3>3 DEF Deliver, serviceVars, shellVars
  <2>7. CASE CommandTimesOut(i)
    BY <2>7 DEF CommandTimesOut, serviceVars, shellVars
  <2>8. QED
    BY <1>7, <2>1, <2>2, <2>3, <2>4, <2>5, <2>6, <2>7 DEF WindowStep
<1>8. CASE ShutdownBegins
  BY <1>8 DEF ShutdownBegins, shellVars, windowVars
<1>9. CASE ShutdownCloses
  <2>1. running' \in [Sessions -> BOOLEAN]
    BY <1>9, Zenon DEF ShutdownCloses
  <2>2. QED
    BY <1>3, <1>9, <2>1 DEF ShutdownCloses, windowVars
<1>10. CASE ShutdownReturns
  BY <1>10 DEF ShutdownReturns, shellVars, windowVars
<1>11. CASE UNCHANGED vars
  BY <1>11 DEF vars, serviceVars, shellVars, windowVars
<1>12. QED
  BY <1>1, <1>2, <1>4, <1>5, <1>6, <1>7, <1>8, <1>9, <1>10, <1>11
  DEF Next, ShutdownStep

(* Every state of the sessions has its type.                               *)
THEOREM Typing == Spec => []TypeOK
<1>1. Init => TypeOK
  <2> SUFFICES ASSUME Init PROVE TypeOK
    OBVIOUS
  <2>1. /\ <<>> \in Seq(Commands)
        /\ <<>> \in Seq(Commands \cup {Exited})
    OBVIOUS
  <2>2. 0 \in 0..MaxCommands
    BY TerminalAssumption
  <2>3. QED
    BY <2>1, <2>2 DEF Init, TypeOK
<1>2. QED
  BY <1>1, TypingStep, PTL DEF Spec

-----------------------------------------------------------------------------
(* A session whose StartSession is under way is nowhere else yet; a session the
   window knows has been launched; and a kill that is past the lock has taken
   it out of the table for good.                                            *)
Unstarted(i) == start[i] \in {"unused", "called", "failed", "spawned"}

OpenInv ==
  \A i \in Sessions :
    /\ Unstarted(i) => i \notin table /\ kill[i] = "none"
    /\ start[i] = "spawned" => open[i]
    /\ view[i] # "none" => start[i] = "launched"
    /\ kill[i] \in {"close", "closed"} => i \notin table
    /\ i \in table /\ running[i] => open[i]

(* RunningIsOpen is kept by the steps: the PTY of a session is open when the
   session enters the table, and nobody closes it but those who have taken the
   session out, or marked it stopped in the same critical section.          *)
LEMMA OpenStep == TypeOK /\ OpenInv /\ [Next]_vars => OpenInv'
<1> SUFFICES ASSUME TypeOK, OpenInv, [Next]_vars
             PROVE  OpenInv'
  OBVIOUS
<1> USE DEF TypeOK, OpenInv, Unstarted
<1>1. ASSUME NEW i \in Sessions, StartStep(i) PROVE OpenInv'
  BY <1>1 DEF StartStep, StartFails, Spawn, Insert, Launch, shellVars, windowVars
<1>2. ASSUME NEW i \in Sessions, LoopStep(i) PROVE OpenInv'
  BY <1>2 DEF LoopStep, LoopChecks, LoopReads, LoopBreaks, Cleanup, EmitExited,
              LoopGoto, shellVars, windowVars
<1>3. ASSUME NEW i \in Sessions, KillStep(i) PROVE OpenInv'
  BY <1>3 DEF KillStep, KillRemoves, KillFindsNothing, KillCloses, Close,
              shellVars, windowVars
<1>4. ASSUME NEW i \in Sessions, WriteStep(i) PROVE OpenInv'
  BY <1>4 DEF WriteStep, WriteLooksUp, WriteWrites, shellVars, windowVars
<1>5. ASSUME NEW i \in Sessions, ShellStep(i) PROVE OpenInv'
  BY <1>5 DEF ShellStep, ShellRuns, ShellExits, serviceVars, windowVars
<1>6. ASSUME NEW i \in Sessions, WindowStep(i) PROVE OpenInv'
  <2>1. CASE CreateSession(i) \/ Created(i) \/ KillCalled(i) \/ Removed(i)
    BY <2>1 DEF CreateSession, Created, KillCalled, Removed,
                serviceVars, shellVars, windowVars
  <2>2. CASE RunCommand(i) \/ CommandTimesOut(i)
    BY <2>2 DEF RunCommand, CommandTimesOut, serviceVars, shellVars
  <2>3. CASE Deliver(i)
    BY <2>3 DEF Deliver, serviceVars, shellVars
  <2>4. QED
    BY <1>6, <2>1, <2>2, <2>3 DEF WindowStep
<1>7. CASE ShutdownStep
  BY <1>7 DEF ShutdownStep, ShutdownBegins, ShutdownCloses, ShutdownReturns, Close,
              shellVars, windowVars
<1>8. CASE UNCHANGED vars
  BY <1>8 DEF vars, serviceVars, shellVars, windowVars
<1>9. QED
  BY <1>1, <1>2, <1>3, <1>4, <1>5, <1>6, <1>7, <1>8 DEF Next

(* A session WriteSession would accept has an open PTY, in every interleaving
   of any number of starts, kills, exits and the shutdown.                  *)
THEOREM OpenWhileRunning == Spec => []RunningIsOpen
<1>1. Init => OpenInv
  BY DEF Init, OpenInv, Unstarted
<1>2. TypeOK /\ OpenInv => RunningIsOpen
  BY DEF TypeOK, OpenInv, RunningIsOpen
<1>3. QED
  BY <1>1, <1>2, OpenStep, Typing, PTL DEF Spec

-----------------------------------------------------------------------------
(* TableIsRead is inductive: a session is launched right after it was inserted,
   and the goroutine that stops reading takes it out.                       *)
LEMMA ReadStep == TypeOK /\ TableIsRead /\ [Next]_vars => TableIsRead'
<1> SUFFICES ASSUME TypeOK, TableIsRead, [Next]_vars
             PROVE  TableIsRead'
  OBVIOUS
<1> USE DEF TypeOK, TableIsRead
<1>1. ASSUME NEW i \in Sessions, StartStep(i) PROVE TableIsRead'
  <2>1. CASE StartFails(i) \/ Spawn(i)
    BY <2>1 DEF StartFails, Spawn
  <2>2. CASE Insert(i)
    BY <2>2 DEF Insert
  <2>3. CASE Launch(i)
    BY <2>3 DEF Launch
  <2>4. QED
    BY <1>1, <2>1, <2>2, <2>3 DEF StartStep
<1>2. ASSUME NEW i \in Sessions, LoopStep(i) PROVE TableIsRead'
  <2>1. CASE LoopChecks(i)
    BY <2>1 DEF LoopChecks, LoopGoto
  <2>2. CASE LoopReads(i) \/ LoopBreaks(i)
    BY <2>2 DEF LoopReads, LoopBreaks, LoopGoto
  <2>3. CASE Cleanup(i)
    BY <2>3 DEF Cleanup, LoopGoto
  <2>4. CASE EmitExited(i)
    BY <2>4 DEF EmitExited, LoopGoto
  <2>5. QED
    BY <1>2, <2>1, <2>2, <2>3, <2>4 DEF LoopStep
<1>3. ASSUME NEW i \in Sessions, KillStep(i) PROVE TableIsRead'
  BY <1>3 DEF KillStep, KillRemoves, KillFindsNothing, KillCloses
<1>4. ASSUME NEW i \in Sessions, WriteStep(i) \/ ShellStep(i) PROVE TableIsRead'
  BY <1>4 DEF WriteStep, WriteLooksUp, WriteWrites, ShellStep, ShellRuns, ShellExits,
              serviceVars
<1>5. ASSUME NEW i \in Sessions, WindowStep(i) PROVE TableIsRead'
  <2>1. CASE CreateSession(i)
    BY <2>1 DEF CreateSession
  <2>2. UNCHANGED <<table, start, loop>> => TableIsRead'
    OBVIOUS
  <2>3. CASE Created(i) \/ KillCalled(i) \/ Removed(i) \/ RunCommand(i)
             \/ Deliver(i) \/ CommandTimesOut(i)
    BY <2>2, <2>3 DEF Created, KillCalled, Removed, RunCommand, Deliver,
                      CommandTimesOut, serviceVars
  <2>4. QED
    BY <1>5, <2>1, <2>3 DEF WindowStep
<1>6. CASE ShutdownStep
  BY <1>6 DEF ShutdownStep, ShutdownBegins, ShutdownCloses, ShutdownReturns
<1>7. CASE UNCHANGED vars
  BY <1>7 DEF vars, serviceVars
<1>8. QED
  BY <1>1, <1>2, <1>3, <1>4, <1>5, <1>6, <1>7 DEF Next

(* N-65: what is in the table is being read, for any number of sessions.   *)
THEOREM NoDeadSession == Spec => []TableIsRead
<1>1. Init => TableIsRead
  BY DEF Init, TableIsRead
<1>2. QED
  BY <1>1, ReadStep, Typing, PTL DEF Spec

-----------------------------------------------------------------------------
(* An exit code on its way, in the PTY or in an event, is that of a command the
   shell has finished.                                                      *)
CodeInv ==
  \A i \in Sessions :
    /\ \A j \in DOMAIN output[i] : output[i][j] \in ran[i]
    /\ \A j \in DOMAIN events[i] : events[i][j] \in ran[i] \cup {Exited}
    /\ promise[i] = "pending" => issued[i] # Exited
    /\ promise[i] = "code" => issued[i] \in ran[i]

\* What is true of every entry of a queue stays true when one is taken or added.
LEMMA TailKeeps ==
  ASSUME NEW T, NEW q \in Seq(T), q # <<>>, NEW R, \A j \in DOMAIN q : q[j] \in R
  PROVE  Head(q) \in R /\ \A j \in DOMAIN Tail(q) : Tail(q)[j] \in R
<1>1. Len(q) \in Nat /\ Len(q) # 0 /\ DOMAIN q = 1..Len(q)
  OBVIOUS
<1>2. Head(q) = q[1] /\ 1 \in DOMAIN q
  BY <1>1
<1>3. DOMAIN Tail(q) = 1..(Len(q) - 1)
      /\ \A j \in 1..(Len(q) - 1) : Tail(q)[j] = q[j + 1]
  BY <1>1
<1>4. QED
  BY <1>1, <1>2, <1>3

LEMMA AppendKeeps ==
  ASSUME NEW T, NEW q \in Seq(T), NEW e \in T, NEW R, e \in R,
         \A j \in DOMAIN q : q[j] \in R
  PROVE  \A j \in DOMAIN Append(q, e) : Append(q, e)[j] \in R
  OBVIOUS

(* The codes keep their way: the shell prints what it has run, the reader
   passes on what was printed, and the window looks for the latest command. *)
LEMMA CodeStep == TypeOK /\ CodeInv /\ [Next]_vars => CodeInv'
<1> SUFFICES ASSUME TypeOK, CodeInv, [Next]_vars
             PROVE  CodeInv'
  OBVIOUS
<1>0. UNCHANGED <<output, ran, events, issued, promise>> => CodeInv'
  BY DEF CodeInv
<1>1. ASSUME NEW i \in Sessions, StartStep(i) PROVE CodeInv'
  BY <1>0, <1>1 DEF StartStep, StartFails, Spawn, Insert, Launch, shellVars, windowVars
<1>2. ASSUME NEW i \in Sessions, LoopStep(i) PROVE CodeInv'
  <2>1. CASE LoopChecks(i) \/ LoopBreaks(i) \/ Cleanup(i)
    BY <1>0, <2>1 DEF LoopChecks, LoopBreaks, Cleanup, shellVars, windowVars
  <2>2. CASE LoopReads(i)
    <3> DEFINE o == output[i]
               e == events[i]
    <3>1. /\ output' = [output EXCEPT ![i] = Tail(o)]
          /\ events' = [events EXCEPT ![i] = Append(e, Head(o))]
          /\ o # <<>>
          /\ UNCHANGED <<ran, issued, promise>>
      BY <2>2 DEF LoopReads
    <3>2. /\ o \in Seq(Commands)
          /\ e \in Seq(Commands \cup {Exited})
          /\ Head(o) \in Commands
      BY <3>1 DEF TypeOK
    <3>3. /\ Head(o) \in ran[i]
          /\ \A j \in DOMAIN Tail(o) : Tail(o)[j] \in ran[i]
      BY <3>1, <3>2, TailKeeps DEF CodeInv
    <3>4. \A j \in DOMAIN Append(e, Head(o)) :
             Append(e, Head(o))[j] \in ran[i] \cup {Exited}
      <4>1. \A j \in DOMAIN e : e[j] \in ran[i] \cup {Exited}
        BY DEF CodeInv
      <4>2. QED
        BY <3>2, <3>3, <4>1, AppendKeeps
    <3>5. /\ output'[i] = Tail(o)
          /\ events'[i] = Append(e, Head(o))
          /\ \A j \in Sessions \ {i} : output'[j] = output[j] /\ events'[j] = events[j]
      BY <3>1 DEF TypeOK
    <3> HIDE DEF o, e
    <3>6. QED
      BY <3>1, <3>3, <3>4, <3>5 DEF CodeInv
  <2>3. CASE EmitExited(i)
    <3> DEFINE e == events[i]
    <3>1. /\ events' = [events EXCEPT ![i] = Append(e, Exited)]
          /\ UNCHANGED <<output, ran, issued, promise>>
      BY <2>3 DEF EmitExited, shellVars
    <3>2. e \in Seq(Commands \cup {Exited})
      BY DEF TypeOK
    <3>3. \A j \in DOMAIN e : e[j] \in ran[i] \cup {Exited}
      BY DEF CodeInv
    <3>4. \A j \in DOMAIN Append(e, Exited) :
             Append(e, Exited)[j] \in ran[i] \cup {Exited}
      BY <3>2, <3>3, AppendKeeps
    <3>5. /\ events'[i] = Append(e, Exited)
          /\ \A j \in Sessions \ {i} : events'[j] = events[j]
      BY <3>1 DEF TypeOK
    <3> HIDE DEF e
    <3>6. QED
      BY <3>1, <3>4, <3>5 DEF CodeInv
  <2>4. QED
    BY <1>2, <2>1, <2>2, <2>3 DEF LoopStep
<1>3. ASSUME NEW i \in Sessions, KillStep(i) \/ WriteStep(i) PROVE CodeInv'
  BY <1>0, <1>3 DEF KillStep, KillRemoves, KillFindsNothing, KillCloses,
                    WriteStep, WriteLooksUp, WriteWrites, shellVars, windowVars
<1>4. ASSUME NEW i \in Sessions, ShellStep(i) PROVE CodeInv'
  <2>1. CASE ShellRuns(i)
    <3> DEFINE o == output[i]
               c == Head(typed[i])
               R == ran[i] \cup {c}
    <3>1. /\ output' = [output EXCEPT ![i] = Append(o, c)]
          /\ ran' = [ran EXCEPT ![i] = R]
          /\ typed[i] # <<>>
          /\ UNCHANGED <<events, issued, promise>>
      BY <2>1 DEF ShellRuns, windowVars
    <3>2. o \in Seq(Commands) /\ c \in Commands
      BY <3>1 DEF TypeOK
    <3>3. \A j \in DOMAIN o : o[j] \in R
      BY DEF CodeInv
    <3>4. \A j \in DOMAIN Append(o, c) : Append(o, c)[j] \in R
      BY <3>2, <3>3, AppendKeeps
    <3>5. /\ output'[i] = Append(o, c)
          /\ ran'[i] = R
          /\ \A j \in Sessions \ {i} : output'[j] = output[j] /\ ran'[j] = ran[j]
      BY <3>1 DEF TypeOK
    <3>6. ran[i] \subseteq R
      OBVIOUS
    <3> HIDE DEF o, c, R
    <3>7. QED
      BY <3>1, <3>4, <3>5, <3>6 DEF CodeInv
  <2>2. CASE ShellExits(i)
    BY <1>0, <2>2 DEF ShellExits, windowVars
  <2>3. QED
    BY <1>4, <2>1, <2>2 DEF ShellStep
<1>5. ASSUME NEW i \in Sessions, WindowStep(i) PROVE CodeInv'
  <2>1. CASE CreateSession(i) \/ Created(i) \/ KillCalled(i) \/ Removed(i)
    BY <1>0, <2>1 DEF CreateSession, Created, KillCalled, Removed, shellVars, windowVars
  <2>2. CASE RunCommand(i)
    <3>1. /\ issued' = [issued EXCEPT ![i] = @ + 1]
          /\ promise' = [promise EXCEPT ![i] = "pending"]
          /\ UNCHANGED <<output, ran, events>>
      BY <2>2 DEF RunCommand, shellVars
    <3>2. issued[i] + 1 # Exited
      BY TerminalAssumption DEF TypeOK, Exited
    <3>3. QED
      BY <3>1, <3>2 DEF TypeOK, CodeInv
  <2>3. CASE Deliver(i)
    <3> DEFINE e == events[i]
    <3>1. /\ promise' = [promise EXCEPT ![i] = Told(i, Head(e))]
          /\ events' = [events EXCEPT ![i] = Tail(e)]
          /\ e # <<>>
          /\ UNCHANGED <<output, ran, issued>>
      BY <2>3 DEF Deliver, shellVars
    <3>2. e \in Seq(Commands \cup {Exited})
      BY DEF TypeOK
    <3>3. \A j \in DOMAIN e : e[j] \in ran[i] \cup {Exited}
      BY DEF CodeInv
    <3>4. /\ Head(e) \in ran[i] \cup {Exited}
          /\ \A j \in DOMAIN Tail(e) : Tail(e)[j] \in ran[i] \cup {Exited}
      BY <3>1, <3>2, <3>3, TailKeeps
    <3>5. /\ events'[i] = Tail(e)
          /\ promise'[i] = Told(i, Head(e))
          /\ \A j \in Sessions \ {i} : events'[j] = events[j] /\ promise'[j] = promise[j]
      BY <3>1 DEF TypeOK
    <3>6. /\ Told(i, Head(e)) = "pending" => promise[i] = "pending"
          /\ Told(i, Head(e)) = "code" => issued[i] \in ran[i]
      BY <3>4 DEF Told, Answers, CodeInv
    <3> HIDE DEF e
    <3>7. QED
      BY <3>1, <3>4, <3>5, <3>6 DEF CodeInv
  <2>4. CASE CommandTimesOut(i)
    BY <2>4 DEF CommandTimesOut, shellVars, TypeOK, CodeInv
  <2>5. QED
    BY <1>5, <2>1, <2>2, <2>3, <2>4 DEF WindowStep
<1>6. CASE ShutdownStep
  BY <1>0, <1>6 DEF ShutdownStep, ShutdownBegins, ShutdownCloses, ShutdownReturns,
                    shellVars, windowVars
<1>7. CASE UNCHANGED vars
  BY <1>0, <1>7 DEF vars, shellVars, windowVars
<1>8. QED
  BY <1>1, <1>2, <1>3, <1>4, <1>5, <1>6, <1>7 DEF Next

(* The exit code a command ends with is that of a run of its own, for any
   number of commands that have timed out before it.                        *)
THEOREM OwnExitCode == Spec => []CodeIsOwn
<1>1. Init => CodeInv
  <2> SUFFICES ASSUME Init, NEW i \in Sessions
               PROVE  /\ output[i] = <<>> /\ events[i] = <<>>
                      /\ promise[i] = "none"
    <3>1. DOMAIN <<>> = {}
      OBVIOUS
    <3>2. QED
      BY <3>1 DEF CodeInv
  <2>1. QED
    BY DEF Init
<1>2. CodeInv => CodeIsOwn
  BY DEF CodeInv, CodeIsOwn
<1>3. QED
  BY <1>1, <1>2, CodeStep, Typing, PTL DEF Spec

=============================================================================
