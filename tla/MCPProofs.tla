----------------------------- MODULE MCPProofs -----------------------------
(***************************************************************************)
(* Proofs about MCP, for any number of servers, connects and other calls.  *)
(***************************************************************************)
EXTENDS MCP, TLAPS

(* What a task is doing where it is. *)
Placed ==
  \A t \in Task :
    /\ pc[t] \in {"spawn", "notify", "insert"} => op[t] = "connect"
    /\ pc[t] \in {"lock", "recv"} => op[t] \in {"connect", "call"}
    /\ pc[t] = "stop" => op[t] \in {"disconnect", "delete", "close"} /\ name[t] \in Name
    /\ pc[t] = "closing" => op[t] = "close"
    /\ op[t] = "connect" => t \in Client /\ target[t] = t /\ name[t] \in Name
    /\ op[t] \in {"call", "disconnect", "delete", "close"} => t \in Other

TInv == TypeOK /\ Placed

LEMMA TypeInit == Init => TInv
<1> SUFFICES ASSUME Init PROVE TInv
  OBVIOUS
<1> USE MCPAssumption DEF Init
<1>1. stdin \in [Client -> Seq(Task)] /\ stdout \in [Client -> Seq(Lines)]
  <2>1. <<>> \in Seq(Task) /\ <<>> \in Seq(Lines)
    OBVIOUS
  <2>2. QED
    BY <2>1
<1>2. QED
  BY <1>1 DEF TInv, TypeOK, ServiceTyped, ClientsTyped, TasksTyped, Placed, Operations, Places

(* What becomes of the tasks when one of them goes on, is called or returns.  *)
TasksInv == TasksTyped /\ Placed

LEMMA Calling ==
  ASSUME TasksInv, NEW t \in Task, NEW o \in Operations, NEW n \in Name \cup {None},
         NEW c \in Client \cup {None}, NEW l \in Places, Called(t, o, n, c, l),
         \/ o = "connect" /\ l = "spawn" /\ t \in Client /\ c = t /\ n \in Name
         \/ o = "call" /\ l = "lock" /\ t \in Other /\ c # None
         \/ o \in {"disconnect", "delete", "close"} /\ l = "stop" /\ t \in Other
              /\ c # None /\ n \in Name
         \/ o = "close" /\ l = "closing" /\ t \in Other
  PROVE  TasksInv'
<1> USE DEF TasksInv, TasksTyped, Placed, Called
<1>1. TasksTyped'
  BY MCPAssumption DEF Task
<1>2. Placed'
  BY MCPAssumption DEF Task
<1>3. QED
  BY <1>1, <1>2

LEMMA Going ==
  ASSUME TasksInv, NEW t \in Task, NEW l \in Places, Goto(t, l), target[t] # None,
         \/ l \in {"lock", "recv", "notify", "insert"} /\ op[t] = "connect"
         \/ l = "recv" /\ op[t] = "call"
         \/ l = "closing" /\ op[t] = "close"
  PROVE  TasksInv'
<1> USE DEF TasksInv, TasksTyped, Placed, Goto
<1>1. TasksTyped'
  OBVIOUS
<1>2. Placed'
  BY MCPAssumption DEF Task
<1>3. QED
  BY <1>1, <1>2

LEMMA Returning ==
  ASSUME TasksInv, NEW t \in Task, Return(t)
  PROVE  TasksInv'
<1> USE DEF TasksInv, TasksTyped, Placed, Return
<1>1. TasksTyped'
  BY DEF Places, Operations
<1>2. Placed'
  BY MCPAssumption DEF Task
<1>3. QED
  BY <1>1, <1>2

LEMMA TypeStep == TInv /\ [Next]_vars => TInv'
<1> SUFFICES ASSUME TInv, [Next]_vars PROVE TInv'
  OBVIOUS
<1> USE MCPAssumption DEF TInv, TypeOK, TasksInv
<1>1. ASSUME NEW n \in Name, SaveServer(n) PROVE TInv'
  <2>1. config' \in [Name -> {"absent", "disabled", "enabled"}]
    BY <1>1 DEF SaveServer, ServiceTyped
  <2>2. ServiceTyped'
    BY <1>1, <2>1 DEF SaveServer, ServiceTyped
  <2>3. ClientsTyped' /\ TasksTyped' /\ Placed'
    BY <1>1 DEF SaveServer, ClientsTyped, TasksTyped, Placed, clientVars, taskVars
  <2>4. QED
    BY <2>2, <2>3
<1>2. ASSUME NEW t \in Task, NEW n \in Name, ConnectServer(t, n) PROVE TInv'
  <2>1. TasksInv'
    BY <1>2, Calling, Returning DEF ConnectServer, MayCall, Operations, Places
  <2>2. QED
    BY <1>2, <2>1 DEF ConnectServer, ServiceTyped, ClientsTyped, serviceVars, clientVars
<1>3. ASSUME NEW t \in Task, NEW n \in Name, CallTool(t, n) PROVE TInv'
  <2>1. TasksInv'
    BY <1>3, Calling, Returning DEF CallTool, MayCall, Operations, Places, ServiceTyped
  <2>2. QED
    BY <1>3, <2>1 DEF CallTool, ServiceTyped, ClientsTyped, serviceVars, clientVars
<1>4. ASSUME NEW t \in Task, NEW n \in Name, DisconnectServer(t, n) PROVE TInv'
  <2>1. TasksInv'
    BY <1>4, Calling, Returning DEF DisconnectServer, MayCall, Operations, Places, ServiceTyped
  <2>2. QED
    BY <1>4, <2>1 DEF DisconnectServer, ServiceTyped, ClientsTyped, clientVars
<1>5. ASSUME NEW t \in Task, NEW n \in Name, DeleteServer(t, n) PROVE TInv'
  <2>1. TasksInv'
    BY <1>5, Calling, Returning DEF DeleteServer, MayCall, Operations, Places, ServiceTyped
  <2>2. QED
    BY <1>5, <2>1 DEF DeleteServer, MayCall, ServiceTyped, ClientsTyped, clientVars
<1>6. ASSUME NEW t \in Task, Close(t) PROVE TInv'
  <2>1. TasksInv'
    BY <1>6, Calling DEF Close, MayCall, Operations, Places
  <2>2. QED
    BY <1>6, <2>1 DEF Close, MayCall, ServiceTyped, ClientsTyped, clientVars
<1>7. ASSUME NEW t \in Task, CloseNext(t) PROVE TInv'
  <2>1. t \in Other
    BY <1>7 DEF CloseNext, Placed
  <2>2. TasksInv'
    BY <1>7, <2>1, Calling, Returning DEF CloseNext, Operations, Places, ServiceTyped
  <2>3. QED
    BY <1>7, <2>2 DEF CloseNext, ServiceTyped, ClientsTyped, clientVars
<1>8. ASSUME NEW t \in Task, StopServer(t) PROVE TInv'
  <2>1. target[t] \in Client /\ name[t] \in Name /\ target[t] # None
    BY <1>8 DEF StopServer, TasksTyped, Placed
  <2>2. TasksInv'
    BY <1>8, <2>1, Going, Returning DEF StopServer, Places
  <2>3. ServiceTyped'
    BY <1>8, <2>1 DEF StopServer, ServiceTyped
  <2>4. ClientsTyped'
    BY <1>8, <2>1 DEF StopServer, Killed, ClientsTyped
  <2>5. QED
    BY <2>2, <2>3, <2>4
<1>9. ASSUME NEW t \in Task, Spawn(t) PROVE TInv'
  <2>1. op[t] = "connect" /\ target[t] # None
    BY <1>9 DEF Spawn, TasksTyped, Placed
  <2>2. TasksInv'
    BY <1>9, <2>1, Going, Returning DEF Spawn, Places
  <2>3. QED
    BY <1>9, <2>2 DEF Spawn, ServiceTyped, ClientsTyped, serviceVars
<1>10. ASSUME NEW t \in Task, Send(t) PROVE TInv'
  <2>1. op[t] \in {"connect", "call"} /\ target[t] \in Client /\ target[t] # None
    BY <1>10 DEF Send, TasksTyped, Placed
  <2>2. TasksInv'
    BY <1>10, <2>1, Going DEF Send, Places
  <2>3. stdin' \in [Client -> Seq(Task)]
    BY <1>10, <2>1 DEF Send, ClientsTyped
  <2>4. QED
    BY <1>10, <2>1, <2>2, <2>3 DEF Send, ServiceTyped, ClientsTyped, serviceVars
<1>11. ASSUME NEW t \in Task, Fails(t), UNCHANGED <<serviceVars, closed, noisy, lost>>,
              pc[t] \in {"lock", "recv", "notify"}
       PROVE  TInv'
  <2>1. TasksInv'
    BY <1>11, Returning DEF Fails
  <2>2. ClientsTyped'
    <3>1. <<>> \in Seq(Task) /\ <<>> \in Seq(Lines)
      OBVIOUS
    <3>2. stdin' \in [Client -> Seq(Task)]
      BY <1>11, <3>1 DEF Fails, Killed, ClientsTyped
    <3>3. stdout' \in [Client -> Seq(Lines)]
      BY <1>11, <3>1 DEF Fails, Killed, ClientsTyped
    <3>4. QED
      BY <1>11, <3>2, <3>3 DEF Fails, Killed, Unlock, ClientsTyped
  <2>3. QED
    BY <1>11, <2>1, <2>2 DEF ServiceTyped, serviceVars
<1>12. ASSUME NEW t \in Task, Receive(t) PROVE TInv'
  <2>1. op[t] \in {"connect", "call"} /\ target[t] \in Client /\ target[t] # None
    BY <1>12 DEF Receive, TasksTyped, Placed
  <2>2. CASE op[t] = "connect" /\ Fails(t)
    BY <1>11, <1>12, <2>2 DEF Receive
  <2>3. CASE ~(op[t] = "connect" /\ Fails(t))
    <3>1. TasksInv'
      BY <1>12, <2>1, <2>3, Going, Returning DEF Receive, Places
    <3>2. stdout[target[t]] \in Seq(Lines) /\ stdout[target[t]] # <<>>
      BY <1>12, <2>1 DEF Receive, ClientsTyped
    <3>3. Tail(stdout[target[t]]) \in Seq(Lines)
      BY <3>2
    <3>4. stdout' \in [Client -> Seq(Lines)]
      BY <1>12, <2>1, <2>3, <3>3 DEF Receive, ClientsTyped
    <3>5. QED
      BY <1>12, <2>1, <2>3, <3>1, <3>4 DEF Receive, Unlock, ServiceTyped, ClientsTyped, serviceVars
  <2>4. QED
    BY <2>2, <2>3
<1>13. ASSUME NEW t \in Task, ReceiveGarbage(t) PROVE TInv'
  <2>1. target[t] \in Client
    BY <1>13 DEF ReceiveGarbage, TasksTyped
  <2>2. CASE op[t] = "connect" /\ Fails(t)
    BY <1>11, <1>13, <2>2 DEF ReceiveGarbage
  <2>3. CASE ~(op[t] = "connect" /\ Fails(t))
    <3>1. TasksInv'
      BY <1>13, <2>3, Returning DEF ReceiveGarbage
    <3>2. stdout[target[t]] \in Seq(Lines) /\ stdout[target[t]] # <<>>
      BY <1>13, <2>1 DEF ReceiveGarbage, ClientsTyped
    <3>3. Tail(stdout[target[t]]) \in Seq(Lines)
      BY <3>2
    <3>4. stdout' \in [Client -> Seq(Lines)]
      BY <1>13, <2>1, <2>3, <3>3 DEF ReceiveGarbage, ClientsTyped
    <3>5. QED
      BY <1>13, <2>1, <2>3, <3>1, <3>4
      DEF ReceiveGarbage, Unlock, ServiceTyped, ClientsTyped, serviceVars
  <2>4. QED
    BY <2>2, <2>3
<1>14. ASSUME NEW t \in Task, SendFails(t) \/ ReceiveEnd(t) PROVE TInv'
  BY <1>11, <1>14 DEF SendFails, ReceiveEnd
<1>15. ASSUME NEW t \in Task, Notify(t) PROVE TInv'
  <2>1. op[t] = "connect" /\ target[t] # None
    BY <1>15 DEF Notify, TasksTyped, Placed
  <2>2. TasksInv'
    BY <1>15, <2>1, Going DEF Notify, Places
  <2>3. QED
    BY <1>15, <2>2 DEF Notify, ServiceTyped, ClientsTyped, serviceVars, clientVars
<1>16. ASSUME NEW t \in Task, Insert(t) PROVE TInv'
  <2>1. t \in Client /\ name[t] \in Name
    BY <1>16 DEF Insert, Placed
  <2>2. TasksInv'
    BY <1>16, Returning DEF Insert
  <2>3. QED
    BY <1>16, <2>1, <2>2 DEF Insert, ServiceTyped, ClientsTyped, clientVars
<1>17. ASSUME NEW c \in Client, Answer(c) PROVE TInv'
  BY <1>17 DEF Answer, ServiceTyped, ClientsTyped, TasksTyped, Placed, serviceVars, taskVars, Lines
<1>18. ASSUME NEW c \in Client, NEW m \in {"notification", "garbage"}, Talk(c, m) PROVE TInv'
  BY <1>18 DEF Talk, ServiceTyped, ClientsTyped, TasksTyped, Placed, serviceVars, taskVars, Lines
<1>19. ASSUME NEW c \in Client, Die(c) PROVE TInv'
  BY <1>19 DEF Die, ServiceTyped, ClientsTyped, TasksTyped, Placed, serviceVars, taskVars
<1>20. CASE UNCHANGED vars
  BY <1>20 DEF vars, ServiceTyped, ClientsTyped, TasksTyped, Placed, serviceVars, clientVars, taskVars
<1>21. QED
  <2>1. ASSUME NEW t \in Task, Call(t) PROVE TInv'
    BY <1>2, <1>3, <1>4, <1>5, <1>6, <2>1 DEF Call
  <2>2. ASSUME NEW t \in Task, Proceed(t) PROVE TInv'
    BY <1>7, <1>8, <1>9, <1>10, <1>12, <1>13, <1>14, <1>15, <1>16, <2>2 DEF Proceed, Request
  <2>3. QED
    BY <1>1, <1>17, <1>18, <1>19, <1>20, <2>1, <2>2 DEF Next

(* The types of every reachable state; in particular no task works on a client
   that it has not got.                                                     *)
THEOREM TypeCorrect == Spec => []TypeOK
<1>1. TInv => TypeOK
  BY DEF TInv
<1>2. QED
  BY <1>1, TypeInit, TypeStep, PTL DEF Spec

LEMMA Typed == Spec => []TInv
BY TypeInit, TypeStep, PTL DEF Spec

-----------------------------------------------------------------------------
(* Whose mutex is whose: the task that waits in Recv for a client holds its
   mutex, and nobody else.                                                  *)
MutexInv ==
  /\ \A t \in Task : pc[t] = "recv" => busy[target[t]] = t
  /\ \A c \in Client : busy[c] # None => pc[busy[c]] = "recv" /\ target[busy[c]] = c

(* The pipes of a client whose server has sent nothing but answers hold one
   line at most, and it is of the task that holds the mutex.                *)
Paired(c) ==
  \/ stdin[c] = <<>> /\ stdout[c] = <<>>
  \/ busy[c] # None /\ stdin[c] = <<busy[c]>> /\ stdout[c] = <<>>
  \/ busy[c] # None /\ stdin[c] = <<>> /\ stdout[c] = <<busy[c]>>

PipesInv ==
  \A c \in Client : /\ proc[c] = "dead" => stdin[c] = <<>>
                    /\ ~noisy[c] => Paired(c)

AnswerInv == MutexInv /\ PipesInv

LEMMA AnswerInit == Init => AnswerInv
BY DEF Init, AnswerInv, MutexInv, PipesInv, Paired

(* What a step does to them that leaves the clients alone, and nobody enters or
   leaves Recv.                                                             *)
LEMMA AnswerFrame ==
  ASSUME TInv, AnswerInv, UNCHANGED <<busy, proc, stdin, stdout, noisy>>,
         \A u \in Task : /\ pc'[u] = "recv" <=> pc[u] = "recv"
                         /\ pc[u] = "recv" => target'[u] = target[u]
  PROVE  AnswerInv'
<1>1. MutexInv'
  <2>1. \A c \in Client : busy[c] \in Task \cup {None}
    BY DEF TInv, TypeOK, ClientsTyped
  <2>2. QED
    BY <2>1 DEF AnswerInv, MutexInv
<1>2. PipesInv'
  BY DEF AnswerInv, PipesInv, Paired
<1>3. QED
  BY <1>1, <1>2 DEF AnswerInv

(* A request that fails unlocks the mutex, and a connect empties the pipes. *)
LEMMA AnswerFails ==
  ASSUME TInv, AnswerInv, NEW t \in Task, Fails(t), UNCHANGED <<closed, noisy>>,
         \/ pc[t] \in {"lock", "notify"} /\ busy[target[t]] = None
         \/ pc[t] = "recv" /\ stdout[target[t]] = <<>> /\ proc[target[t]] = "dead"
         \/ pc[t] = "recv" /\ op[t] = "connect"
  PROVE  AnswerInv'
<1> USE DEF TInv, TypeOK, AnswerInv
<1>1. target[t] \in Client /\ (op[t] = "connect" => target[t] = t)
  BY DEF TasksTyped, Placed
<1>2. busy[target[t]] \in {None, t}
  BY <1>1 DEF MutexInv
<1>3. /\ busy' = [busy EXCEPT ![target[t]] = None]
      /\ pc' = [pc EXCEPT ![t] = "done"] /\ target' = [target EXCEPT ![t] = None]
  BY DEF Fails, Unlock, Return
<1>4. MutexInv'
  <2>1. ASSUME NEW u \in Task, pc'[u] = "recv" PROVE busy'[target'[u]] = u
    <3>1. u # t /\ pc[u] = "recv" /\ target'[u] = target[u] /\ busy[target[u]] = u
      BY <1>3, <2>1 DEF TasksTyped, MutexInv
    <3>2. target[u] # target[t]
      BY <1>2, <3>1, MCPAssumption
    <3>3. QED
      BY <1>3, <3>1, <3>2 DEF ClientsTyped, TasksTyped
  <2>2. ASSUME NEW c \in Client, busy'[c] # None
        PROVE  pc'[busy'[c]] = "recv" /\ target'[busy'[c]] = c
    <3>1. c # target[t] /\ busy'[c] = busy[c] /\ busy[c] \in Task
      BY <1>1, <1>3, <2>2 DEF ClientsTyped
    <3>2. pc[busy[c]] = "recv" /\ target[busy[c]] = c
      BY <3>1, <2>2 DEF MutexInv
    <3>3. QED
      BY <1>3, <3>1, <3>2 DEF TasksTyped
  <2>3. QED
    BY <2>1, <2>2 DEF MutexInv
<1>5. ASSUME NEW c \in Client
      PROVE  (proc'[c] = "dead" => stdin'[c] = <<>>) /\ (~noisy'[c] => Paired(c)')
  <2>1. CASE op[t] = "connect" /\ c = t
    BY <2>1 DEF Fails, Killed, ClientsTyped, Paired
  <2>2. CASE c # target[t]
    <3>1. UNCHANGED <<busy[c], proc[c], stdin[c], stdout[c]>>
      BY <1>1, <1>3, <2>2 DEF Fails, Killed, ClientsTyped
    <3>2. QED
      BY <3>1 DEF PipesInv, Paired
  <2>3. CASE op[t] # "connect" /\ c = target[t]
    <3>1. UNCHANGED <<proc[c], stdin[c], stdout[c]>>
      BY <2>3 DEF Fails
    <3>2. ~noisy[c] => stdin[c] = <<>> /\ stdout[c] = <<>>
      BY <2>3 DEF PipesInv, Paired
    <3>3. QED
      BY <3>1, <3>2 DEF PipesInv, Paired
  <2>4. QED
    BY <1>1, <2>1, <2>2, <2>3
<1>6. QED
  BY <1>4, <1>5 DEF PipesInv

(* A line was read: the mutex is unlocked, and the line was the only one. *)
LEMMA AnswerRead ==
  ASSUME TInv, AnswerInv, NEW t \in Task, NEW l \in {"notify", "done"},
         pc[t] = "recv", stdout[target[t]] # <<>>, Unlock(target[t]),
         stdout' = [stdout EXCEPT ![target[t]] = Tail(@)],
         UNCHANGED <<proc, stdin, noisy>>, pc' = [pc EXCEPT ![t] = l],
         \A u \in Task \ {t} : target'[u] = target[u]
  PROVE  AnswerInv'
<1> USE DEF TInv, TypeOK, AnswerInv
<1>1. target[t] \in Client /\ busy[target[t]] = t
  BY DEF TasksTyped, MutexInv
<1>2. busy' = [busy EXCEPT ![target[t]] = None]
  BY DEF Unlock
<1>3. MutexInv'
  <2>1. ASSUME NEW u \in Task, pc'[u] = "recv" PROVE busy'[target'[u]] = u
    <3>1. u # t /\ pc[u] = "recv" /\ target'[u] = target[u] /\ busy[target[u]] = u
      BY <2>1 DEF TasksTyped, MutexInv
    <3>2. target[u] # target[t]
      BY <1>1, <3>1
    <3>3. QED
      BY <1>2, <3>1, <3>2 DEF ClientsTyped, TasksTyped
  <2>2. ASSUME NEW c \in Client, busy'[c] # None
        PROVE  pc'[busy'[c]] = "recv" /\ target'[busy'[c]] = c
    <3>1. c # target[t] /\ busy'[c] = busy[c] /\ busy[c] \in Task
      BY <1>1, <1>2, <2>2 DEF ClientsTyped
    <3>2. pc[busy[c]] = "recv" /\ target[busy[c]] = c
      BY <3>1, <2>2 DEF MutexInv
    <3>3. QED
      BY <3>1, <3>2 DEF TasksTyped
  <2>3. QED
    BY <2>1, <2>2 DEF MutexInv
<1>4. ASSUME NEW c \in Client
      PROVE  (proc'[c] = "dead" => stdin'[c] = <<>>) /\ (~noisy'[c] => Paired(c)')
  <2>1. CASE c # target[t]
    <3>1. UNCHANGED <<busy[c], stdout[c]>>
      BY <1>1, <1>2, <2>1 DEF ClientsTyped
    <3>2. QED
      BY <3>1 DEF PipesInv, Paired
  <2>2. CASE c = target[t]
    <3>1. ~noisy[c] => stdin[c] = <<>> /\ stdout[c] = <<t>>
      BY <1>1, <2>2 DEF PipesInv, Paired
    <3>2. stdout'[c] = Tail(stdout[c])
      BY <2>2 DEF ClientsTyped
    <3>3. Tail(<<t>>) = <<>>
      OBVIOUS
    <3>4. QED
      BY <3>1, <3>2, <3>3 DEF PipesInv, Paired
  <2>3. QED
    BY <2>1, <2>2
<1>5. QED
  BY <1>3, <1>4 DEF PipesInv

LEMMA AnswerStep == TInv /\ AnswerInv /\ [Next]_vars => AnswerInv'
<1> SUFFICES ASSUME TInv, AnswerInv, [Next]_vars PROVE AnswerInv'
  OBVIOUS
<1>1. ASSUME NEW n \in Name, SaveServer(n) PROVE AnswerInv'
  BY <1>1, AnswerFrame DEF SaveServer, clientVars, taskVars
<1>2. ASSUME NEW t \in Task, Call(t) PROVE AnswerInv'
  <2>1. UNCHANGED <<busy, proc, stdin, stdout, noisy>> /\ pc[t] = "idle"
    BY <1>2 DEF Call, ConnectServer, CallTool, DisconnectServer, DeleteServer, Close,
                MayCall, clientVars
  <2>2. \E l \in {"spawn", "lock", "stop", "closing", "done"} : pc' = [pc EXCEPT ![t] = l]
    BY <1>2 DEF Call, ConnectServer, CallTool, DisconnectServer, DeleteServer, Close,
                Called, Return
  <2>3. \A u \in Task \ {t} : target'[u] = target[u]
    BY <1>2 DEF Call, ConnectServer, CallTool, DisconnectServer, DeleteServer, Close,
                Called, Return, TInv, TypeOK, TasksTyped
  <2>4. QED
    BY <2>1, <2>2, <2>3, AnswerFrame DEF TInv, TypeOK, TasksTyped
<1>3. ASSUME NEW t \in Task, CloseNext(t) \/ Notify(t) \/ Insert(t) PROVE AnswerInv'
  <2>1. UNCHANGED <<busy, proc, stdin, stdout, noisy>> /\ pc[t] # "recv"
    BY <1>3 DEF CloseNext, Notify, Insert, clientVars
  <2>2. \E l \in {"stop", "insert", "done"} : pc' = [pc EXCEPT ![t] = l]
    BY <1>3 DEF CloseNext, Notify, Insert, Called, Goto, Return
  <2>3. \A u \in Task \ {t} : target'[u] = target[u]
    BY <1>3 DEF CloseNext, Notify, Insert, Called, Goto, Return, TInv, TypeOK, TasksTyped
  <2>4. QED
    BY <2>1, <2>2, <2>3, AnswerFrame DEF TInv, TypeOK, TasksTyped
<1>4. ASSUME NEW t \in Task, Spawn(t) PROVE AnswerInv'
  <2>1. MutexInv'
    <3>1. \E l \in {"lock", "done"} : pc' = [pc EXCEPT ![t] = l]
      BY <1>4 DEF Spawn, Goto, Return
    <3>2. busy' = busy /\ pc[t] = "spawn" /\ \A u \in Task \ {t} : target'[u] = target[u]
      BY <1>4 DEF Spawn, Goto, Return, TInv, TypeOK, TasksTyped
    <3>3. \A c \in Client : busy[c] \in Task \cup {None}
      BY DEF TInv, TypeOK, ClientsTyped
    <3>4. QED
      BY <3>1, <3>2, <3>3 DEF AnswerInv, MutexInv, TInv, TypeOK, TasksTyped
  <2>2. PipesInv'
    BY <1>4 DEF Spawn, AnswerInv, PipesInv, Paired, TInv, TypeOK, ClientsTyped
  <2>3. QED
    BY <2>1, <2>2 DEF AnswerInv
<1>5. ASSUME NEW t \in Task, StopServer(t) PROVE AnswerInv'
  <2> DEFINE c == target[t]
  <2>1. c \in Client /\ busy[c] = None /\ busy' = busy /\ noisy' = noisy
    BY <1>5 DEF StopServer, TInv, TypeOK, TasksTyped
  <2>2. \E l \in {"closing", "done"} : pc' = [pc EXCEPT ![t] = l]
    BY <1>5 DEF StopServer, Goto, Return
  <2>3. pc[t] = "stop" /\ \A u \in Task \ {t} : target'[u] = target[u]
    BY <1>5 DEF StopServer, Goto, Return, TInv, TypeOK, TasksTyped
  <2>4. MutexInv'
    <3>1. \A d \in Client : busy[d] \in Task \cup {None}
      BY DEF TInv, TypeOK, ClientsTyped
    <3>2. QED
      BY <2>1, <2>2, <2>3, <3>1 DEF AnswerInv, MutexInv, TInv, TypeOK, TasksTyped
  <2>5. ASSUME NEW d \in Client
        PROVE  (proc'[d] = "dead" => stdin'[d] = <<>>) /\ (~noisy'[d] => Paired(d)')
    <3>1. CASE d = c
      BY <1>5, <2>1, <3>1 DEF StopServer, Killed, Paired, TInv, TypeOK, ClientsTyped
    <3>2. CASE d # c
      <4>1. UNCHANGED <<proc[d], stdin[d], stdout[d]>>
        BY <1>5, <2>1, <3>2 DEF StopServer, Killed, TInv, TypeOK, ClientsTyped
      <4>2. QED
        BY <2>1, <4>1 DEF AnswerInv, PipesInv, Paired
    <3>3. QED
      BY <3>1, <3>2
  <2>6. QED
    BY <2>4, <2>5 DEF AnswerInv, PipesInv
<1>6. ASSUME NEW t \in Task, Send(t) PROVE AnswerInv'
  <2> DEFINE c == target[t]
  <2>1. c \in Client /\ pc[t] = "lock" /\ busy[c] = None /\ proc[c] = "running"
    BY <1>6 DEF Send, TInv, TypeOK, TasksTyped
  <2>2. /\ busy' = [busy EXCEPT ![c] = t] /\ pc' = [pc EXCEPT ![t] = "recv"]
        /\ target' = target /\ UNCHANGED <<proc, stdout, noisy>>
    BY <1>6 DEF Send, Goto
  <2>3. MutexInv'
    <3>1. ASSUME NEW u \in Task, pc'[u] = "recv" PROVE busy'[target'[u]] = u
      <4>1. CASE u = t
        BY <2>1, <2>2, <4>1 DEF TInv, TypeOK, ClientsTyped
      <4>2. CASE u # t
        <5>1. pc[u] = "recv" /\ busy[target[u]] = u
          BY <2>2, <3>1, <4>2 DEF AnswerInv, MutexInv, TInv, TypeOK, TasksTyped
        <5>2. target[u] # c
          BY <2>1, <5>1, MCPAssumption
        <5>3. QED
          BY <2>2, <5>1, <5>2 DEF TInv, TypeOK, ClientsTyped, TasksTyped
      <4>3. QED
        BY <4>1, <4>2
    <3>2. ASSUME NEW d \in Client, busy'[d] # None
          PROVE  pc'[busy'[d]] = "recv" /\ target'[busy'[d]] = d
      <4>1. CASE d = c
        BY <2>1, <2>2, <4>1 DEF TInv, TypeOK, ClientsTyped, TasksTyped
      <4>2. CASE d # c
        <5>1. busy'[d] = busy[d] /\ busy[d] \in Task
          BY <2>2, <3>2, <4>2 DEF TInv, TypeOK, ClientsTyped
        <5>2. QED
          BY <2>2, <3>2, <5>1 DEF AnswerInv, MutexInv, TInv, TypeOK, TasksTyped
      <4>3. QED
        BY <4>1, <4>2
    <3>3. QED
      BY <3>1, <3>2 DEF MutexInv
  <2>4. ASSUME NEW d \in Client
        PROVE  (proc'[d] = "dead" => stdin'[d] = <<>>) /\ (~noisy'[d] => Paired(d)')
    <3>1. CASE d = c
      <4>1. stdin'[d] = Append(stdin[d], t) /\ busy'[d] = t /\ t # None
        BY <1>6, <2>1, <2>2, <3>1, MCPAssumption DEF Send, TInv, TypeOK, ClientsTyped
      <4>2. ~noisy[d] => stdin[d] = <<>> /\ stdout[d] = <<>>
        BY <2>1, <3>1 DEF AnswerInv, PipesInv, Paired
      <4>3. Append(<<>>, t) = <<t>>
        OBVIOUS
      <4>4. QED
        BY <2>1, <2>2, <3>1, <4>1, <4>2, <4>3 DEF Paired
    <3>2. CASE d # c
      <4>1. UNCHANGED <<busy[d], stdin[d]>>
        BY <1>6, <2>2, <3>2 DEF Send, TInv, TypeOK, ClientsTyped
      <4>2. QED
        BY <2>2, <4>1 DEF AnswerInv, PipesInv, Paired
    <3>3. QED
      BY <3>1, <3>2
  <2>5. QED
    BY <2>3, <2>4 DEF AnswerInv, PipesInv
<1>7. ASSUME NEW t \in Task, SendFails(t) \/ ReceiveEnd(t) PROVE AnswerInv'
  BY <1>7, AnswerFails DEF SendFails, ReceiveEnd
<1>8. ASSUME NEW t \in Task, Receive(t) PROVE AnswerInv'
  <2>1. CASE op[t] = "connect" /\ Fails(t)
    BY <1>8, <2>1, AnswerFails DEF Receive
  <2>2. CASE ~(op[t] = "connect" /\ Fails(t))
    <3>1. \E l \in {"notify", "done"} : pc' = [pc EXCEPT ![t] = l]
      BY <1>8, <2>2 DEF Receive, Goto, Return
    <3>2. \A u \in Task \ {t} : target'[u] = target[u]
      BY <1>8, <2>2 DEF Receive, Goto, Return, TInv, TypeOK, TasksTyped
    <3>3. QED
      BY <1>8, <2>2, <3>1, <3>2, AnswerRead DEF Receive
  <2>3. QED
    BY <2>1, <2>2
<1>9. ASSUME NEW t \in Task, ReceiveGarbage(t) PROVE AnswerInv'
  <2>1. CASE op[t] = "connect" /\ Fails(t)
    BY <1>9, <2>1, AnswerFails DEF ReceiveGarbage
  <2>2. CASE ~(op[t] = "connect" /\ Fails(t))
    <3>1. pc' = [pc EXCEPT ![t] = "done"] /\ \A u \in Task \ {t} : target'[u] = target[u]
      BY <1>9, <2>2 DEF ReceiveGarbage, Return, TInv, TypeOK, TasksTyped
    <3>2. QED
      BY <1>9, <2>2, <3>1, AnswerRead DEF ReceiveGarbage
  <2>3. QED
    BY <2>1, <2>2
<1>10. ASSUME NEW c \in Client, Answer(c) PROVE AnswerInv'
  <2>1. MutexInv'
    BY <1>10 DEF Answer, AnswerInv, MutexInv, taskVars
  <2>2. ASSUME NEW d \in Client
        PROVE  (proc'[d] = "dead" => stdin'[d] = <<>>) /\ (~noisy'[d] => Paired(d)')
    <3>1. CASE d = c
      <4>1. stdin'[d] = Tail(stdin[d]) /\ stdout'[d] = Append(stdout[d], Head(stdin[d]))
        BY <1>10, <3>1 DEF Answer, TInv, TypeOK, ClientsTyped
      <4>2. ~noisy[d] => busy[d] # None /\ stdin[d] = <<busy[d]>> /\ stdout[d] = <<>>
        BY <1>10, <3>1 DEF Answer, AnswerInv, PipesInv, Paired
      <4>3. /\ Head(<<busy[d]>>) = busy[d] /\ Tail(<<busy[d]>>) = <<>>
            /\ Append(<<>>, busy[d]) = <<busy[d]>>
        OBVIOUS
      <4>4. QED
        BY <1>10, <3>1, <4>1, <4>2, <4>3 DEF Answer, Paired
    <3>2. CASE d # c
      <4>1. UNCHANGED <<stdin[d], stdout[d]>>
        BY <1>10, <3>2 DEF Answer, TInv, TypeOK, ClientsTyped
      <4>2. QED
        BY <1>10, <4>1 DEF Answer, AnswerInv, PipesInv, Paired
    <3>3. QED
      BY <3>1, <3>2
  <2>3. QED
    BY <2>1, <2>2 DEF AnswerInv, PipesInv
<1>11. ASSUME NEW c \in Client, NEW m \in {"notification", "garbage"}, Talk(c, m)
       PROVE  AnswerInv'
  <2>1. MutexInv'
    BY <1>11 DEF Talk, AnswerInv, MutexInv, taskVars
  <2>2. PipesInv'
    BY <1>11 DEF Talk, AnswerInv, PipesInv, Paired, TInv, TypeOK, ClientsTyped
  <2>3. QED
    BY <2>1, <2>2 DEF AnswerInv
<1>12. ASSUME NEW c \in Client, Die(c) PROVE AnswerInv'
  <2>1. MutexInv'
    BY <1>12 DEF Die, AnswerInv, MutexInv, taskVars
  <2>2. PipesInv'
    BY <1>12 DEF Die, AnswerInv, PipesInv, Paired, TInv, TypeOK, ClientsTyped
  <2>3. QED
    BY <2>1, <2>2 DEF AnswerInv
<1>13. CASE UNCHANGED vars
  BY <1>13, AnswerFrame DEF vars, clientVars, taskVars
<1>14. QED
  <2>1. ASSUME NEW t \in Task, Proceed(t) PROVE AnswerInv'
    BY <1>3, <1>4, <1>5, <1>6, <1>7, <1>8, <1>9, <2>1 DEF Proceed, Request
  <2>2. QED
    BY <1>1, <1>2, <1>10, <1>11, <1>12, <1>13, <2>1 DEF Next

(* A call never takes the answer to another call for its own: call() does not
   look at ids, and needs not to as long as the server sends only answers.  *)
THEOREM AnswersOwn == Spec => []OwnAnswer
<1>1. TInv /\ AnswerInv => OwnAnswer
  <2> SUFFICES ASSUME TInv, AnswerInv, NEW t \in Task, pc[t] = "recv",
                      stdout[target[t]] # <<>>, ~noisy[target[t]]
               PROVE  Head(stdout[target[t]]) = t
    BY DEF OwnAnswer
  <2>1. target[t] \in Client /\ busy[target[t]] = t
    BY DEF TInv, TypeOK, TasksTyped, AnswerInv, MutexInv
  <2>2. stdout[target[t]] = <<t>>
    BY <2>1 DEF AnswerInv, PipesInv, Paired
  <2>3. QED
    BY <2>2
<1>2. QED
  BY <1>1, Typed, AnswerInit, AnswerStep, PTL DEF Spec

-----------------------------------------------------------------------------
(* Who keeps s.mu while it waits. *)
Keeps(t) == pc[t] = "closing" \/ (pc[t] = "stop" /\ op[t] \in {"delete", "close"})
Kept == \A t \in Task : holder = t <=> Keeps(t)

\* Only a client whose connect has returned is in the table or in use by others,
\* and a connect that has not spawned its process has none.
Listed == \A n \in Name : clients[n] # None => pc[clients[n]] = "done"
Known == \A t \in Task : target[t] \notin {None, t} => pc[target[t]] = "done"
Fresh == \A c \in Client : pc[c] \in {"idle", "spawn"} => proc[c] = "none"

\* What a delete or the shutdown takes out of the table is what it stops.
Stopping == \A t \in Task : pc[t] = "stop" /\ op[t] # "disconnect" => clients[name[t]] = target[t]

StrayInv == Kept /\ Listed /\ Known /\ Fresh /\ Stopping /\ NoStray

LEMMA StrayInit == Init => StrayInv
BY MCPAssumption
DEF Init, StrayInv, Kept, Keeps, Listed, Known, Fresh, Stopping, NoStray, Task

(* A request goes on, or fails: a connect that ends here leaves no process. *)
LEMMA StrayRequest ==
  ASSUME TInv, StrayInv, NEW t \in Task, NEW l \in {"lock", "recv", "notify", "insert", "done"},
         pc[t] \in {"spawn", "lock", "recv", "notify"}, pc' = [pc EXCEPT ![t] = l],
         UNCHANGED <<clients, holder, lost>>,
         \A u \in Task \ {t} : op'[u] = op[u] /\ name'[u] = name[u] /\ target'[u] = target[u],
         target'[t] \in {None, target[t]},
         \A c \in Client \ {t} : proc'[c] = proc[c],
         t \in Client /\ l = "done" => proc'[t] # "running"
  PROVE  StrayInv'
<1> USE DEF TInv, TypeOK, StrayInv
<1>1. \A u \in Task : pc'[u] = IF u = t THEN l ELSE pc[u]
  BY DEF TasksTyped
<1>2. Kept'
  BY <1>1 DEF Kept, Keeps
<1>3. Listed'
  <2>1. \A n \in Name : clients[n] # None => clients[n] \in Task
    BY DEF ServiceTyped, Task
  <2>2. QED
    BY <1>1, <2>1 DEF Listed
<1>4. Known'
  <2>1. \A u \in Task : target[u] # None => target[u] \in Task
    BY DEF TasksTyped, Task
  <2>2. QED
    BY <1>1, <2>1 DEF Known
<1>5. Fresh'
  BY <1>1 DEF Fresh, Task
<1>6. Stopping'
  BY <1>1 DEF Stopping
<1>7. ASSUME NEW c \in Client, proc'[c] = "running" PROVE Attended(c)' \/ c \in lost'
  <2>1. CASE c = t
    BY <1>1, <1>7, <2>1 DEF Attended
  <2>2. CASE c # t
    <3>1. Attended(c) \/ c \in lost
      BY <1>7, <2>2 DEF NoStray
    <3>2. pc'[c] = pc[c]
      BY <1>1, <2>2 DEF Task
    <3>3. QED
      BY <1>1, <3>1, <3>2 DEF Attended
  <2>3. QED
    BY <2>1, <2>2
<1>8. NoStray'
  BY <1>7 DEF NoStray
<1>9. QED
  BY <1>2, <1>3, <1>4, <1>5, <1>6, <1>8

(* A call begins: what it stops, it has from the table. *)
LEMMA StrayCall ==
  ASSUME TInv, StrayInv, NEW t \in Task, Call(t)
  PROVE  StrayInv'
<1> USE DEF TInv, TypeOK, StrayInv
<1>1. pc[t] = "idle" /\ holder = None /\ lost' = lost /\ proc' = proc
  BY DEF Call, ConnectServer, CallTool, DisconnectServer, DeleteServer, Close, MayCall, Free, clientVars
<1>2. \A u \in Task : ~Keeps(u)
  BY <1>1, MCPAssumption DEF Kept
<1>3. PICK l \in {"spawn", "lock", "stop", "closing", "done"} : pc' = [pc EXCEPT ![t] = l]
  BY DEF Call, ConnectServer, CallTool, DisconnectServer, DeleteServer, Close, Called, Return
<1>4. \A u \in Task : pc'[u] = IF u = t THEN l ELSE pc[u]
  BY <1>3 DEF TasksTyped
<1>5. \A u \in Task \ {t} : op'[u] = op[u] /\ name'[u] = name[u] /\ target'[u] = target[u]
  BY DEF Call, ConnectServer, CallTool, DisconnectServer, DeleteServer, Close, Called, Return,
         TasksTyped
<1>6. \A n \in Name : clients[n] # None => clients[n] \in Task /\ clients[n] # t
  BY <1>1 DEF ServiceTyped, Task, Listed
<1>7. \A u \in Task : target[u] \notin {None, u} => target[u] \in Task /\ target[u] # t
  BY <1>1 DEF TasksTyped, Task, Known
<1> DEFINE Entered ==
      /\ holder' = IF Keeps(t)' THEN t ELSE None
      /\ target'[t] \in {None, t} \/ \E n \in Name : clients[n] # None /\ target'[t] = clients[n]
      /\ l = "stop" => /\ target'[t] # None /\ name'[t] \in Name
                       /\ target'[t] = clients[name'[t]]
                       /\ op'[t] # "disconnect" => clients' = clients
                       /\ \A n \in Name : clients'[n] = clients[n] \/ clients[n] = target'[t]
      /\ l # "stop" => clients' = clients
      /\ t \in Client => l \in {"spawn", "done"}
<1>8. Entered
  <2> USE <1>1, <1>3, MCPAssumption
      DEF MayCall, Free, Called, Return, TasksTyped, ServiceTyped, serviceVars, Keeps, Task
  <2>1. ASSUME NEW n \in Name, ConnectServer(t, n) PROVE Entered
    BY <2>1 DEF ConnectServer
  <2>2. ASSUME NEW n \in Name, CallTool(t, n) PROVE Entered
    BY <2>2 DEF CallTool
  <2>3. ASSUME NEW n \in Name, DisconnectServer(t, n) PROVE Entered
    <3>1. CASE clients[n] # None
      <4>1. /\ l = "stop" /\ op'[t] = "disconnect" /\ name'[t] = n /\ target'[t] = clients[n]
            /\ t \notin Client /\ pc'[t] = "stop"
        BY <2>3, <3>1 DEF DisconnectServer
      <4>2. clients' = [clients EXCEPT ![n] = None] /\ holder' = None
        BY <2>3 DEF DisconnectServer
      <4>3. QED
        BY <3>1, <4>1, <4>2
    <3>2. CASE clients[n] = None
      <4>1. clients' = clients
        BY <2>3, <3>2 DEF DisconnectServer
      <4>2. QED
        BY <2>3, <3>2, <4>1 DEF DisconnectServer
    <3>3. QED
      BY <3>1, <3>2
  <2>4. ASSUME NEW n \in Name, DeleteServer(t, n) PROVE Entered
    <3>1. CASE config[n] # "absent" /\ clients[n] # None
      <4>1. /\ l = "stop" /\ op'[t] = "delete" /\ name'[t] = n /\ target'[t] = clients[n]
            /\ t \notin Client /\ pc'[t] = "stop"
        BY <2>4, <3>1 DEF DeleteServer
      <4>2. clients' = clients /\ holder' = t
        BY <2>4, <3>1 DEF DeleteServer
      <4>3. QED
        BY <3>1, <4>1, <4>2
    <3>2. CASE config[n] = "absent" \/ clients[n] = None
      BY <2>4, <3>2 DEF DeleteServer
    <3>3. QED
      BY <3>1, <3>2
  <2>5. CASE Close(t)
    BY <2>5 DEF Close
  <2>6. QED
    BY <2>1, <2>2, <2>3, <2>4, <2>5 DEF Call
<1> HIDE DEF Entered
<1>9. Kept'
  BY <1>2, <1>4, <1>5, <1>8, MCPAssumption DEF Entered, Kept, Keeps
<1>10. Listed' /\ \A n \in Name : clients'[n] \in {clients[n], None}
  <2>1. \A n \in Name : clients'[n] \in {clients[n], None}
    BY DEF Call, ConnectServer, CallTool, DisconnectServer, DeleteServer, Close, serviceVars, ServiceTyped
  <2>2. QED
    BY <1>4, <1>6, <2>1 DEF Listed
<1>11. Known'
  BY <1>4, <1>5, <1>6, <1>7, <1>8 DEF Entered, Known, Listed
<1>12. Fresh'
  BY <1>1, <1>4 DEF Fresh, Task
<1>13. Stopping'
  BY <1>2, <1>4, <1>5, <1>8 DEF Entered, Stopping, Keeps, TasksTyped, Placed
<1>14. ASSUME NEW c \in Client, proc'[c] = "running" PROVE Attended(c)' \/ c \in lost'
  <2>1. Attended(c) \/ c \in lost
    BY <1>1, <1>14 DEF NoStray
  <2>2. CASE pc[c] \notin {"idle", "done"}
    BY <1>1, <1>4, <2>2 DEF Attended, Task
  <2>3. ASSUME NEW u \in Task, pc[u] = "stop", target[u] = c PROVE Attended(c)'
    BY <1>1, <1>4, <1>5, <2>3 DEF Attended
  <2>4. ASSUME NEW n \in Name, clients[n] = c PROVE Attended(c)'
    BY <1>4, <1>8, <2>4 DEF Entered, Attended
  <2>5. QED
    BY <1>1, <2>1, <2>2, <2>3, <2>4 DEF Attended
<1>15. NoStray'
  BY <1>14 DEF NoStray
<1>16. QED
  BY <1>9, <1>10, <1>11, <1>12, <1>13, <1>15

(* The process of the client that is stopped is dead; the table forgets the
   client, and no other one.                                                *)
LEMMA StrayStop ==
  ASSUME TInv, StrayInv, NEW t \in Task, StopServer(t)
  PROVE  StrayInv'
<1> USE DEF TInv, TypeOK, StrayInv
<1> DEFINE c == target[t]
<1>1. /\ t \in Other /\ t \notin Client /\ c \in Client /\ c # t /\ pc[t] = "stop"
      /\ op[t] \in {"disconnect", "delete", "close"} /\ name[t] \in Name /\ pc[c] = "done"
  BY MCPAssumption DEF StopServer, Placed, TasksTyped, Known
<1>2. PICK l \in {"closing", "done"} : pc' = [pc EXCEPT ![t] = l] /\ (l = "closing" <=> op[t] = "close")
  BY DEF StopServer, Goto, Return
<1>3. \A u \in Task : pc'[u] = IF u = t THEN l ELSE pc[u]
  BY <1>2 DEF TasksTyped
<1>4. \A u \in Task \ {t} : op'[u] = op[u] /\ name'[u] = name[u] /\ target'[u] = target[u]
  BY DEF StopServer, Goto, Return, TasksTyped
<1>5. op[t] = "close" => op'[t] = "close" /\ target'[t] = c
  BY DEF StopServer, Goto
<1>6. op[t] # "close" => target'[t] = None
  BY <1>1 DEF StopServer, Return, TasksTyped
<1>7. lost' = lost /\ \A d \in Client : proc'[d] = IF d = c THEN "dead" ELSE proc[d]
  BY <1>1 DEF StopServer, Killed, ClientsTyped
<1>8. \A n \in Name : clients'[n] = clients[n] \/ (clients[n] = c /\ clients'[n] = None)
  <2>1. op[t] # "disconnect" => clients[name[t]] = c
    BY <1>1 DEF Stopping
  <2>2. QED
    BY <1>1, <2>1 DEF StopServer, ServiceTyped
<1>9. Kept'
  <2>1. op[t] # "disconnect" => holder = t
    BY <1>1 DEF Kept, Keeps
  <2>2. holder' = IF op[t] = "delete" THEN None ELSE holder
    BY DEF StopServer
  <2>3. \A u \in Task \ {t} : Keeps(u)' <=> Keeps(u)
    BY <1>3, <1>4 DEF Keeps
  <2>4. Keeps(t)' <=> op[t] = "close"
    BY <1>2, <1>3 DEF Keeps
  <2>5. QED
    BY <1>1, <2>1, <2>2, <2>3, <2>4, MCPAssumption DEF Kept, Keeps
<1>10. Listed'
  <2>1. \A n \in Name : clients[n] # None => clients[n] \in Task /\ clients[n] # t
    BY <1>1 DEF ServiceTyped, Task
  <2>2. QED
    BY <1>3, <1>8, <2>1 DEF Listed
<1>11. Known'
  <2>1. \A u \in Task : target[u] # None => target[u] \in Task /\ target[u] # t
    BY <1>1 DEF TasksTyped, Task
  <2>2. QED
    BY <1>1, <1>3, <1>4, <1>5, <1>6, <2>1 DEF Known
<1>12. Fresh'
  BY <1>1, <1>3, <1>7 DEF Fresh, Task
<1>13. Stopping'
  <2> SUFFICES ASSUME NEW u \in Task, pc'[u] = "stop", op'[u] # "disconnect"
               PROVE  clients'[name'[u]] = target'[u]
    BY DEF Stopping
  <2>1. u # t /\ pc[u] = "stop" /\ op[u] # "disconnect" /\ Keeps(u)
    BY <1>2, <1>3, <1>4 DEF Keeps, Placed
  <2>2. op[t] = "disconnect"
    BY <1>1, <2>1 DEF Kept, Keeps
  <2>3. QED
    BY <1>4, <2>1, <2>2 DEF StopServer, Stopping
<1>14. ASSUME NEW d \in Client, proc'[d] = "running" PROVE Attended(d)' \/ d \in lost'
  <2>1. d # c /\ (Attended(d) \/ d \in lost)
    BY <1>1, <1>7, <1>14 DEF NoStray
  <2>2. CASE pc[d] \notin {"idle", "done"}
    BY <1>1, <1>3, <2>2 DEF Attended, Task
  <2>3. ASSUME NEW u \in Task, pc[u] = "stop", target[u] = d PROVE Attended(d)'
    BY <1>3, <1>4, <2>1, <2>3 DEF Attended
  <2>4. ASSUME NEW n \in Name, clients[n] = d PROVE Attended(d)'
    BY <1>8, <2>1, <2>4 DEF Attended
  <2>5. QED
    BY <1>7, <2>1, <2>2, <2>3, <2>4 DEF Attended
<1>15. NoStray'
  BY <1>14 DEF NoStray
<1>16. QED
  BY <1>9, <1>10, <1>11, <1>12, <1>13, <1>15

(* The shutdown takes the next client of the table, or is through. *)
LEMMA StrayCloseNext ==
  ASSUME TInv, StrayInv, NEW t \in Task, CloseNext(t)
  PROVE  StrayInv'
<1> USE DEF TInv, TypeOK, StrayInv
<1>1. t \in Other /\ t \notin Client /\ holder = t /\ op[t] = "close" /\ pc[t] = "closing"
  BY MCPAssumption DEF CloseNext, Placed, Kept, Keeps
<1>2. /\ clients' = clients /\ lost' = lost /\ proc' = proc
      /\ \A u \in Task \ {t} : /\ pc'[u] = pc[u] /\ op'[u] = op[u] /\ name'[u] = name[u]
                               /\ target'[u] = target[u]
  BY DEF CloseNext, Called, Return, TasksTyped, clientVars
<1>3. \/ /\ pc'[t] = "stop" /\ op'[t] = "close" /\ holder' = t
         /\ name'[t] \in Name /\ target'[t] = clients[name'[t]] /\ target'[t] # None
      \/ pc'[t] = "done" /\ target'[t] = None /\ holder' = None
  BY <1>1 DEF CloseNext, Called, Return, TasksTyped
<1>4. Kept'
  BY <1>1, <1>2, <1>3, MCPAssumption DEF Kept, Keeps
<1>5. Listed'
  <2>1. \A n \in Name : clients[n] # None => clients[n] \in Task /\ clients[n] # t
    BY <1>1 DEF ServiceTyped, Task
  <2>2. QED
    BY <1>2, <2>1 DEF Listed
<1>6. Known'
  <2>1. \A u \in Task : target[u] # None => target[u] \in Task /\ target[u] # t
    BY <1>1 DEF TasksTyped, Task
  <2>2. \A n \in Name : clients[n] # None => clients[n] \in Task /\ clients[n] # t
    BY <1>1 DEF ServiceTyped, Task
  <2>3. QED
    BY <1>2, <1>3, <2>1, <2>2 DEF Known, Listed
<1>7. Fresh'
  BY <1>1, <1>2 DEF Fresh, Task
<1>8. Stopping'
  BY <1>2, <1>3 DEF Stopping
<1>9. NoStray'
  <2> SUFFICES ASSUME NEW c \in Client, proc'[c] = "running" PROVE Attended(c)' \/ c \in lost'
    BY DEF NoStray
  <2>1. Attended(c) \/ c \in lost
    BY <1>2 DEF NoStray
  <2>2. pc'[c] = pc[c]
    BY <1>1, <1>2 DEF Task
  <2>3. ASSUME NEW u \in Task, pc[u] = "stop", target[u] = c PROVE Attended(c)'
    BY <1>1, <1>2, <2>3 DEF Attended
  <2>4. QED
    BY <1>2, <2>1, <2>2, <2>3 DEF Attended
<1>10. QED
  BY <1>4, <1>5, <1>6, <1>7, <1>8, <1>9

(* A connect has done its work: its client is in the table, and the one that it
   found there, by an overlapping connect of the same name, is lost.        *)
LEMMA StrayInsert ==
  ASSUME TInv, StrayInv, NEW t \in Task, Insert(t)
  PROVE  StrayInv'
<1> USE DEF TInv, TypeOK, StrayInv
<1>1. /\ t \in Client /\ name[t] \in Name /\ op[t] = "connect" /\ pc[t] = "insert"
      /\ holder = None /\ holder' = None /\ proc' = proc
  BY DEF Insert, Placed, Free, clientVars
<1>2. \A u \in Task : ~Keeps(u)
  BY <1>1, MCPAssumption DEF Kept
<1>3. /\ pc' = [pc EXCEPT ![t] = "done"] /\ target'[t] = None
      /\ \A u \in Task \ {t} : op'[u] = op[u] /\ name'[u] = name[u] /\ target'[u] = target[u]
  BY DEF Insert, Return, TasksTyped
<1>4. \A u \in Task : pc'[u] = IF u = t THEN "done" ELSE pc[u]
  BY <1>3 DEF TasksTyped
<1>5. /\ \A n \in Name : clients'[n] = IF n = name[t] THEN t ELSE clients[n]
      /\ lost' = lost \cup ({clients[name[t]]} \ {None})
  BY DEF Insert, ServiceTyped
<1>6. Kept' /\ Stopping'
  <2>1. \A u \in Task : ~Keeps(u)'
    BY <1>2, <1>3, <1>4 DEF Keeps
  <2>2. \A u \in Task : pc'[u] = "stop" => op'[u] \in {"disconnect", "delete", "close"}
    BY <1>3, <1>4 DEF Placed
  <2>3. QED
    BY <1>1, <2>1, <2>2, MCPAssumption DEF Kept, Keeps, Stopping
<1>7. Listed'
  <2>1. \A n \in Name : clients[n] # None => clients[n] \in Task
    BY DEF ServiceTyped, Task
  <2>2. QED
    BY <1>4, <1>5, <2>1 DEF Listed
<1>8. Known'
  <2>1. \A u \in Task : target[u] # None => target[u] \in Task
    BY DEF TasksTyped, Task
  <2>2. QED
    BY <1>3, <1>4, <2>1 DEF Known
<1>9. Fresh'
  BY <1>1, <1>4 DEF Fresh, Task
<1>10. ASSUME NEW c \in Client, proc'[c] = "running" PROVE Attended(c)' \/ c \in lost'
  <2>1. CASE c = t
    BY <1>1, <1>5, <2>1 DEF Attended
  <2>2. CASE c # t
    <3>1. Attended(c) \/ c \in lost
      BY <1>1, <1>10 DEF NoStray
    <3>2. pc'[c] = pc[c]
      BY <1>4, <2>2 DEF Task
    <3>3. ASSUME NEW u \in Task, pc[u] = "stop", target[u] = c PROVE Attended(c)'
      BY <1>1, <1>3, <1>4, <3>3 DEF Attended
    <3>4. ASSUME NEW n \in Name, clients[n] = c PROVE Attended(c)' \/ c \in lost'
      BY <1>5, <3>4, MCPAssumption DEF Attended, Task
    <3>5. QED
      BY <1>5, <3>1, <3>2, <3>3, <3>4 DEF Attended
  <2>3. QED
    BY <2>1, <2>2
<1>11. NoStray'
  BY <1>10 DEF NoStray
<1>12. QED
  BY <1>6, <1>7, <1>8, <1>9, <1>11

(* Nothing of the tasks and the table changes, and no process starts. *)
LEMMA StrayFrame ==
  ASSUME StrayInv, UNCHANGED <<clients, holder, lost, op, name, target, pc>>,
         \A c \in Client : proc'[c] = proc[c] \/ (proc[c] = "running" /\ proc'[c] = "dead")
  PROVE  StrayInv'
BY DEF StrayInv, Kept, Keeps, Listed, Known, Fresh, Stopping, NoStray, Attended

LEMMA StrayStep == TInv /\ StrayInv /\ [Next]_vars => StrayInv'
<1> SUFFICES ASSUME TInv, StrayInv, [Next]_vars PROVE StrayInv'
  OBVIOUS
<1>1. ASSUME NEW n \in Name, SaveServer(n) PROVE StrayInv'
  BY <1>1, StrayFrame DEF SaveServer, clientVars, taskVars
<1>2. ASSUME NEW c \in Client, Answer(c) \/ \E m \in {"notification", "garbage"} : Talk(c, m)
      PROVE  StrayInv'
  BY <1>2, StrayFrame DEF Answer, Talk, serviceVars, taskVars
<1>3. ASSUME NEW c \in Client, Die(c) PROVE StrayInv'
  BY <1>3, StrayFrame DEF Die, serviceVars, taskVars, TInv, TypeOK, ClientsTyped
<1>4. CASE UNCHANGED vars
  BY <1>4, StrayFrame DEF vars, serviceVars, clientVars, taskVars
<1>5. ASSUME NEW t \in Task, Spawn(t) PROVE StrayInv'
  <2>1. t \in Client /\ proc[t] = "none"
    BY <1>5 DEF Spawn, TInv, Placed, StrayInv, Fresh
  <2>2. PICK l \in {"lock", "done"} : pc' = [pc EXCEPT ![t] = l] /\ (l = "done" => proc' = proc)
    BY <1>5 DEF Spawn, Goto, Return
  <2>3. /\ UNCHANGED <<clients, holder, lost>> /\ target'[t] \in {None, target[t]}
        /\ \A u \in Task \ {t} : op'[u] = op[u] /\ name'[u] = name[u] /\ target'[u] = target[u]
        /\ \A c \in Client \ {t} : proc'[c] = proc[c]
    BY <1>5 DEF Spawn, Goto, Return, serviceVars, TInv, TypeOK, TasksTyped, ClientsTyped
  <2>4. QED
    BY <1>5, <2>1, <2>2, <2>3, StrayRequest DEF Spawn
<1>6. ASSUME NEW t \in Task, Fails(t), pc[t] \in {"lock", "recv", "notify"}, UNCHANGED <<serviceVars, lost>>
      PROVE  StrayInv'
  <2>1. pc' = [pc EXCEPT ![t] = "done"] /\ UNCHANGED <<clients, holder, lost>>
    BY <1>6 DEF Fails, Return, serviceVars
  <2>2. /\ target'[t] \in {None, target[t]}
        /\ \A u \in Task \ {t} : op'[u] = op[u] /\ name'[u] = name[u] /\ target'[u] = target[u]
        /\ \A c \in Client \ {t} : proc'[c] = proc[c]
    BY <1>6 DEF Fails, Return, Killed, TInv, TypeOK, TasksTyped, ClientsTyped
  <2>3. t \in Client => proc'[t] = "dead"
    BY <1>6, MCPAssumption DEF Fails, Killed, TInv, TypeOK, ClientsTyped, Placed
  <2>4. QED
    BY <1>6, <2>1, <2>2, <2>3, StrayRequest
<1>7. ASSUME NEW t \in Task, pc[t] \in {"lock", "recv", "notify"}, UNCHANGED <<clients, holder, lost, proc>>,
             \/ \E l \in {"recv", "notify", "insert"} : Goto(t, l)
             \/ op[t] # "connect" /\ Return(t)
      PROVE  StrayInv'
  <2>1. PICK l \in {"recv", "notify", "insert", "done"} :
          pc' = [pc EXCEPT ![t] = l] /\ (l = "done" => op[t] # "connect")
    BY <1>7 DEF Goto, Return
  <2>2. /\ target'[t] \in {None, target[t]}
        /\ \A u \in Task \ {t} : op'[u] = op[u] /\ name'[u] = name[u] /\ target'[u] = target[u]
    BY <1>7 DEF Goto, Return, TInv, TypeOK, TasksTyped
  <2>3. l = "done" => t \notin Client
    BY <1>7, <2>1, MCPAssumption DEF TInv, Placed
  <2>4. QED
    BY <1>7, <2>1, <2>2, <2>3, StrayRequest
<1>8. ASSUME NEW t \in Task, Request(t) \/ Notify(t) PROVE StrayInv'
  <2>1. CASE Send(t)
    BY <1>7, <2>1 DEF Send, serviceVars
  <2>2. CASE SendFails(t) \/ ReceiveEnd(t)
    BY <1>6, <2>2 DEF SendFails, ReceiveEnd
  <2>3. CASE Receive(t)
    BY <1>6, <1>7, <2>3 DEF Receive, serviceVars
  <2>4. CASE ReceiveGarbage(t)
    BY <1>6, <1>7, <2>4 DEF ReceiveGarbage, serviceVars
  <2>5. CASE Notify(t)
    BY <1>7, <2>5 DEF Notify, serviceVars, clientVars
  <2>6. QED
    BY <1>8, <2>1, <2>2, <2>3, <2>4, <2>5 DEF Request
<1>9. QED
  <2>1. ASSUME NEW t \in Task, Proceed(t) PROVE StrayInv'
    BY <1>5, <1>8, <2>1, StrayStop, StrayCloseNext, StrayInsert DEF Proceed
  <2>2. QED
    BY <1>1, <1>2, <1>3, <1>4, <2>1, StrayCall DEF Next

(* No server's process runs that nobody knows of, whatever connects, failures,
   disconnects, deletes and the shutdown overlap; but for those that a second
   connect of the same name has pushed out of the table.                    *)
THEOREM NothingStrays == Spec => []NoStray
<1>1. StrayInv => NoStray
  BY DEF StrayInv
<1>2. QED
  BY <1>1, Typed, StrayInit, StrayStep, PTL DEF Spec
=============================================================================
