-------------------------------- MODULE MCP --------------------------------
(***************************************************************************)
(* The MCP client (services/mcp_service.go): the table of MCPService, the  *)
(* MCPClient of each connected server, and the server's process behind its *)
(* stdin and stdout (stdioTransport).                                      *)
(*                                                                         *)
(* A task is one call of the service by a window, the agent or main.go, in *)
(* a goroutine of its own.  A client has the name of the ConnectServer     *)
(* that made it, and a request that of the task that sent it.  call() does *)
(* not compare the id of an answer with that of its request: only the      *)
(* mutex of the client, held from the write to the read, pairs them.       *)
(***************************************************************************)
EXTENDS Naturals, Sequences

CONSTANTS
  Name,   \* the names of configured servers
  Client, \* the calls of ConnectServer, and the clients that they make (bound)
  Other,  \* the other calls of the service (bound)
  None    \* no client, no task

Task == Client \cup Other

ASSUME MCPAssumption ==
  /\ Client \cap Other = {} /\ None \notin Task /\ {"notification", "garbage"} \cap Task = {}

VARIABLES
  \* MCPService
  config,   \* per name what s.config says of the server
  clients,  \* per name the client in the table, or None
  holder,   \* the task that keeps s.mu while it waits, or None
  \* the clients
  busy,     \* per client the task that holds its mu, or None
  closed,   \* per client its flag
  proc,     \* per client its process
  stdin,    \* per client the requests its server has not read
  stdout,   \* per client the lines that were not received
  noisy,    \* per client: its server has sent a line that answers nothing
  lost,     \* the clients that another one has replaced in the table (history)
  \* the tasks
  op, name, target, pc
serviceVars == <<config, clients, holder>>
clientVars == <<busy, closed, proc, stdin, stdout, noisy>>
taskVars == <<op, name, target, pc>>
vars == <<serviceVars, clientVars, lost, taskVars>>

-----------------------------------------------------------------------------
Operations == {"connect", "disconnect", "delete", "call", "close"}

(* Where a task is:
     idle     not called
     spawn    ConnectServer past its checks
     lock     call() before the lock of the client
     recv     call() in Recv
     notify   ConnectServer about to send notifications/initialized
     insert   ConnectServer about to enter the client in the table
     closing  Close between two clients
     stop     before the lock of StopServer
     done     returned                                                      *)
Places == {"idle", "spawn", "lock", "recv", "notify", "insert", "closing", "stop", "done"}

Init ==
  /\ config \in [Name -> {"absent", "disabled", "enabled"}]
  /\ clients = [n \in Name |-> None]
  /\ holder = None
  /\ busy = [c \in Client |-> None]
  /\ closed = [c \in Client |-> FALSE]
  /\ proc = [c \in Client |-> "none"]
  /\ stdin = [c \in Client |-> <<>>] /\ stdout = [c \in Client |-> <<>>]
  /\ noisy = [c \in Client |-> FALSE]
  /\ lost = {}
  /\ op = [t \in Task |-> "none"]
  /\ name = [t \in Task |-> None] /\ target = [t \in Task |-> None]
  /\ pc = [t \in Task |-> "idle"]

\* s.mu can be locked.
Free == holder = None

Goto(t, l) == pc' = [pc EXCEPT ![t] = l] /\ UNCHANGED <<op, name, target>>

\* The call returns; nothing reads what it knew.
Return(t) ==
  /\ pc' = [pc EXCEPT ![t] = "done"]
  /\ op' = IF op[t] = "close" THEN op ELSE [op EXCEPT ![t] = "none"]
  /\ name' = [name EXCEPT ![t] = None]
  /\ target' = [target EXCEPT ![t] = None]

Unlock(c) == busy' = [busy EXCEPT ![c] = None]

\* Close of the transport: the process is killed and waited for.
Killed(c) ==
  /\ proc' = [proc EXCEPT ![c] = "dead"]
  /\ stdin' = [stdin EXCEPT ![c] = <<>>]
  /\ stdout' = [stdout EXCEPT ![c] = <<>>]

-----------------------------------------------------------------------------
(* The calls up to their first wait.  The tasks are interchangeable until
   they are called.                                                         *)

MayCall(t, T) == t \in T /\ pc[t] = "idle" /\ t = CHOOSE u \in T : pc[u] = "idle"

Called(t, o, n, c, l) ==
  /\ op' = [op EXCEPT ![t] = o]
  /\ name' = [name EXCEPT ![t] = n]
  /\ target' = [target EXCEPT ![t] = c]
  /\ pc' = [pc EXCEPT ![t] = l]

\* SaveServer: a new server is disabled, and an enabled one stays so.
SaveServer(n) ==
  /\ Free
  /\ \/ config[n] = "absent" /\ config' = [config EXCEPT ![n] = "disabled"]
     \/ config[n] = "disabled" /\ config' = [config EXCEPT ![n] = "enabled"]
  /\ UNCHANGED <<clients, holder, clientVars, lost, taskVars>>

\* ConnectServer refuses a server that is not enabled, or connected already.
ConnectServer(t, n) ==
  /\ MayCall(t, Client) /\ Free
  /\ \/ config[n] = "enabled" /\ clients[n] = None /\ Called(t, "connect", n, t, "spawn")
     \/ (config[n] # "enabled" \/ clients[n] # None) /\ Return(t)
  /\ UNCHANGED <<serviceVars, clientVars, lost>>

\* Mutant: getClient does not look whether it has found a client.
CallToolUnchecked(t, n) ==
  /\ MayCall(t, Other) /\ Free
  /\ Called(t, "call", n, clients[n], "lock")
  /\ UNCHANGED <<serviceVars, clientVars, lost>>

\* CallTool, ListTools, ReadResource and the others: getClient.
CallTool(t, n) ==
  /\ MayCall(t, Other) /\ Free
  /\ \/ clients[n] # None /\ Called(t, "call", n, clients[n], "lock")
     \/ clients[n] = None /\ Return(t)
  /\ UNCHANGED <<serviceVars, clientVars, lost>>

\* DisconnectServer takes the client out of the table before it stops it.
DisconnectServer(t, n) ==
  /\ MayCall(t, Other) /\ Free
  /\ \/ clients[n] # None /\ Called(t, "disconnect", n, clients[n], "stop")
     \/ clients[n] = None /\ Return(t)
  /\ clients' = [clients EXCEPT ![n] = None]
  /\ UNCHANGED <<config, holder, clientVars, lost>>

\* DeleteServer keeps s.mu while it stops the client.
DeleteServer(t, n) ==
  /\ MayCall(t, Other) /\ Free
  /\ \/ /\ config[n] # "absent" /\ clients[n] # None
        /\ Called(t, "delete", n, clients[n], "stop") /\ holder' = t /\ UNCHANGED config
     \/ /\ config[n] = "absent" \/ clients[n] = None
        /\ Return(t) /\ UNCHANGED holder
        /\ config' = [config EXCEPT ![n] = "absent"]
  /\ UNCHANGED <<clients, clientVars, lost>>

\* Close, which main.go calls once, keeps s.mu while it stops them all.
Close(t) ==
  /\ MayCall(t, Other) /\ Free /\ \A u \in Task : op[u] # "close"
  /\ Called(t, "close", None, None, "closing") /\ holder' = t
  /\ UNCHANGED <<config, clients, clientVars, lost>>

CloseNext(t) ==
  /\ pc[t] = "closing"
  /\ \/ \E n \in Name : clients[n] # None /\ Called(t, "close", n, clients[n], "stop") /\ UNCHANGED holder
     \/ (\A n \in Name : clients[n] = None) /\ Return(t) /\ holder' = None
  /\ UNCHANGED <<config, clients, clientVars, lost>>

-----------------------------------------------------------------------------
(* StopServer waits for the mutex of the client, which a call holds while it
   waits for its answer.  It is called once for a client: whoever calls it
   has taken the client out of the table, or keeps s.mu.                    *)

StopServer(t) ==
  LET c == target[t]
      n == name[t]
  IN /\ pc[t] = "stop" /\ busy[c] = None
     /\ closed' = [closed EXCEPT ![c] = TRUE]
     /\ Killed(c)
     /\ clients' = IF op[t] = "disconnect" THEN clients ELSE [clients EXCEPT ![n] = None]
     /\ config' = IF op[t] = "delete" THEN [config EXCEPT ![n] = "absent"] ELSE config
     /\ holder' = IF op[t] = "delete" THEN None ELSE holder
     /\ IF op[t] = "close" THEN Goto(t, "closing") ELSE Return(t)
     /\ UNCHANGED <<busy, noisy, lost>>

-----------------------------------------------------------------------------
(* A request: the initialize of a connect, or a call of the server.         *)

Spawn(t) ==
  /\ pc[t] = "spawn"
  /\ \/ proc' = [proc EXCEPT ![t] = "running"] /\ Goto(t, "lock")
     \/ UNCHANGED proc /\ Return(t)
  /\ UNCHANGED <<serviceVars, busy, closed, stdin, stdout, noisy, lost>>

\* Mutant: the lock is released for the time of the receive, so that StopServer
\* need not wait for it.
SendUnlocked(t) ==
  LET c == target[t]
  IN /\ pc[t] = "lock" /\ busy[c] = None /\ ~closed[c] /\ proc[c] = "running"
     /\ stdin' = [stdin EXCEPT ![c] = Append(@, t)]
     /\ Goto(t, "recv")
     /\ UNCHANGED <<serviceVars, busy, closed, proc, stdout, noisy, lost>>

\* call() locks the mutex of the client and writes.
Send(t) ==
  LET c == target[t]
  IN /\ pc[t] = "lock" /\ busy[c] = None /\ ~closed[c] /\ proc[c] = "running"
     /\ busy' = [busy EXCEPT ![c] = t]
     /\ stdin' = [stdin EXCEPT ![c] = Append(@, t)]
     /\ Goto(t, "recv")
     /\ UNCHANGED <<serviceVars, closed, proc, stdout, noisy, lost>>

\* Mutant: StartServer returns the error and leaves the process.
FailsOpen(t) ==
  /\ Unlock(target[t])
  /\ Return(t)
  /\ UNCHANGED <<proc, stdin, stdout>>

\* A request that failed: a tool call returns; a connect closes its transport.
Fails(t) ==
  /\ Unlock(target[t])
  /\ Return(t)
  /\ \/ op[t] = "connect" /\ Killed(t)
     \/ op[t] # "connect" /\ UNCHANGED <<proc, stdin, stdout>>

\* The write fails, or that of the notification: the client was stopped, or its
\* server is dead.
SendFails(t) ==
  /\ pc[t] \in {"lock", "notify"} /\ busy[target[t]] = None
  /\ closed[target[t]] \/ proc[target[t]] = "dead"
  /\ Fails(t)
  /\ UNCHANGED <<serviceVars, closed, noisy, lost>>

\* A line is taken for the answer, whatever it answers.  An error in it lets a
\* connect fail.
Receive(t) ==
  LET c == target[t]
  IN /\ pc[t] = "recv" /\ stdout[c] # <<>> /\ Head(stdout[c]) # "garbage"
     /\ \/ /\ Unlock(c) /\ stdout' = [stdout EXCEPT ![c] = Tail(@)]
           /\ IF op[t] = "connect" THEN Goto(t, "notify") ELSE Return(t)
           /\ UNCHANGED <<proc, stdin>>
        \/ op[t] = "connect" /\ Fails(t)
     /\ UNCHANGED <<serviceVars, closed, noisy, lost>>

\* A line that cannot be parsed ends the request, and its answer stays behind.
ReceiveGarbage(t) ==
  LET c == target[t]
  IN /\ pc[t] = "recv" /\ stdout[c] # <<>> /\ Head(stdout[c]) = "garbage"
     /\ \/ op[t] = "connect" /\ Fails(t)
        \/ /\ op[t] # "connect" /\ Unlock(c) /\ Return(t)
           /\ stdout' = [stdout EXCEPT ![c] = Tail(@)] /\ UNCHANGED <<proc, stdin>>
     /\ UNCHANGED <<serviceVars, closed, noisy, lost>>

\* Mutant: the error path returns with the mutex locked.
ReceiveEndLocked(t) ==
  /\ pc[t] = "recv" /\ stdout[target[t]] = <<>> /\ proc[target[t]] = "dead"
  /\ Return(t)
  /\ UNCHANGED <<serviceVars, clientVars, lost>>

\* The stdout of a dead server has been read up.
ReceiveEnd(t) ==
  /\ pc[t] = "recv" /\ stdout[target[t]] = <<>> /\ proc[target[t]] = "dead"
  /\ Fails(t)
  /\ UNCHANGED <<serviceVars, closed, noisy, lost>>

\* notifications/initialized: no answer to it.
Notify(t) ==
  /\ pc[t] = "notify" /\ proc[t] = "running"
  /\ Goto(t, "insert")
  /\ UNCHANGED <<serviceVars, clientVars, lost>>

\* The client enters the table, whoever is there by now.
Insert(t) ==
  /\ pc[t] = "insert" /\ Free
  /\ clients' = [clients EXCEPT ![name[t]] = t]
  /\ lost' = lost \cup ({clients[name[t]]} \ {None})
  /\ Return(t)
  /\ UNCHANGED <<config, holder, clientVars>>

-----------------------------------------------------------------------------
(* The server: an external program.  It answers its requests in order, may
   send one line that answers nothing (bound), and may die: by itself, or
   because the context of the call that started it has ended.               *)

Answer(c) ==
  /\ proc[c] = "running" /\ stdin[c] # <<>>
  /\ stdout' = [stdout EXCEPT ![c] = Append(@, Head(stdin[c]))]
  /\ stdin' = [stdin EXCEPT ![c] = Tail(@)]
  /\ UNCHANGED <<serviceVars, busy, closed, proc, noisy, lost, taskVars>>

Talk(c, m) ==
  /\ proc[c] = "running" /\ ~noisy[c]
  /\ stdout' = [stdout EXCEPT ![c] = Append(@, m)]
  /\ noisy' = [noisy EXCEPT ![c] = TRUE]
  /\ UNCHANGED <<serviceVars, busy, closed, proc, stdin, lost, taskVars>>

Die(c) ==
  /\ proc[c] = "running"
  /\ proc' = [proc EXCEPT ![c] = "dead"]
  /\ stdin' = [stdin EXCEPT ![c] = <<>>]
  /\ UNCHANGED <<serviceVars, busy, closed, stdout, noisy, lost, taskVars>>

-----------------------------------------------------------------------------
Call(t) ==
  \/ \E n \in Name : ConnectServer(t, n) \/ CallTool(t, n) \/ DisconnectServer(t, n) \/ DeleteServer(t, n)
  \/ Close(t)

Request(t) == Send(t) \/ SendFails(t) \/ Receive(t) \/ ReceiveGarbage(t) \/ ReceiveEnd(t)

Proceed(t) == Request(t) \/ Spawn(t) \/ Notify(t) \/ Insert(t) \/ StopServer(t) \/ CloseNext(t)

Next ==
  \/ \E t \in Task : Call(t) \/ Proceed(t)
  \/ \E n \in Name : SaveServer(n)
  \/ \E c \in Client : Answer(c) \/ Die(c) \/ \E m \in {"notification", "garbage"} : Talk(c, m)

Spec == Init /\ [][Next]_vars

\* The goroutines run.  A server that runs answers its requests: nothing else
\* ends the wait of a call, which has no deadline.
Fairness ==
  /\ \A t \in Task : WF_vars(Proceed(t))
  /\ \A c \in Client : WF_vars(Answer(c))
FairSpec == Spec /\ Fairness

-----------------------------------------------------------------------------
Lines == Task \cup {"notification", "garbage"}

ServiceTyped ==
  /\ config \in [Name -> {"absent", "disabled", "enabled"}]
  /\ clients \in [Name -> Client \cup {None}] /\ lost \subseteq Client
  /\ holder \in Other \cup {None}

ClientsTyped ==
  /\ busy \in [Client -> Task \cup {None}] /\ closed \in [Client -> BOOLEAN]
  /\ proc \in [Client -> {"none", "running", "dead"}]
  /\ stdin \in [Client -> Seq(Task)] /\ stdout \in [Client -> Seq(Lines)]
  /\ noisy \in [Client -> BOOLEAN]

TasksTyped ==
  /\ op \in [Task -> Operations \cup {"none"}] /\ pc \in [Task -> Places]
  /\ name \in [Task -> Name \cup {None}] /\ target \in [Task -> Client \cup {None}]
  /\ \A t \in Task : pc[t] \notin {"idle", "closing", "done"} => target[t] # None

\* Types, and that no task works on a client that is nil.
TypeOK == ServiceTyped /\ ClientsTyped /\ TasksTyped

\* As long as a server sends nothing but answers, the line that a call finds is
\* the answer to its own request, however connects, calls, disconnects, deletes
\* and the shutdown overlap.
OwnAnswer ==
  \A t \in Task : pc[t] = "recv" /\ stdout[target[t]] # <<>> /\ ~noisy[target[t]]
    => Head(stdout[target[t]]) = t

\* A server's process that runs is in the table, or a connect or a stop is still
\* to deal with it; unless a second connect of the same name, which overlapped
\* with its own, has replaced it in the table.
Attended(c) ==
  \/ \E n \in Name : clients[n] = c
  \/ pc[c] \notin {"idle", "done"}
  \/ \E t \in Task : pc[t] = "stop" /\ target[t] = c
NoStray == \A c \in Client : proc[c] = "running" => Attended(c) \/ c \in lost

\* Every call of the service returns, the Close of the shutdown and the
\* DeleteServer that keeps s.mu while it waits for a client included.
AllCallsReturn == \A t \in Task : (pc[t] # "idle") ~> (pc[t] = "done")
=============================================================================
