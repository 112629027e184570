------------------------------ MODULE JsonRpc ------------------------------
(***************************************************************************)
(* jsonRPCClient (services/lsp_service.go): the requests that the calls of *)
(* the editor send to one language server over its stdin, the goroutine    *)
(* that reads the answers from its stdout, and the table between the two.  *)
(*                                                                         *)
(* A request registers a channel of one slot under its id, writes, and     *)
(* waits for the channel or its deadline; whatever happens it takes its    *)
(* entry out of the table again.  The reader looks a channel up under      *)
(* pendingMu and sends to it after the unlock; when the connection ends it *)
(* empties the table and puts nil into every channel.                      *)
(* nextID is atomic, so a request stands for its own id.                   *)
(***************************************************************************)
EXTENDS Naturals, Sequences, SequencesExt

CONSTANTS
  Requests,  \* the calls of request() (bound)
  MaxPipe,   \* messages a pipe holds before its writer blocks
  NoRequest  \* no request

ASSUME RpcAssumption ==
  /\ MaxPipe \in Nat \ {0}
  /\ NoRequest \notin Requests
  /\ {"notification", "garbage"} \cap Requests = {}

VARIABLES
  \* jsonRPCClient
  pending,   \* the requests that are in the table
  chan,      \* per request: what its channel holds
  reader,    \* readLoop: reading, or stopped
  handing,   \* the request whose channel dispatch found and is to send to
  \* the requests
  stage,     \* per request: where it is
  outcome,   \* per request: what it returns
  \* the server
  serverUp,   \* the process runs
  stdin,     \* what it has not read yet
  working,   \* the requests it has read and not answered
  stdout     \* what the reader has not read yet

pendingVars == <<pending, chan>>
readerVars == <<reader, handing>>
requestVars == <<stage, outcome>>
serverVars == <<serverUp, stdin, working, stdout>>
rpcVars == <<pendingVars, readerVars, requestVars, serverVars>>

-----------------------------------------------------------------------------
(* A request:
     unused   it was not called
     write    it is in the table and about to write
     wait     it waits for its channel or its deadline
     leave    it is about to leave the table
     done     it has returned                                               *)
Stages   == {"unused", "write", "wait", "leave", "done"}
Outcomes == {"none", "answer", "closed", "timeout", "unwritten"}
RpcMessages == Requests \cup {"notification", "garbage"}

RpcInit ==
  /\ pending = {}
  /\ chan = [r \in Requests |-> "empty"]
  /\ reader = "reading"
  /\ handing = NoRequest
  /\ stage = [r \in Requests |-> "unused"]
  /\ outcome = [r \in Requests |-> "none"]
  /\ serverUp = TRUE
  /\ stdin = <<>>
  /\ working = {}
  /\ stdout = <<>>

Enter(r, l) == stage' = [stage EXCEPT ![r] = l]

\* A request is about to return o.
Leave(r, o) ==
  /\ Enter(r, "leave")
  /\ outcome' = [outcome EXCEPT ![r] = o]

-----------------------------------------------------------------------------
(* request                                                                 *)

Register(r) ==
  /\ stage[r] = "unused"
  /\ pending' = pending \cup {r}
  /\ Enter(r, "write")
  /\ UNCHANGED <<chan, outcome, readerVars, serverVars>>

\* writeMessage to a server that runs: it blocks while the pipe is full,
\* whatever the deadline of the request.
WriteRequest(r) ==
  /\ stage[r] = "write"
  /\ serverUp
  /\ Len(stdin) < MaxPipe
  /\ stdin' = Append(stdin, r)
  /\ Enter(r, "wait")
  /\ UNCHANGED <<outcome, serverUp, working, stdout, pendingVars, readerVars>>

\* writeMessage to a server that does not.
WriteFails(r) ==
  /\ stage[r] = "write"
  /\ ~serverUp
  /\ Leave(r, "unwritten")
  /\ UNCHANGED <<pendingVars, readerVars, serverVars>>

\* The select finds something in the channel: an answer, or nil.
Wake(r) ==
  /\ stage[r] = "wait"
  /\ chan[r] # "empty"
  /\ Leave(r, chan[r])
  /\ UNCHANGED <<pendingVars, readerVars, serverVars>>

\* The select finds the deadline passed.
Timeout(r) ==
  /\ stage[r] = "wait"
  /\ Leave(r, "timeout")
  /\ UNCHANGED <<pendingVars, readerVars, serverVars>>

\* The deferred delete.
Unregister(r) ==
  /\ stage[r] = "leave"
  /\ pending' = pending \ {r}
  /\ Enter(r, "done")
  /\ UNCHANGED <<chan, outcome, readerVars, serverVars>>

-----------------------------------------------------------------------------
(* readLoop                                                                *)

AtMessage(m) ==
  /\ reader = "reading"
  /\ handing = NoRequest
  /\ stdout # <<>>
  /\ Head(stdout) = m

\* dispatch: a notification, or a request of the server's own, is no answer.
ReadOther ==
  /\ AtMessage("notification")
  /\ stdout' = Tail(stdout)
  /\ UNCHANGED <<reader, handing, serverUp, stdin, working>>
  /\ UNCHANGED <<pendingVars, requestVars>>

\* Mutant: whoever waits gets the answer, whatever its id.
ReadAnswerUnmatched(r) ==
  /\ AtMessage(r)
  /\ stdout' = Tail(stdout)
  /\ handing' \in IF pending = {} THEN {NoRequest} ELSE pending
  /\ UNCHANGED <<reader, serverUp, stdin, working>>
  /\ UNCHANGED <<pendingVars, requestVars>>

\* dispatch looks the answer's id up.  Nobody is found if the request left.
ReadAnswer(r) ==
  /\ AtMessage(r)
  /\ stdout' = Tail(stdout)
  /\ handing' = IF r \in pending THEN r ELSE NoRequest
  /\ UNCHANGED <<reader, serverUp, stdin, working>>
  /\ UNCHANGED <<pendingVars, requestVars>>

\* Mutant: the channel has no slot, so that an answer is dropped unless the
\* request has reached its select.
HandOverUnbuffered ==
  /\ handing # NoRequest
  /\ \/ chan' = [chan EXCEPT ![handing] = IF @ = "empty" THEN "answer" ELSE @]
     \/ chan' = chan
  /\ handing' = NoRequest
  /\ UNCHANGED <<pending, reader, requestVars, serverVars>>

\* dispatch sends to the channel it found; a full channel drops the answer.
HandOver ==
  /\ handing # NoRequest
  /\ chan' = [chan EXCEPT ![handing] = IF @ = "empty" THEN "answer" ELSE @]
  /\ handing' = NoRequest
  /\ UNCHANGED <<pending, reader, requestVars, serverVars>>

\* Mutant: the table is emptied and nobody is told.
ClosedSilently == chan

\* nil for every request in the table, unless it has its answer already.
Woken ==
  [r \in Requests |->
     IF r \in pending /\ chan[r] = "empty" THEN "closed" ELSE chan[r]]

\* readMessage fails: the stdout of a dead server is read up, or what it holds
\* is no message.
ConnectionEnds == (stdout = <<>> /\ ~serverUp) \/ AtMessage("garbage")

\* Mutant: the reader just returns.
StopReadingAtOnce ==
  /\ reader = "reading"
  /\ handing = NoRequest
  /\ ConnectionEnds
  /\ reader' = "stopped"
  /\ UNCHANGED <<pendingVars, handing, requestVars, serverVars>>

\* The end of readLoop: the table is emptied in one critical section.
StopReading ==
  /\ reader = "reading"
  /\ handing = NoRequest
  /\ ConnectionEnds
  /\ chan' = Woken
  /\ pending' = {}
  /\ reader' = "stopped"
  /\ UNCHANGED <<handing, requestVars, serverVars>>

-----------------------------------------------------------------------------
(* The language server: an external program.  It answers what it has read,
   each request once and in any order, or not at all; it may send what is no
   answer, and it may die.                                                  *)

ServerReads ==
  /\ stdin # <<>>
  /\ working' = working \cup {Head(stdin)}
  /\ stdin' = Tail(stdin)
  /\ UNCHANGED <<serverUp, stdout, pendingVars, readerVars, requestVars>>

Sends(m) ==
  /\ serverUp
  /\ Len(stdout) < MaxPipe
  /\ stdout' = Append(stdout, m)

ServerAnswers(r) ==
  /\ r \in working
  /\ Sends(r)
  /\ working' = working \ {r}
  /\ UNCHANGED <<serverUp, stdin, pendingVars, readerVars, requestVars>>

ServerTalks(m) ==
  /\ Sends(m)
  /\ UNCHANGED <<serverUp, stdin, working, pendingVars, readerVars, requestVars>>

ServerDies ==
  /\ serverUp
  /\ serverUp' = FALSE
  /\ stdin' = <<>>
  /\ working' = {}
  /\ UNCHANGED <<stdout, pendingVars, readerVars, requestVars>>

-----------------------------------------------------------------------------
RequestStep(r) ==
  \/ Register(r)
  \/ WriteRequest(r)
  \/ WriteFails(r)
  \/ Wake(r)
  \/ Timeout(r)
  \/ Unregister(r)

ReaderStep ==
  \/ ReadOther
  \/ \E r \in Requests : ReadAnswer(r)
  \/ HandOver
  \/ StopReading

ServerStep ==
  \/ ServerReads
  \/ \E r \in Requests : ServerAnswers(r)
  \/ \E m \in {"notification", "garbage"} : ServerTalks(m)
  \/ ServerDies

RpcNext == (\E r \in Requests : RequestStep(r)) \/ ReaderStep \/ ServerStep

RpcSpec == RpcInit /\ [][RpcNext]_rpcVars

(* The goroutines run: a request that was woken returns.  No deadline is
   assumed to pass, and nothing is assumed of the server.                   *)
RpcFairness ==
  /\ \A r \in Requests : WF_rpcVars(Wake(r) \/ Unregister(r))
  /\ WF_rpcVars(ReaderStep)

RpcFairSpec == RpcSpec /\ RpcFairness

-----------------------------------------------------------------------------
RpcTypeOK ==
  /\ pending \subseteq Requests
  /\ chan \in [Requests -> {"empty", "answer", "closed"}]
  /\ reader \in {"reading", "stopped"}
  /\ handing \in Requests \cup {NoRequest}
  /\ stage \in [Requests -> Stages]
  /\ outcome \in [Requests -> Outcomes]
  /\ serverUp \in BOOLEAN
  /\ stdin \in Seq(Requests)
  /\ working \subseteq Requests
  /\ stdout \in Seq(RpcMessages)

(* The table holds no request that has returned, however it returned and
   whatever the reader did to the table meanwhile: it cannot grow with the
   requests of a long session.                                              *)
NoLeak == \A r \in pending : stage[r] \in {"write", "wait", "leave"}

(* A request that somebody else took out of the table has its wake-up in its
   channel.  So no request waits for a reader that has forgotten it.        *)
ForgottenIsWoken ==
  \A r \in Requests :
    stage[r] \in {"write", "wait"} /\ r \notin pending => chan[r] # "empty"

(* When the server dies every request that is waiting returns, and no deadline
   is needed for it: first the reader reads what the server had still sent. *)
DeathWakesAll ==
  \A r \in Requests :
    stage[r] = "wait" /\ reader = "reading" /\ ~serverUp ~> stage[r] = "done"

(* An answer that has reached the pipe ends its request without the deadline,
   behind whatever the server sent before it, unless the connection breaks
   first, which ends the request too.                                       *)
AnswerArrives ==
  \A r \in Requests :
    (\E i \in DOMAIN stdout : stdout[i] = r) /\ stage[r] = "wait" /\ reader = "reading"
      ~> stage[r] = "done"
-----------------------------------------------------------------------------
\* Where a request is, as Exchange sees it.
WithServer == ToSet(stdin) \cup working
Answered == {r \in Requests : r \in ToSet(stdout) \/ handing = r \/ chan[r] = "answer"}
NotWritten == {r \in Requests : stage[r] \in {"unused", "write"} \/ outcome[r] = "unwritten"}
Place(r) ==
  IF r \in WithServer THEN "server"
  ELSE IF r \in Answered THEN "back"
  ELSE IF r \in NotWritten THEN "caller" ELSE "lost"

(* The client keeps the promise of Exchange: a call ends once, and with an
   answer only if the server has answered that very request; an answer is
   dropped only when its caller has returned; and "connection closed" is told
   only of a connection that nobody reads any more.                         *)
Exchanges == INSTANCE Exchange WITH
  place <- [r \in Requests |-> Place(r)], alive <- serverUp, open <- reader = "reading",
  result <- outcome
Exchanged == Exchanges!ExchangeSpec
=============================================================================
