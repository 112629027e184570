--------------------------- MODULE LanguageServer ---------------------------
(***************************************************************************)
(* LSPService for one language and one document                            *)
(* (services/lsp_service.go): the table entry of the language, the server  *)
(* processes it points at one after the other, and the calls of the editor *)
(* (completion, hover, diagnostics, save, close...), each on a goroutine   *)
(* of its own.  Every call first makes the buffer known to the server      *)
(* (syncDocument); what it asks afterwards is modelled in JsonRpc.         *)
(*                                                                         *)
(* The document's version is allocated under docMu and its notification is *)
(* written after the unlock, so notifications of overlapping calls reach   *)
(* the pipe in any order.                                                  *)
(***************************************************************************)
EXTENDS Naturals, Sequences, FiniteSets

CONSTANTS
  Calls,      \* the editor's calls (bound)
  Texts,      \* the contents of the buffer
  MaxServers, \* the server processes that may be spawned (bound)
  Exact,      \* the changes of a text whose increment says what changed
  MaxWire,    \* messages the server's stdin pipe holds before a writer blocks
  None        \* no server, no text

\* What an increment makes of a text that it does not fit.
Garbled == <<"garbled">>

(* buildIncrementalChange counts columns in bytes (offsetToLineCol), and the
   server reads them as UTF-16 units: they agree when the lines of the old text
   have nothing but ASCII up to the start and the end of the change, and may
   point elsewhere when they have.  Exact holds the pairs of an old and a new
   text for which they agree.                                               *)
ASSUME LanguageServerAssumption ==
  /\ MaxWire \in Nat \ {0}
  /\ MaxServers \in Nat
  /\ None \notin Texts /\ None \notin 1..MaxServers
  /\ Garbled \notin Texts \cup {None}
  /\ Exact \subseteq Texts \X Texts

\* Server processes, in the order they are spawned.
Servers == 1..MaxServers

VARIABLES
  \* LSPService.servers and the processes
  entry,      \* the server the table holds for the language, or None
  alive,      \* per server: the process runs
  spawned,    \* how many servers were started
  kind,       \* per server: syncKind, 1 full or 2 incremental
  \* lspServer
  version,    \* per server: docVersions of the document, 0 when absent
  content,    \* per server: docLastContent, which docHashes always agrees with
  \* the pipe and the server at its other end
  wire,       \* per server: what was written to its stdin and not yet read
  peer,       \* per server: the document as the server has it
  \* the calls
  pc,         \* per call: where it is
  srv,        \* per call: the server it found
  text,       \* per call: the text of the buffer, or None to close it
  msg,        \* per call: the notification it is about to write
  \* history
  overlap,    \* a notification was prepared while another was still unwritten
  wanted,     \* per server: the text of the latest call, None if it closed
  skewed      \* per server: an increment since the opening was not exact

tableVars  == <<entry, alive, spawned, kind>>
docVars    == <<version, content>>
pipeVars   == <<wire, peer>>
callVars   == <<pc, srv, text, msg>>
histVars   == <<overlap, wanted, skewed>>
vars == <<tableVars, docVars, pipeVars, callVars, histVars>>

-----------------------------------------------------------------------------
(* A change carries the text it starts from, when the server wants increments,
   or None when it carries the whole text.                                  *)
Messages ==
  [type : {"open"}, version : Nat, new : Texts] \cup
  [type : {"change"}, version : Nat, old : Texts \cup {None}, new : Texts] \cup
  [type : {"close"}]

NoMessage == [type |-> "none"]

\* The document at the server: version 0 and None when it is not open.
Closed == [version |-> 0, text |-> None]

(* A call:
     unused   it was not made
     sync     it holds its server and is about to enter docMu
     notify   it has left docMu and is about to write its notification
     done     syncDocument or CloseDocument has returned                    *)
Init ==
  /\ entry = None
  /\ alive   = [g \in Servers |-> FALSE]
  /\ spawned = 0
  /\ kind    = [g \in Servers |-> 1]
  /\ version = [g \in Servers |-> 0]
  /\ content = [g \in Servers |-> None]
  /\ wire    = [g \in Servers |-> <<>>]
  /\ peer    = [g \in Servers |-> Closed]
  /\ pc   = [c \in Calls |-> "unused"]
  /\ srv  = [c \in Calls |-> None]
  /\ text = [c \in Calls |-> None]
  /\ msg  = [c \in Calls |-> NoMessage]
  /\ overlap = FALSE
  /\ wanted  = [g \in Servers |-> None]
  /\ skewed  = [g \in Servers |-> FALSE]

Goto(c, l) == pc' = [pc EXCEPT ![c] = l]

-----------------------------------------------------------------------------
(* Starting and stopping.                                                  *)

\* Mutant: StartLSPServer spawns whatever the table holds.
NeedsServerAlways == TRUE

\* Whether StartLSPServer spawns.  ProcessState stays nil because nobody waits
\* for the process: an entry counts as running whether it runs or not.
NeedsServer == entry = None

\* Mutant: the kind of sync keeps Go's zero value when the server names none.
StartServerUnset(k) ==
  /\ NeedsServer
  /\ spawned < MaxServers
  /\ spawned' = spawned + 1
  /\ entry' = spawned'
  /\ alive' = [alive EXCEPT ![spawned'] = TRUE]
  /\ kind' = [kind EXCEPT ![spawned'] = IF k = 2 THEN 2 ELSE 0]
  /\ UNCHANGED <<docVars, pipeVars, callVars, histVars>>

\* StartLSPServer, including the handshake, which tells the kind of sync.  All
\* of it happens under s.mu.  A failed handshake kills the process and deletes
\* the entry: nothing remains of it.
StartServer(k) ==
  /\ NeedsServer
  /\ spawned < MaxServers
  /\ spawned' = spawned + 1
  /\ entry' = spawned'
  /\ alive' = [alive EXCEPT ![spawned'] = TRUE]
  /\ kind' = [kind EXCEPT ![spawned'] = k]
  /\ UNCHANGED <<docVars, pipeVars, callVars, histVars>>

\* StopLSPServer, StopAll and SetWorkspaceRoot, which first write shutdown and
\* exit, and so wait for room in the pipe of a server that is alive.  What the
\* process had not read when it is killed is lost, these two included.
StopServer ==
  /\ entry # None
  /\ alive[entry] => Len(wire[entry]) < MaxWire
  /\ entry' = None
  /\ alive' = [alive EXCEPT ![entry] = FALSE]
  /\ wire' = [wire EXCEPT ![entry] = <<>>]
  /\ UNCHANGED <<spawned, kind, peer>>
  /\ UNCHANGED <<docVars, callVars, histVars>>

\* The server dies by itself.
Crash(g) ==
  /\ alive[g]
  /\ alive' = [alive EXCEPT ![g] = FALSE]
  /\ wire' = [wire EXCEPT ![g] = <<>>]
  /\ UNCHANGED <<entry, spawned, kind, peer>>
  /\ UNCHANGED <<docVars, callVars, histVars>>

-----------------------------------------------------------------------------
(* syncDocument and CloseDocument.                                         *)

UnusedCalls == {c \in Calls : pc[c] = "unused"}
NextCall == CHOOSE c \in UnusedCalls : TRUE

\* A call looks the server up: with the buffer's text t, or with None to close
\* the document.  A call that finds no server returns at once.
Begin(c, t) ==
  /\ pc[c] = "unused"
  /\ entry # None
  /\ srv' = [srv EXCEPT ![c] = entry]
  /\ text' = [text EXCEPT ![c] = t]
  /\ Goto(c, "sync")
  /\ UNCHANGED <<msg, histVars>>
  /\ UNCHANGED <<tableVars, docVars, pipeVars>>

\* Some call of the same server is between docMu and its notification.
Preparing(c) == \E d \in Calls : pc[d] = "notify" /\ srv[d] = srv[c]

\* The history of a call that leaves docMu with a notification to write.
Prepared(c) ==
  /\ overlap' = (overlap \/ Preparing(c))
  /\ wanted' = [wanted EXCEPT ![srv[c]] = text[c]]

\* Mutant: the hash alone decides, also for a document that was closed.
UpToDateByHash(c) == content[srv[c]] = text[c]

\* The server has the text already, as far as this client knows.
UpToDate(c) == version[srv[c]] # 0 /\ content[srv[c]] = text[c]

SkipSync(c) ==
  /\ pc[c] = "sync"
  /\ text[c] # None
  /\ UpToDate(c)
  /\ wanted' = [wanted EXCEPT ![srv[c]] = text[c]]
  /\ Goto(c, "done")
  /\ UNCHANGED <<srv, text, msg, overlap, skewed>>
  /\ UNCHANGED <<tableVars, docVars, pipeVars>>

\* The change from the last synced text to t.
Change(g, t) ==
  [type |-> "change", version |-> version[g] + 1, new |-> t,
   old |-> IF kind[g] = 2 THEN content[g] ELSE None]

\* The history of the increments: one that is not exact spoils those after it.
Skews(g, t) ==
  version[g] # 0 /\ kind[g] = 2 /\ (skewed[g] \/ <<content[g], t>> \notin Exact)

\* Inside docMu: the next version, and the notification that will carry it.
Allocate(c) ==
  LET g == srv[c] IN
  /\ pc[c] = "sync"
  /\ text[c] # None
  /\ ~UpToDate(c)
  /\ version' = [version EXCEPT ![g] = @ + 1]
  /\ content' = [content EXCEPT ![g] = text[c]]
  /\ msg' = [msg EXCEPT ![c] =
               IF version[g] = 0
               THEN [type |-> "open", version |-> 1, new |-> text[c]]
               ELSE Change(g, text[c])]
  /\ Prepared(c)
  /\ skewed' = [skewed EXCEPT ![g] = Skews(g, text[c])]
  /\ Goto(c, "notify")
  /\ UNCHANGED <<srv, text>>
  /\ UNCHANGED <<tableVars, pipeVars>>

\* CloseDocument forgets the version.  It leaves the last content.
Forget(c) ==
  /\ pc[c] = "sync"
  /\ text[c] = None
  /\ version' = [version EXCEPT ![srv[c]] = 0]
  /\ msg' = [msg EXCEPT ![c] = [type |-> "close"]]
  /\ Prepared(c)
  /\ skewed' = [skewed EXCEPT ![srv[c]] = FALSE]
  /\ Goto(c, "notify")
  /\ UNCHANGED <<content, srv, text>>
  /\ UNCHANGED <<tableVars, pipeVars>>

\* Mutant: a write to a dead server blocks.
WriteBlocking(g, m) ==
  /\ alive[g]
  /\ Len(wire[g]) < MaxWire
  /\ wire' = [wire EXCEPT ![g] = Append(@, m)]

\* writeMessage, which serialises the writers.  An error is only logged.
Write(g, m) ==
  IF alive[g]
  THEN /\ Len(wire[g]) < MaxWire
       /\ wire' = [wire EXCEPT ![g] = Append(@, m)]
  ELSE UNCHANGED wire

Notify(c) ==
  /\ pc[c] = "notify"
  /\ Write(srv[c], msg[c])
  /\ Goto(c, "done")
  /\ msg' = [msg EXCEPT ![c] = NoMessage]
  /\ UNCHANGED <<srv, text, histVars, peer>>
  /\ UNCHANGED <<tableVars, docVars>>

-----------------------------------------------------------------------------
(* The server, by the protocol: an external program.                       *)

\* Whether message m says of document d what became of the buffer.
Fits(d, m) == m.old = None \/ (m.old = d.text /\ <<m.old, m.new>> \in Exact)

Applied(d, m) ==
  CASE m.type = "open"  -> [version |-> m.version, text |-> m.new]
    [] m.type = "close" -> Closed
    [] m.type = "change" ->
         IF d.version = 0 THEN d
         ELSE [version |-> m.version,
               text |-> IF Fits(d, m) THEN m.new ELSE Garbled]

Receive(g) ==
  /\ wire[g] # <<>>
  /\ peer' = [peer EXCEPT ![g] = Applied(@, Head(wire[g]))]
  /\ wire' = [wire EXCEPT ![g] = Tail(@)]
  /\ UNCHANGED <<tableVars, docVars, callVars, histVars>>

-----------------------------------------------------------------------------
CallStep(c) ==
  \/ SkipSync(c)
  \/ Allocate(c)
  \/ Forget(c)
  \/ Notify(c)

Next ==
  \/ \E k \in {1, 2} : StartServer(k)
  \/ \E g \in Servers :
       \/ Crash(g)
       \/ Receive(g)
  \/ StopServer
  \/ UnusedCalls # {} /\ \E t \in Texts \cup {None} : Begin(NextCall, t)
  \/ \E c \in Calls : CallStep(c)

Spec == Init /\ [][Next]_vars

(* Goroutines run, and a server that is alive reads its stdin.              *)
Fairness ==
  /\ \A c \in Calls : WF_vars(CallStep(c))
  /\ \A g \in Servers : WF_vars(Receive(g))

FairSpec == Spec /\ Fairness

-----------------------------------------------------------------------------
TypeOK ==
  /\ entry \in Servers \cup {None}
  /\ alive \in [Servers -> BOOLEAN]
  /\ spawned \in 0..MaxServers
  /\ kind \in [Servers -> {1, 2}]
  /\ version \in [Servers -> Nat]
  /\ content \in [Servers -> Texts \cup {None}]
  /\ wire \in [Servers -> Seq(Messages)]
  /\ peer \in [Servers -> [version : Nat, text : Texts \cup {None, Garbled}]]
  /\ pc \in [Calls -> {"unused", "sync", "notify", "done"}]
  /\ srv \in [Calls -> Servers \cup {None}]
  /\ text \in [Calls -> Texts \cup {None}]
  /\ msg \in [Calls -> Messages \cup {NoMessage}]
  /\ overlap \in BOOLEAN
  /\ wanted \in [Servers -> Texts \cup {None}]
  /\ skewed \in [Servers -> BOOLEAN]

\* Everything the client wrote has been read, and nothing is being written.
Settled(g) ==
  /\ alive[g]
  /\ wire[g] = <<>>
  /\ \A c \in Calls : srv[c] = g => pc[c] # "notify"

(* BUG-IDE-01/04: the server works on the live buffer.  As long as no two
   notifications were between docMu and the pipe at once, a server that has
   read everything has the document in the version the client counts, and,
   unless an increment since the opening was not exact, with the text of the
   latest call, or not at all if that call closed it: across skipped syncs,
   increments, closing, reopening and restarts.                             *)
BufferKnown ==
  ~overlap => \A g \in Servers : Settled(g) =>
    /\ peer[g].version = version[g]
    /\ ~skewed[g] => peer[g].text = wanted[g]

(* What the comment of syncDocument says of it, "ensures the live buffer is
   known to the server", for calls that come one at a time.  It fails: an
   increment counts bytes where the protocol counts UTF-16 units.           *)
SyncedIsKnown ==
  ~overlap => \A g \in Servers : Settled(g) => peer[g].text = wanted[g]

(* A language has one server process at most, and it is the one the table
   points at: stops, restarts and changes of the root leave no other behind. *)
NoOrphan == \A g \in Servers : alive[g] => entry = g

(* No call of the editor hangs in the sync while a live server reads its
   stdin: a full pipe drains, and a dead server's pipe fails at once.       *)
CallsReturn == \A c \in Calls : pc[c] = "sync" ~> pc[c] = "done"
=============================================================================
