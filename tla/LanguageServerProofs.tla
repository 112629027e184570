------------------------ MODULE LanguageServerProofs ------------------------
(***************************************************************************)
(* Proofs about LanguageServer, for any number of calls, texts and servers *)
(* and any length of the pipe: its types, that a language never has a      *)
(* second server process, and that the server knows the live buffer.  And  *)
(* about the connection that it uses, JsonRpc: see below.                  *)
(***************************************************************************)
EXTENDS LanguageServer, JsonRpc, TLAPS

(* A call on its way has a server, and a call that is about to write has what
   to write: the part of the types that depends on where a call is.         *)
CallsEquipped ==
  \A c \in Calls :
    /\ pc[c] \in {"sync", "notify"} => srv[c] \in Servers
    /\ pc[c] = "notify" => msg[c] \in Messages

TInv == TypeOK /\ CallsEquipped

LEMMA TypingInit == Init => TInv
<1> SUFFICES ASSUME Init PROVE TInv
  OBVIOUS
<1> USE LanguageServerAssumption DEF Init
<1>1. wire \in [Servers -> Seq(Messages)]
  <2>1. <<>> \in Seq(Messages)
    OBVIOUS
  <2>2. QED
    BY <2>1
<1>2. peer \in [Servers -> [version : Nat, text : Texts \cup {None, Garbled}]]
  BY DEF Closed
<1>3. spawned \in 0..MaxServers
  OBVIOUS
<1>4. CallsEquipped
  BY DEF CallsEquipped
<1>5. QED
  BY <1>1, <1>2, <1>3, <1>4 DEF TInv, TypeOK

\* A change that syncDocument prepares is a message.
LEMMA ChangeIsMessage ==
  ASSUME TypeOK, NEW g \in Servers, NEW t \in Texts
  PROVE  Change(g, t) \in Messages
<1>1. content[g] \in Texts \cup {None} /\ version[g] + 1 \in Nat
  BY DEF TypeOK
<1>2. QED
  BY <1>1 DEF Change, Messages

\* Whatever message the server reads, it has a document afterwards.
LEMMA AppliedIsDocument ==
  ASSUME NEW d \in [version : Nat, text : Texts \cup {None, Garbled}],
         NEW m \in Messages
  PROVE  Applied(d, m) \in [version : Nat, text : Texts \cup {None, Garbled}]
<1>1. CASE m \in [type : {"open"}, version : Nat, new : Texts]
  BY <1>1 DEF Applied
<1>2. CASE m \in [type : {"change"}, version : Nat,
                  old : Texts \cup {None}, new : Texts]
  <2>1. Applied(d, m) = IF d.version = 0 THEN d
                        ELSE [version |-> m.version,
                              text |-> IF \/ m.old = None
                                          \/ m.old = d.text /\ <<m.old, m.new>> \in Exact
                                       THEN m.new ELSE Garbled]
    BY <1>2 DEF Applied, Fits
  <2>2. QED
    BY <1>2, <2>1
<1>3. CASE m \in [type : {"close"}]
  BY <1>3 DEF Applied, Closed
<1>4. QED
  BY <1>1, <1>2, <1>3 DEF Messages

LEMMA TypingStep == TInv /\ [Next]_vars => TInv'
<1> SUFFICES ASSUME TInv, [Next]_vars
             PROVE  TInv'
  OBVIOUS
<1> USE LanguageServerAssumption
    DEF TInv, TypeOK, CallsEquipped, Goto, tableVars, docVars, pipeVars, callVars, histVars
<1>1. ASSUME NEW k \in {1, 2}, StartServer(k) PROVE TInv'
  <2>1. spawned + 1 \in Servers
    BY <1>1 DEF StartServer, Servers
  <2>2. spawned' \in Servers /\ spawned' \in 0..MaxServers
    BY <1>1, <2>1 DEF StartServer, Servers
  <2>3. QED
    BY <1>1, <2>2 DEF StartServer
<1>2. CASE StopServer
  <2>1. entry \in Servers
    BY <1>2 DEF StopServer
  <2>2. <<>> \in Seq(Messages)
    OBVIOUS
  <2>3. QED
    BY <1>2, <2>1, <2>2 DEF StopServer
<1>3. ASSUME NEW g \in Servers, Crash(g) PROVE TInv'
  <2>1. <<>> \in Seq(Messages)
    OBVIOUS
  <2>2. QED
    BY <1>3, <2>1 DEF Crash
<1>4. ASSUME NEW g \in Servers, Receive(g) PROVE TInv'
  <2>1. wire[g] \in Seq(Messages) /\ wire[g] # <<>>
    BY <1>4 DEF Receive
  <2>2. Head(wire[g]) \in Messages /\ Tail(wire[g]) \in Seq(Messages)
    BY <2>1
  <2>3. Applied(peer[g], Head(wire[g]))
          \in [version : Nat, text : Texts \cup {None, Garbled}]
    BY <2>2, AppliedIsDocument
  <2>4. peer' \in [Servers -> [version : Nat, text : Texts \cup {None, Garbled}]]
    BY <1>4, <2>3 DEF Receive
  <2>5. wire' \in [Servers -> Seq(Messages)]
    BY <1>4, <2>2 DEF Receive
  <2>6. QED
    BY <1>4, <2>4, <2>5 DEF Receive
<1>5. ASSUME NEW c \in Calls, NEW t \in Texts \cup {None}, Begin(c, t) PROVE TInv'
  BY <1>5 DEF Begin
<1>6. ASSUME NEW c \in Calls, SkipSync(c) PROVE TInv'
  BY <1>6 DEF SkipSync
<1>7. ASSUME NEW c \in Calls, Allocate(c) PROVE TInv'
  <2>1. srv[c] \in Servers /\ text[c] \in Texts
    BY <1>7 DEF Allocate
  <2>2. version[srv[c]] + 1 \in Nat
    BY <2>1
  <2>3. Change(srv[c], text[c]) \in Messages
    BY <2>1, ChangeIsMessage
  <2>4. [type |-> "open", version |-> 1, new |-> text[c]] \in Messages
    BY <2>1 DEF Messages
  <2>5. PICK m \in Messages : msg' = [msg EXCEPT ![c] = m]
    BY <1>7, <2>3, <2>4 DEF Allocate
  <2>6. overlap' \in BOOLEAN /\ wanted' = [wanted EXCEPT ![srv[c]] = text[c]]
    BY <1>7 DEF Allocate, Prepared
  <2>11. skewed' \in [Servers -> BOOLEAN]
    <3>1. Skews(srv[c], text[c]) \in BOOLEAN
      BY DEF Skews
    <3>2. skewed' = [skewed EXCEPT ![srv[c]] = Skews(srv[c], text[c])]
      BY <1>7 DEF Allocate
    <3>3. QED
      BY <2>1, <3>1, <3>2
  <2>7. /\ version' = [version EXCEPT ![srv[c]] = version[srv[c]] + 1]
        /\ content' = [content EXCEPT ![srv[c]] = text[c]]
        /\ pc' = [pc EXCEPT ![c] = "notify"]
        /\ UNCHANGED <<srv, text, entry, alive, spawned, kind, wire, peer>>
    BY <1>7 DEF Allocate
  <2>8. TypeOK'
    BY <2>1, <2>2, <2>5, <2>6, <2>7, <2>11
  <2>9. CallsEquipped'
    BY <2>1, <2>5, <2>7
  <2>10. QED
    BY <2>8, <2>9
<1>8. ASSUME NEW c \in Calls, Forget(c) PROVE TInv'
  <2>1. srv[c] \in Servers /\ text[c] = None
    BY <1>8 DEF Forget
  <2>2. [type |-> "close"] \in Messages
    BY DEF Messages
  <2>3. overlap' \in BOOLEAN /\ wanted' = [wanted EXCEPT ![srv[c]] = text[c]]
    BY <1>8 DEF Forget, Prepared
  <2>4. QED
    BY <1>8, <2>1, <2>2, <2>3 DEF Forget
<1>9. ASSUME NEW c \in Calls, Notify(c) PROVE TInv'
  <2>1. srv[c] \in Servers /\ msg[c] \in Messages
    BY <1>9 DEF Notify
  <2>2. Append(wire[srv[c]], msg[c]) \in Seq(Messages)
    BY <2>1
  <2>3. wire' \in [Servers -> Seq(Messages)]
    BY <1>9, <2>1, <2>2 DEF Notify, Write
  <2>4. QED
    BY <1>9, <2>3 DEF Notify
<1>10. CASE UNCHANGED vars
  BY <1>10 DEF vars
<1>11. ASSUME NEW t \in Texts \cup {None}, UnusedCalls # {}, Begin(NextCall, t)
       PROVE  TInv'
  <2>1. NextCall \in Calls
    BY <1>11 DEF NextCall, UnusedCalls
  <2>2. QED
    BY <1>5, <1>11, <2>1
<1>12. QED
  BY <1>1, <1>2, <1>3, <1>4, <1>6, <1>7, <1>8, <1>9, <1>10, <1>11 DEF Next, CallStep

(* The types of every reachable state. *)
THEOREM Typing == Spec => []TypeOK
<1>1. TInv => TypeOK
  BY DEF TInv
<1>2. QED
  BY <1>1, TypingInit, TypingStep, PTL DEF Spec

-----------------------------------------------------------------------------
(* A server is spawned only into an empty entry, and an entry is emptied only
   together with the life of its process.                                   *)
THEOREM OneServer == Spec => []NoOrphan
<1>1. Init => NoOrphan
  BY DEF Init, NoOrphan
<1>2. TypeOK /\ NoOrphan /\ [Next]_vars => NoOrphan'
  <2> SUFFICES ASSUME TypeOK, NoOrphan, [Next]_vars
               PROVE  NoOrphan'
    OBVIOUS
  <2> USE LanguageServerAssumption DEF TypeOK, NoOrphan
  <2>1. ASSUME NEW k \in {1, 2}, StartServer(k) PROVE NoOrphan'
    <3>1. \A g \in Servers : ~alive[g]
      BY <2>1 DEF StartServer, NeedsServer, Servers
    <3>2. QED
      BY <2>1, <3>1 DEF StartServer
  <2>2. CASE StopServer
    BY <2>2 DEF StopServer
  <2>3. ASSUME NEW g \in Servers, Crash(g) PROVE NoOrphan'
    BY <2>3 DEF Crash
  <2>4. CASE UNCHANGED <<entry, alive>>
    BY <2>4
  <2>5. QED
    BY <2>1, <2>2, <2>3, <2>4
    DEF Next, CallStep, Receive, Begin, SkipSync, Allocate, Forget, Notify,
        vars, tableVars
<1>3. QED
  BY <1>1, <1>2, Typing, PTL DEF Spec

-----------------------------------------------------------------------------
(* BufferKnown.  The inductive invariant follows a server through its pipe:
   what it has now, what it will have after each message in there, and in the
   end, after the message that is about to be written, the document that the
   client counts, except for its text if an increment was not exact.        *)

\* f tells what the server has after each of the messages in its pipe.
Path(g, f) ==
  /\ f[0] = peer[g]
  /\ \A i \in 1..Len(wire[g]) : f[i] = Applied(f[i - 1], wire[g][i])

\* The document as the client has counted it.
Client(g) == [version |-> version[g], text |-> IF version[g] = 0 THEN None ELSE content[g]]

\* No server after the last one that was spawned has been used.
Unspawned ==
  /\ \A g \in Servers : g > spawned =>
       /\ ~alive[g] /\ wire[g] = <<>> /\ peer[g] = Closed /\ version[g] = 0 /\ wanted[g] = None
       /\ \A c \in Calls : srv[c] # g
  /\ entry # None => entry <= spawned

WantedIsClient == \A g \in Servers : wanted[g] = Client(g).text

OneWriter == \A c, d \in Calls : pc[c] = "notify" /\ pc[d] = "notify" /\ srv[c] = srv[d] => c = d

\* Document d is the client's, as far as the increments were exact.
Matches(g, d) == d.version = version[g] /\ (~skewed[g] => d.text = Client(g).text)

\* From document d the message that is about to be written, if there is one,
\* leads to the client's.
Leads(g, d) ==
  /\ (\A c \in Calls : srv[c] = g => pc[c] # "notify") => Matches(g, d)
  /\ \A c \in Calls : srv[c] = g /\ pc[c] = "notify" => Matches(g, Applied(d, msg[c]))

InStep(g) == alive[g] => \E f : Path(g, f) /\ Leads(g, f[Len(wire[g])])

BufferInv ==
  /\ Unspawned /\ WantedIsClient
  /\ ~overlap => OneWriter /\ \A g \in Servers : InStep(g)

LEMMA BufferInit == Init => BufferInv
<1> SUFFICES ASSUME Init PROVE BufferInv
  OBVIOUS
<1> USE LanguageServerAssumption DEF Init
<1>1. Unspawned
  BY DEF Unspawned, Servers
<1>2. WantedIsClient
  BY DEF WantedIsClient, Client
<1>3. OneWriter
  BY DEF OneWriter
<1>4. \A g \in Servers : InStep(g)
  BY DEF InStep
<1> QED
  BY <1>1, <1>2, <1>3, <1>4 DEF BufferInv

\* The state of a server, and of the calls that are about to write to it.
SameServer(g) ==
  /\ wire'[g] = wire[g] /\ peer'[g] = peer[g] /\ version'[g] = version[g] /\ content'[g] = content[g]
  /\ skewed'[g] = skewed[g]
  /\ alive'[g] => alive[g]

SameWriter(g, c) ==
  IF srv[c] = g /\ pc[c] = "notify"
  THEN srv'[c] = g /\ pc'[c] = "notify" /\ msg'[c] = msg[c]
  ELSE ~(srv'[c] = g /\ pc'[c] = "notify")

LEMMA ServerFrame ==
  ASSUME NEW g \in Servers, InStep(g), SameServer(g), \A c \in Calls : SameWriter(g, c)
  PROVE  InStep(g)'
<1> SUFFICES ASSUME alive'[g] PROVE \E f : Path(g, f)' /\ Leads(g, f[Len(wire[g])])'
  BY DEF InStep
<1>1. PICK f : Path(g, f) /\ Leads(g, f[Len(wire[g])])
  BY DEF InStep, SameServer
<1>2. Path(g, f)'
  BY <1>1 DEF Path, SameServer
<1>3. \A d : Matches(g, d)' <=> Matches(g, d)
  BY DEF Matches, Client, SameServer
<1>4. Leads(g, f[Len(wire[g])])'
  BY <1>1, <1>3 DEF Leads, SameWriter, SameServer
<1> QED
  BY <1>2, <1>4

LEMMA BufferStep == TInv /\ BufferInv /\ [Next]_vars => BufferInv'
<1> SUFFICES ASSUME TInv, BufferInv, [Next]_vars PROVE BufferInv'
  OBVIOUS
<1> USE LanguageServerAssumption DEF TInv, TypeOK, Goto
<1>a. /\ Servers \subseteq Nat /\ spawned \in Nat /\ (entry # None => entry \in Servers)
      /\ \A c \in Calls : pc[c] \in {"sync", "notify"} => srv[c] \in Servers
  BY DEF Servers, CallsEquipped
<1>t. \A c \in Calls : pc'[c] = "notify" => srv'[c] \in Servers
  BY TypingStep DEF CallsEquipped
\* A step that no server and no writer takes part in.
<1>b. ASSUME UNCHANGED <<alive, spawned, entry, version, content, skewed, wire, peer, srv, overlap, wanted>>,
             \A g \in Servers : \A c \in Calls : SameWriter(g, c)
      PROVE  BufferInv'
  <2>1. \A g \in Servers : SameServer(g)
    BY <1>b DEF SameServer
  <2>2. Unspawned'
    BY <1>b DEF BufferInv, Unspawned
  <2>3. WantedIsClient'
    BY <1>b DEF BufferInv, WantedIsClient, Client
  <2>4. ~overlap => OneWriter'
    BY <1>t, <1>b DEF BufferInv, OneWriter, SameWriter
  <2>5. ~overlap => \A g \in Servers : InStep(g)'
    BY <1>b, <2>1, ServerFrame DEF BufferInv
  <2> QED
    BY <1>b, <2>2, <2>3, <2>4, <2>5 DEF BufferInv
<1>1. ASSUME NEW k \in {1, 2}, StartServer(k) PROVE BufferInv'
  <2>0. PICK s \in Servers : s = spawned + 1
    BY <1>1 DEF StartServer, Servers
  <2>1. /\ spawned' = s /\ entry' = s /\ entry = None /\ alive' = [alive EXCEPT ![s] = TRUE]
        /\ UNCHANGED <<version, content, skewed, wire, peer, pc, srv, text, msg, overlap, wanted>>
    BY <1>1, <2>0 DEF StartServer, NeedsServer, docVars, pipeVars, callVars, histVars
  <2>2. /\ wire[s] = <<>> /\ peer[s] = Closed /\ version[s] = 0
        /\ \A c \in Calls : srv[c] # s
    BY <1>a, <2>0 DEF BufferInv, Unspawned
  <2>3. Unspawned'
    BY <1>a, <2>0, <2>1 DEF BufferInv, Unspawned
  <2>4. WantedIsClient' /\ (~overlap => OneWriter')
    BY <2>1 DEF BufferInv, WantedIsClient, Client, OneWriter
  <2>5. ASSUME NEW g \in Servers, ~overlap PROVE InStep(g)'
    <3>1. CASE g = s
      <4>1. wire'[s] = <<>> /\ peer'[s] = Closed /\ Len(wire'[s]) = 0
        BY <2>1, <2>2
      <4>2. PICK f : f = [i \in {0} |-> Closed]
        OBVIOUS
      <4>3. Path(s, f)'
        BY <4>1, <4>2 DEF Path
      <4>4. Matches(s, Closed)'
        BY <2>1, <2>2 DEF Matches, Client, Closed
      <4>5. Leads(s, f[Len(wire[s])])'
        BY <2>1, <2>2, <4>1, <4>2, <4>4 DEF Leads
      <4> QED
        BY <3>1, <4>3, <4>5 DEF InStep
    <3>2. CASE g # s
      <4>1. SameServer(g) /\ \A c \in Calls : SameWriter(g, c)
        BY <2>1, <3>2 DEF SameServer, SameWriter
      <4> QED
        BY <2>5, <4>1, ServerFrame DEF BufferInv
    <3> QED
      BY <3>1, <3>2
  <2> QED
    BY <2>1, <2>3, <2>4, <2>5 DEF BufferInv
\* A server stops or dies.
<1>2. ASSUME NEW s \in Servers, entry' \in {None, entry}, s <= spawned, ~alive'[s],
             \A g \in Servers \ {s} : alive'[g] = alive[g] /\ wire'[g] = wire[g],
             UNCHANGED <<spawned, version, content, skewed, peer, pc, srv, text, msg, overlap, wanted>>
      PROVE  BufferInv'
  <2>1. Unspawned'
    BY <1>a, <1>2 DEF BufferInv, Unspawned
  <2>2. WantedIsClient' /\ (~overlap => OneWriter')
    BY <1>2 DEF BufferInv, WantedIsClient, Client, OneWriter
  <2>3. ASSUME NEW g \in Servers, ~overlap PROVE InStep(g)'
    <3>1. CASE g = s
      BY <1>2, <3>1 DEF InStep
    <3>2. CASE g # s
      <4>1. SameServer(g) /\ \A c \in Calls : SameWriter(g, c)
        BY <1>2, <3>2 DEF SameServer, SameWriter
      <4> QED
        BY <2>3, <4>1, ServerFrame DEF BufferInv
    <3> QED
      BY <3>1, <3>2
  <2> QED
    BY <1>2, <2>1, <2>2, <2>3 DEF BufferInv
<1>3. CASE StopServer
  <2>1. entry \in Servers /\ entry <= spawned
    BY <1>3, <1>a DEF StopServer, BufferInv, Unspawned
  <2>2. PICK s \in Servers : s = entry
    BY <2>1
  <2> QED
    BY <1>2, <1>3, <2>1, <2>2 DEF StopServer, docVars, callVars, histVars
<1>4. ASSUME NEW g \in Servers, Crash(g) PROVE BufferInv'
  <2>1. g <= spawned
    BY <1>4, <1>a DEF Crash, BufferInv, Unspawned
  <2> QED
    BY <1>2, <1>4, <2>1 DEF Crash, docVars, callVars, histVars
<1>5. ASSUME NEW s \in Servers, Receive(s) PROVE BufferInv'
  <2>1. /\ wire[s] # <<>> /\ wire[s] \in Seq(Messages)
        /\ wire'[s] = Tail(wire[s]) /\ peer'[s] = Applied(peer[s], Head(wire[s]))
        /\ \A g \in Servers \ {s} : wire'[g] = wire[g] /\ peer'[g] = peer[g]
        /\ UNCHANGED <<entry, alive, spawned, version, content, skewed, pc, srv, text, msg, overlap, wanted>>
    BY <1>5 DEF Receive, tableVars, docVars, callVars, histVars
  <2>2. s <= spawned
    BY <1>a, <2>1 DEF BufferInv, Unspawned
  <2>3. Unspawned'
    BY <1>a, <2>1, <2>2 DEF BufferInv, Unspawned
  <2>4. WantedIsClient' /\ (~overlap => OneWriter')
    BY <2>1 DEF BufferInv, WantedIsClient, Client, OneWriter
  <2>5. ASSUME NEW g \in Servers, ~overlap PROVE InStep(g)'
    <3>1. CASE g = s /\ alive[s]
      <4> DEFINE q == wire[s]
      <4>1. PICK f : Path(s, f) /\ Leads(s, f[Len(q)])
        BY <2>5, <3>1 DEF BufferInv, InStep
      <4>2. /\ Len(q) \in Nat \ {0} /\ Len(Tail(q)) = Len(q) - 1 /\ Head(q) = q[1]
            /\ \A i \in 1..Len(Tail(q)) : Tail(q)[i] = q[i + 1]
        BY <2>1
      <4>3. PICK n \in Nat : n = Len(Tail(q)) /\ n + 1 = Len(q) /\ n = Len(wire'[s])
        <5>1. Len(q) - 1 \in Nat /\ (Len(q) - 1) + 1 = Len(q) /\ Len(wire'[s]) = Len(Tail(q))
          BY <2>1, <4>2
        <5> QED
          BY <4>2, <5>1
      <4>4. PICK h : h = [i \in 0..n |-> f[i + 1]]
        OBVIOUS
      <4>5. h[0] = peer'[s]
        <5>1. f[1] = Applied(f[0], q[1]) /\ f[0] = peer[s]
          BY <4>1, <4>2 DEF Path
        <5> QED
          BY <2>1, <4>2, <4>4, <5>1
      <4>6. ASSUME NEW i \in 1..n PROVE h[i] = Applied(h[i - 1], wire'[s][i])
        <5>1. i \in 0..n /\ i - 1 \in 0..n /\ (i - 1) + 1 = i /\ i + 1 \in 1..Len(q) /\ (i + 1) - 1 = i
          BY <4>3
        <5>2. f[i + 1] = Applied(f[i], q[i + 1])
          BY <4>1, <5>1 DEF Path
        <5>3. h[i] = f[i + 1] /\ h[i - 1] = f[i]
          BY <4>4, <5>1
        <5>4. wire'[s][i] = q[i + 1]
          BY <2>1, <4>2, <4>3
        <5> QED
          BY <5>2, <5>3, <5>4
      <4>7. Path(s, h)'
        BY <4>3, <4>5, <4>6 DEF Path
      <4>8. h[Len(wire'[s])] = f[Len(q)]
        <5>1. n \in 0..n /\ Len(wire'[s]) = n /\ n + 1 = Len(q)
          BY <4>3
        <5>2. h[n] = f[n + 1]
          BY <4>4, <5>1
        <5> QED
          BY <5>1, <5>2
      <4>9. Leads(s, h[Len(wire[s])])'
        BY <2>1, <4>1, <4>8 DEF Leads, Matches, Client
      <4> QED
        BY <3>1, <4>7, <4>9 DEF InStep
    <3>2. CASE g = s /\ ~alive[s]
      BY <2>1, <3>2 DEF InStep
    <3>3. CASE g # s
      <4>1. SameServer(g) /\ \A c \in Calls : SameWriter(g, c)
        BY <2>1, <3>3 DEF SameServer, SameWriter
      <4> QED
        BY <2>5, <4>1, ServerFrame DEF BufferInv
    <3> QED
      BY <3>1, <3>2, <3>3
  <2> QED
    BY <2>1, <2>3, <2>4, <2>5 DEF BufferInv
<1>6. ASSUME NEW c \in Calls, NEW t \in Texts \cup {None}, Begin(c, t) PROVE BufferInv'
  <2>1. /\ pc[c] = "unused" /\ pc'[c] = "sync" /\ srv'[c] = entry /\ entry \in Servers /\ entry <= spawned
        /\ \A d \in Calls \ {c} : pc'[d] = pc[d] /\ srv'[d] = srv[d]
        /\ UNCHANGED <<alive, spawned, entry, version, content, skewed, wire, peer, msg, overlap, wanted>>
    BY <1>6, <1>a DEF Begin, BufferInv, Unspawned, tableVars, docVars, pipeVars, histVars
  <2>2. ASSUME NEW g \in Servers, NEW d \in Calls PROVE SameWriter(g, d)
    BY <2>1 DEF SameWriter
  <2>3. \A g \in Servers : SameServer(g)
    BY <2>1 DEF SameServer
  <2>4. Unspawned'
    BY <1>a, <2>1 DEF BufferInv, Unspawned
  <2>5. WantedIsClient'
    BY <2>1 DEF BufferInv, WantedIsClient, Client
  <2>w. ASSUME NEW d \in Calls, pc'[d] = "notify" PROVE pc[d] = "notify" /\ srv'[d] = srv[d]
    BY <2>1, <2>w
  <2>7. ~overlap => OneWriter'
    BY <2>1, <2>w DEF BufferInv, OneWriter
  <2>6. ~overlap => \A g \in Servers : InStep(g)'
    BY <2>2, <2>3, ServerFrame DEF BufferInv
  <2> QED
    BY <2>1, <2>4, <2>5, <2>6, <2>7 DEF BufferInv
<1>7. ASSUME NEW c \in Calls, SkipSync(c) PROVE BufferInv'
  <2>1. /\ pc[c] = "sync" /\ pc'[c] = "done" /\ srv[c] \in Servers /\ version[srv[c]] # 0
        /\ content[srv[c]] = text[c]
        /\ \A d \in Calls \ {c} : pc'[d] = pc[d]
        /\ wanted' = [wanted EXCEPT ![srv[c]] = text[c]]
        /\ UNCHANGED <<alive, spawned, entry, version, content, skewed, wire, peer, srv, msg, overlap>>
    BY <1>7, <1>a DEF SkipSync, UpToDate, tableVars, docVars, pipeVars
  <2>2. wanted' = wanted
    <3>1. wanted[srv[c]] = text[c]
      BY <2>1 DEF BufferInv, WantedIsClient, Client
    <3> QED
      BY <2>1, <3>1
  <2>3. \A g \in Servers : \A d \in Calls : SameWriter(g, d)
    BY <2>1 DEF SameWriter
  <2> QED
    BY <1>b, <2>1, <2>2, <2>3
\* A call leaves docMu with a message that leads from the client's document
\* before to the one after.
<1>8. ASSUME NEW c \in Calls, NEW s \in Servers, srv[c] = s, pc[c] = "sync", Prepared(c),
             pc' = [pc EXCEPT ![c] = "notify"],
             \A d : Matches(s, d) => Matches(s, Applied(d, msg[c]))', wanted'[s] = Client(s)'.text,
             \A d \in Calls \ {c} : msg'[d] = msg[d],
             \A g \in Servers \ {s} : version'[g] = version[g] /\ content'[g] = content[g] /\ skewed'[g] = skewed[g],
             UNCHANGED <<alive, spawned, entry, wire, peer, srv>>
      PROVE  BufferInv'
  <2>0. /\ overlap' = (overlap \/ Preparing(c)) /\ \A g \in Servers \ {s} : wanted'[g] = wanted[g]
        /\ pc'[c] = "notify" /\ \A d \in Calls \ {c} : pc'[d] = pc[d]
    BY <1>8 DEF Prepared
  <2>1. s <= spawned
    BY <1>8, <1>a DEF BufferInv, Unspawned
  <2>2. Unspawned'
    BY <1>8, <1>a, <2>0, <2>1 DEF BufferInv, Unspawned
  <2>3. WantedIsClient'
    <3> SUFFICES ASSUME NEW g \in Servers PROVE wanted'[g] = Client(g)'.text
      BY DEF WantedIsClient
    <3>1. CASE g = s
      BY <1>8, <3>1
    <3>2. CASE g # s
      <4>1. wanted'[g] = wanted[g] /\ version'[g] = version[g] /\ content'[g] = content[g]
        BY <1>8, <2>0, <3>2
      <4>2. wanted[g] = Client(g).text
        BY DEF BufferInv, WantedIsClient
      <4>3. QED
        BY <4>1, <4>2 DEF Client
    <3>3. QED
      BY <3>1, <3>2
  <2>4. ASSUME ~overlap' PROVE OneWriter' /\ \A g \in Servers : InStep(g)'
    <3>1. ~overlap /\ \A d \in Calls : srv[d] = s => pc[d] # "notify"
      BY <1>8, <2>0, <2>4 DEF Preparing
    <3>2. OneWriter'
      BY <1>8, <2>0, <3>1 DEF BufferInv, OneWriter
    <3>3. ASSUME NEW g \in Servers \ {s} PROVE InStep(g)'
      <4>1. SameServer(g) /\ \A d \in Calls : SameWriter(g, d)
        BY <1>8, <2>0, <3>3 DEF SameServer, SameWriter
      <4> QED
        BY <3>1, <3>3, <4>1, ServerFrame DEF BufferInv
    <3>4. ASSUME alive[s] PROVE InStep(s)'
      <4>1. PICK f : Path(s, f) /\ Matches(s, f[Len(wire[s])])
        BY <3>1, <3>4 DEF BufferInv, InStep, Leads
      <4>2. Path(s, f)'
        BY <1>8, <4>1 DEF Path
      <4>3. Matches(s, Applied(f[Len(wire[s])], msg[c]))'
        BY <1>8, <4>1
      <4>4. Leads(s, f[Len(wire[s])])'
        BY <1>8, <2>0, <3>1, <4>3 DEF Leads
      <4> QED
        BY <4>2, <4>4 DEF InStep
    <3>5. InStep(s)'
      BY <1>8, <3>4 DEF InStep
    <3> QED
      BY <3>2, <3>3, <3>5
  <2> QED
    BY <2>2, <2>3, <2>4 DEF BufferInv
<1>9. ASSUME NEW c \in Calls, Allocate(c) PROVE BufferInv'
  <2>0. PICK s \in Servers : s = srv[c]
    BY <1>9, <1>a DEF Allocate
  <2>1. /\ text[c] \in Texts /\ version[s] \in Nat /\ version'[s] = version[s] + 1 /\ content'[s] = text[c]
        /\ wanted'[s] = text[c]
    BY <1>9, <2>0 DEF Allocate, Prepared
  <2>2. Client(s)' = [version |-> version[s] + 1, text |-> text[c]]
    BY <2>1 DEF Client
  <2>3. msg'[c] = IF version[s] = 0 THEN [type |-> "open", version |-> 1, new |-> text[c]]
                                    ELSE Change(s, text[c])
    BY <1>9, <2>0 DEF Allocate
  <2>7. skewed'[s] = Skews(s, text[c])
    BY <1>9, <2>0 DEF Allocate
  <2>4. ASSUME NEW d, Matches(s, d) PROVE Matches(s, Applied(d, msg[c]))'
    <3>1. CASE version[s] = 0
      <4>1. Applied(d, msg'[c]) = [version |-> 1, text |-> text[c]]
        BY <2>3, <3>1 DEF Applied
      <4> QED
        BY <2>1, <2>2, <3>1, <4>1 DEF Matches
    <3>2. CASE version[s] # 0
      <4>1. d.version # 0 /\ msg'[c] = Change(s, text[c])
        BY <2>3, <2>4, <3>2 DEF Matches
      <4>2. Applied(d, Change(s, text[c])) =
              [version |-> version[s] + 1,
               text |-> IF Fits(d, Change(s, text[c])) THEN text[c] ELSE Garbled]
        BY <4>1 DEF Applied, Change
      <4>3. ~skewed'[s] => Fits(d, Change(s, text[c]))
        <5>1. CASE kind[s] # 2
          BY <5>1 DEF Fits, Change
        <5>2. CASE kind[s] = 2
          BY <2>4, <2>7, <3>2, <5>2 DEF Fits, Change, Skews, Matches, Client
        <5> QED
          BY <5>1, <5>2
      <4> QED
        BY <2>1, <2>2, <4>1, <4>2, <4>3 DEF Matches
    <3> QED
      BY <3>1, <3>2
  <2>5. wanted'[s] = Client(s)'.text
    BY <2>1, <2>2
  <2>6. /\ pc[c] = "sync" /\ Prepared(c) /\ pc' = [pc EXCEPT ![c] = "notify"]
        /\ \A d \in Calls \ {c} : msg'[d] = msg[d]
        /\ \A g \in Servers \ {s} : version'[g] = version[g] /\ content'[g] = content[g] /\ skewed'[g] = skewed[g]
        /\ UNCHANGED <<alive, spawned, entry, wire, peer, srv>>
    BY <1>9, <2>0 DEF Allocate, tableVars, pipeVars
  <2> QED
    BY <1>8, <2>0, <2>4, <2>5, <2>6
<1>10. ASSUME NEW c \in Calls, Forget(c) PROVE BufferInv'
  <2>0. PICK s \in Servers : s = srv[c]
    BY <1>10, <1>a DEF Forget
  <2>1. version'[s] = 0 /\ wanted'[s] = None /\ msg'[c] = [type |-> "close"]
    BY <1>10, <2>0 DEF Forget, Prepared
  <2>2. wanted'[s] = Client(s)'.text
    BY <2>1 DEF Client
  <2>4. ASSUME NEW d PROVE Matches(s, Applied(d, msg[c]))'
    BY <2>1 DEF Matches, Applied, Client, Closed
  <2>3. /\ pc[c] = "sync" /\ Prepared(c) /\ pc' = [pc EXCEPT ![c] = "notify"]
        /\ \A d \in Calls \ {c} : msg'[d] = msg[d]
        /\ \A g \in Servers \ {s} : version'[g] = version[g] /\ content'[g] = content[g] /\ skewed'[g] = skewed[g]
        /\ UNCHANGED <<alive, spawned, entry, wire, peer, srv>>
    BY <1>10, <2>0 DEF Forget, tableVars, pipeVars
  <2> QED
    BY <1>8, <2>0, <2>2, <2>3, <2>4
<1>11. ASSUME NEW c \in Calls, Notify(c) PROVE BufferInv'
  <2>0. PICK s \in Servers : s = srv[c]
    BY <1>11, <1>a DEF Notify
  <2>1. /\ pc[c] = "notify" /\ pc'[c] = "done" /\ msg[c] \in Messages
        /\ \A d \in Calls \ {c} : pc'[d] = pc[d] /\ msg'[d] = msg[d]
        /\ UNCHANGED <<alive, spawned, entry, version, content, skewed, peer, srv, overlap, wanted>>
        /\ \A g \in Servers \ {s} : wire'[g] = wire[g]
        /\ alive[s] => wire'[s] = Append(wire[s], msg[c])
    BY <1>11, <2>0 DEF Notify, Write, CallsEquipped, tableVars, docVars, histVars
  <2>2. s <= spawned
    BY <1>a, <2>0 DEF BufferInv, Unspawned
  <2>3. Unspawned'
    BY <1>a, <2>1, <2>2 DEF BufferInv, Unspawned
  <2>4. WantedIsClient' /\ (~overlap => OneWriter')
    BY <2>1 DEF BufferInv, WantedIsClient, Client, OneWriter
  <2>5. ASSUME NEW g \in Servers, ~overlap PROVE InStep(g)'
    <3>1. CASE g = s /\ alive[s]
      <4>1. PICK f : Path(s, f) /\ Leads(s, f[Len(wire[s])])
        BY <2>5, <3>1 DEF BufferInv, InStep
      <4>2. PICK n \in Nat : n = Len(wire[s])
        OBVIOUS
      <4>3. /\ Len(wire'[s]) = n + 1 /\ wire'[s][n + 1] = msg[c]
            /\ \A i \in 1..n : wire'[s][i] = wire[s][i]
        <5>1. wire[s] \in Seq(Messages) /\ wire'[s] = Append(wire[s], msg[c]) /\ msg[c] \in Messages
          BY <2>1, <3>1
        <5> QED
          BY <4>2, <5>1
      <4>4. PICK h : h = [i \in 0..(n + 1) |-> IF i = n + 1 THEN Applied(f[n], msg[c]) ELSE f[i]]
        OBVIOUS
      <4>5. /\ h[n + 1] = Applied(f[n], msg[c])
            /\ \A i \in 0..n : h[i] = f[i]
        BY <4>4
      <4>6. h[0] = peer'[s]
        BY <2>1, <4>1, <4>5 DEF Path
      <4>7. ASSUME NEW i \in 1..(n + 1) PROVE h[i] = Applied(h[i - 1], wire'[s][i])
        <5>1. CASE i = n + 1
          <6>1. i - 1 = n /\ n \in 0..n
            BY <5>1
          <6> QED
            BY <4>3, <4>5, <5>1, <6>1
        <5>2. CASE i # n + 1
          <6>1. i \in 1..n /\ i \in 0..n /\ i - 1 \in 0..n
            BY <5>2
          <6>2. f[i] = Applied(f[i - 1], wire[s][i])
            BY <4>1, <4>2, <6>1 DEF Path
          <6> QED
            BY <4>3, <4>5, <6>1, <6>2
        <5> QED
          BY <5>1, <5>2
      <4>8. Path(s, h)'
        BY <4>3, <4>6, <4>7 DEF Path
      <4>9. Matches(s, Applied(f[n], msg[c]))
        BY <2>0, <2>1, <4>1, <4>2 DEF Leads
      <4>10. \A d \in Calls : srv[d] = s => pc'[d] # "notify"
        BY <2>0, <2>1, <2>5 DEF BufferInv, OneWriter
      <4>11. Matches(s, h[Len(wire[s])])'
        BY <2>1, <4>3, <4>5, <4>9 DEF Matches, Client
      <4>12. Leads(s, h[Len(wire[s])])'
        BY <2>1, <4>10, <4>11 DEF Leads
      <4> QED
        BY <3>1, <4>8, <4>12 DEF InStep
    <3>2. CASE g = s /\ ~alive[s]
      BY <2>1, <3>2 DEF InStep
    <3>3. CASE g # s
      <4>1. SameServer(g) /\ \A d \in Calls : SameWriter(g, d)
        BY <2>0, <2>1, <3>3 DEF SameServer, SameWriter
      <4> QED
        BY <2>5, <4>1, ServerFrame DEF BufferInv
    <3> QED
      BY <3>1, <3>2, <3>3
  <2> QED
    BY <2>1, <2>3, <2>4, <2>5 DEF BufferInv
<1>12. CASE UNCHANGED vars
  <2>1. \A g \in Servers : \A c \in Calls : SameWriter(g, c)
    BY <1>12 DEF SameWriter, vars, callVars
  <2> QED
    BY <1>b, <1>12, <2>1 DEF vars, tableVars, docVars, pipeVars, callVars, histVars
<1>13. ASSUME NEW t \in Texts \cup {None}, UnusedCalls # {}, Begin(NextCall, t) PROVE BufferInv'
  <2>1. NextCall \in Calls
    BY <1>13 DEF NextCall, UnusedCalls
  <2> QED
    BY <1>6, <1>13, <2>1
<1> QED
  BY <1>1, <1>3, <1>4, <1>5, <1>7, <1>9, <1>10, <1>11, <1>12, <1>13 DEF Next, CallStep

(* The server works on the live buffer (lsp_service.go, syncDocument,
   buildIncrementalChange and CloseDocument): as long as no two notifications
   of one server were between docMu and the pipe at once, a server that has
   read everything has the version that the client counts, and the text of the
   latest call too if every increment since the opening was exact: one that
   was computed on a text with nothing but ASCII before the change, or a change
   that carried the whole text.                                             *)
THEOREM LiveBuffer == Spec => []BufferKnown
<1>1. TInv /\ BufferInv => BufferKnown
  <2> SUFFICES ASSUME TInv, BufferInv, ~overlap, NEW g \in Servers, Settled(g)
               PROVE  peer[g].version = version[g] /\ (~skewed[g] => peer[g].text = wanted[g])
    BY DEF BufferKnown
  <2>1. PICK f : Path(g, f) /\ Leads(g, f[Len(wire[g])])
    BY DEF BufferInv, InStep, Settled
  <2>2. Len(wire[g]) = 0 /\ f[0] = peer[g]
    BY <2>1 DEF Path, Settled
  <2>3. Matches(g, peer[g])
    BY <2>1, <2>2 DEF Leads, Settled
  <2>4. wanted[g] = Client(g).text
    BY DEF BufferInv, WantedIsClient
  <2> QED
    BY <2>3, <2>4 DEF Matches
<1> QED
  BY <1>1, TypingInit, TypingStep, BufferInit, BufferStep, PTL DEF Spec

-----------------------------------------------------------------------------
(* The connection of JsonRpc, for any number of requests and pipes of any
   length: the table of pending requests does not leak, and a request that the
   reader has dropped from it has its wake-up; and the calls are kept the
   promise of Exchange.                                                     *)

(* Every step of the client and of the server keeps the types: in particular a
   request returns an outcome and never an empty channel.                   *)
LEMMA RpcTypingStep == RpcTypeOK /\ [RpcNext]_rpcVars => RpcTypeOK'
<1> SUFFICES ASSUME RpcTypeOK, [RpcNext]_rpcVars
             PROVE  RpcTypeOK'
  OBVIOUS
<1> USE RpcAssumption DEF RpcTypeOK, Stages, Outcomes, RpcMessages
<1>1. ASSUME NEW r \in Requests, Register(r) PROVE RpcTypeOK'
  BY <1>1 DEF Register, Enter, readerVars, serverVars
<1>2. ASSUME NEW r \in Requests, WriteRequest(r) PROVE RpcTypeOK'
  BY <1>2 DEF WriteRequest, Enter, pendingVars, readerVars
<1>3. ASSUME NEW r \in Requests, WriteFails(r) PROVE RpcTypeOK'
  BY <1>3 DEF WriteFails, Leave, Enter, pendingVars, readerVars, serverVars
<1>4. ASSUME NEW r \in Requests, Wake(r) PROVE RpcTypeOK'
  <2>1. chan[r] \in Outcomes
    BY <1>4 DEF Wake
  <2>2. QED
    BY <1>4, <2>1 DEF Wake, Leave, Enter, pendingVars, readerVars, serverVars
<1>5. ASSUME NEW r \in Requests, Timeout(r) PROVE RpcTypeOK'
  BY <1>5 DEF Timeout, Leave, Enter, pendingVars, readerVars, serverVars
<1>6. ASSUME NEW r \in Requests, Unregister(r) PROVE RpcTypeOK'
  BY <1>6 DEF Unregister, Enter, readerVars, serverVars
<1>7. CASE ReadOther
  BY <1>7 DEF ReadOther, AtMessage, pendingVars, requestVars
<1>8. ASSUME NEW r \in Requests, ReadAnswer(r) PROVE RpcTypeOK'
  BY <1>8 DEF ReadAnswer, AtMessage, pendingVars, requestVars
<1>9. CASE HandOver
  <2>1. chan' \in [Requests -> {"empty", "answer", "closed"}]
    BY <1>9 DEF HandOver
  <2>2. QED
    BY <1>9, <2>1 DEF HandOver, requestVars, serverVars
<1>10. CASE StopReading
  <2>1. chan' \in [Requests -> {"empty", "answer", "closed"}]
    BY <1>10 DEF StopReading, Woken
  <2>2. QED
    BY <1>10, <2>1 DEF StopReading, requestVars, serverVars
<1>11. CASE ServerReads
  BY <1>11 DEF ServerReads, pendingVars, readerVars, requestVars
<1>12. ASSUME NEW r \in Requests, ServerAnswers(r) PROVE RpcTypeOK'
  BY <1>12 DEF ServerAnswers, Sends, pendingVars, readerVars, requestVars
<1>13. ASSUME NEW m \in {"notification", "garbage"}, ServerTalks(m) PROVE RpcTypeOK'
  BY <1>13 DEF ServerTalks, Sends, pendingVars, readerVars, requestVars
<1>14. CASE ServerDies
  <2>1. stdin' \in Seq(Requests)
    BY <1>14 DEF ServerDies
  <2>2. QED
    BY <1>14, <2>1 DEF ServerDies, pendingVars, readerVars, requestVars
<1>15. CASE UNCHANGED rpcVars
  BY <1>15 DEF rpcVars, pendingVars, readerVars, requestVars, serverVars
<1>16. QED
  BY <1>1, <1>2, <1>3, <1>4, <1>5, <1>6, <1>7, <1>8, <1>9, <1>10, <1>11, <1>12,
     <1>13, <1>14, <1>15
  DEF RpcNext, RequestStep, ReaderStep, ServerStep

(* The types of every reachable state. *)
THEOREM RpcTyping == RpcSpec => []RpcTypeOK
<1>1. ASSUME RpcInit PROVE RpcTypeOK
  <2>1. stdin \in Seq(Requests) /\ stdout \in Seq(RpcMessages)
    BY <1>1 DEF RpcInit
  <2>2. QED
    BY <1>1, <2>1 DEF RpcInit, RpcTypeOK, Stages, Outcomes
<1>2. QED
  BY <1>1, RpcTypingStep, PTL DEF RpcSpec

-----------------------------------------------------------------------------
(* A request is in the table only between its registration and its deferred
   delete; the reader takes requests out and puts none in.                  *)
THEOREM Leakless == RpcSpec => []NoLeak
<1>1. RpcInit => NoLeak
  BY DEF RpcInit, NoLeak
<1>2. RpcTypeOK /\ NoLeak /\ [RpcNext]_rpcVars => NoLeak'
  <2> SUFFICES ASSUME RpcTypeOK, NoLeak, [RpcNext]_rpcVars
               PROVE  NoLeak'
    OBVIOUS
  <2> USE DEF RpcTypeOK, NoLeak
  <2>1. ASSUME NEW r \in Requests, Register(r) PROVE NoLeak'
    BY <2>1 DEF Register, Enter
  <2>2. ASSUME NEW r \in Requests, WriteRequest(r) PROVE NoLeak'
    BY <2>2 DEF WriteRequest, Enter, pendingVars
  <2>3. ASSUME NEW r \in Requests, WriteFails(r) \/ Wake(r) \/ Timeout(r) PROVE NoLeak'
    BY <2>3 DEF WriteFails, Wake, Timeout, Leave, Enter, pendingVars
  <2>4. ASSUME NEW r \in Requests, Unregister(r) PROVE NoLeak'
    BY <2>4 DEF Unregister, Enter
  <2>5. CASE StopReading
    BY <2>5 DEF StopReading
  <2>6. CASE ReadOther \/ (\E r \in Requests : ReadAnswer(r)) \/ HandOver
    BY <2>6 DEF ReadOther, ReadAnswer, HandOver, pendingVars, requestVars
  <2>7. CASE ServerStep
    BY <2>7 DEF ServerStep, ServerReads, ServerAnswers, ServerTalks, ServerDies,
                pendingVars, requestVars
  <2>8. CASE UNCHANGED rpcVars
    BY <2>8 DEF rpcVars, pendingVars, requestVars
  <2>9. QED
    BY <2>1, <2>2, <2>3, <2>4, <2>5, <2>6, <2>7, <2>8 DEF RpcNext, RequestStep, ReaderStep
<1>3. QED
  BY <1>1, <1>2, RpcTyping, PTL DEF RpcSpec

(* The reader empties the table and fills the channels in one critical section,
   and a filled channel is never emptied: with the types this is inductive. *)
THEOREM NoLostWakeup == RpcSpec => []ForgottenIsWoken
<1>1. RpcInit => ForgottenIsWoken
  BY DEF RpcInit, ForgottenIsWoken
<1>2. RpcTypeOK /\ ForgottenIsWoken /\ [RpcNext]_rpcVars => ForgottenIsWoken'
  <2> SUFFICES ASSUME RpcTypeOK, ForgottenIsWoken, [RpcNext]_rpcVars
               PROVE  ForgottenIsWoken'
    OBVIOUS
  <2> USE DEF RpcTypeOK, ForgottenIsWoken
  <2>1. ASSUME NEW r \in Requests, Register(r) PROVE ForgottenIsWoken'
    BY <2>1 DEF Register, Enter
  <2>2. ASSUME NEW r \in Requests, WriteRequest(r) PROVE ForgottenIsWoken'
    BY <2>2 DEF WriteRequest, Enter, pendingVars
  <2>3. ASSUME NEW r \in Requests, WriteFails(r) \/ Wake(r) \/ Timeout(r)
        PROVE  ForgottenIsWoken'
    BY <2>3 DEF WriteFails, Wake, Timeout, Leave, Enter, pendingVars
  <2>4. ASSUME NEW r \in Requests, Unregister(r) PROVE ForgottenIsWoken'
    BY <2>4 DEF Unregister, Enter
  <2>5. CASE HandOver
    BY <2>5 DEF HandOver, requestVars
  <2>6. CASE StopReading
    BY <2>6 DEF StopReading, Woken, requestVars
  <2>7. CASE ReadOther \/ (\E r \in Requests : ReadAnswer(r))
    BY <2>7 DEF ReadOther, ReadAnswer, pendingVars, requestVars
  <2>8. CASE ServerStep
    BY <2>8 DEF ServerStep, ServerReads, ServerAnswers, ServerTalks, ServerDies,
                pendingVars, requestVars
  <2>9. CASE UNCHANGED rpcVars
    BY <2>9 DEF rpcVars, pendingVars, requestVars
  <2>10. QED
    BY <2>1, <2>2, <2>3, <2>4, <2>5, <2>6, <2>7, <2>8, <2>9
    DEF RpcNext, RequestStep, ReaderStep
<1>3. QED
  BY <1>1, <1>2, RpcTyping, PTL DEF RpcSpec

-----------------------------------------------------------------------------
(* Exchanged.  A request is in one place only, and nowhere before it was
   written; what its caller was told agrees with where the call is.         *)

\* Each request is in a pipe at most once.
Once(q) == \A i, j \in DOMAIN q : q[i] = q[j] /\ q[i] \in Requests => i = j

OnePlace ==
  /\ Once(stdin) /\ Once(stdout)
  /\ \A r \in Requests :
       /\ r \in ToSet(stdin) => r \notin working
       /\ r \in WithServer => r \notin Answered
       /\ r \in ToSet(stdout) => handing # r /\ chan[r] # "answer"
       /\ handing = r => chan[r] # "answer"

Written == \A r \in WithServer \cup Answered : stage[r] \in {"wait", "leave", "done"} /\ outcome[r] # "unwritten"

Told ==
  \A r \in Requests :
    /\ outcome[r] = "none" <=> stage[r] \in {"unused", "write", "wait"}
    /\ outcome[r] = "unwritten" => ~serverUp

Connected ==
  /\ ~serverUp => stdin = <<>> /\ working = {}
  /\ handing # NoRequest => reader = "reading"
  /\ \A r \in Requests :
       /\ chan[r] = "closed" => reader = "stopped"
       /\ reader = "reading" /\ stage[r] \in {"write", "wait"} => r \in pending

ExchangeInv == OnePlace /\ Written /\ Told /\ Connected

\* The pipes: what is read from one, and what is written to one.
LEMMA ReadOne ==
  ASSUME NEW S, NEW q \in Seq(S), q # <<>>, Once(q)
  PROVE  /\ Head(q) \in ToSet(q) /\ ToSet(q) = ToSet(Tail(q)) \cup {Head(q)}
         /\ Once(Tail(q))
         /\ Head(q) \in Requests => Head(q) \notin ToSet(Tail(q))
<1>1. /\ Len(q) \in Nat \ {0} /\ DOMAIN q = 1..Len(q) /\ Head(q) = q[1]
      /\ DOMAIN Tail(q) = 1..(Len(q) - 1) /\ \A i \in 1..(Len(q) - 1) : Tail(q)[i] = q[i + 1]
  OBVIOUS
<1>2. ToSet(q) = ToSet(Tail(q)) \cup {Head(q)}
  <2>1. ASSUME NEW i \in DOMAIN q PROVE q[i] \in ToSet(Tail(q)) \cup {Head(q)}
    <3>1. CASE i = 1
      BY <1>1, <3>1
    <3>2. CASE i # 1
      <4>1. i - 1 \in DOMAIN Tail(q) /\ Tail(q)[i - 1] = q[i]
        BY <1>1, <2>1, <3>2
      <4> QED
        BY <4>1 DEF ToSet
    <3> QED
      BY <3>1, <3>2
  <2>2. ASSUME NEW i \in DOMAIN Tail(q) PROVE Tail(q)[i] \in ToSet(q)
    <3>1. i + 1 \in DOMAIN q /\ Tail(q)[i] = q[i + 1]
      BY <1>1, <2>2
    <3> QED
      BY <3>1 DEF ToSet
  <2>3. Head(q) \in ToSet(q)
    BY <1>1 DEF ToSet
  <2>4. ToSet(q) \subseteq ToSet(Tail(q)) \cup {Head(q)}
    BY <2>1 DEF ToSet
  <2>5. ToSet(Tail(q)) \subseteq ToSet(q)
    BY <2>2 DEF ToSet
  <2> QED
    BY <2>3, <2>4, <2>5
<1>3. Once(Tail(q))
  BY <1>1 DEF Once
<1>4. Head(q) \in Requests => Head(q) \notin ToSet(Tail(q))
  BY <1>1 DEF Once, ToSet
<1> QED
  BY <1>2, <1>3, <1>4

LEMMA WriteOne ==
  ASSUME NEW S, NEW q \in Seq(S), NEW e \in S, Once(q), e \in Requests => e \notin ToSet(q)
  PROVE  ToSet(Append(q, e)) = ToSet(q) \cup {e} /\ Once(Append(q, e))
<1>1. /\ Len(q) \in Nat /\ DOMAIN q = 1..Len(q) /\ DOMAIN Append(q, e) = 1..(Len(q) + 1)
      /\ Append(q, e)[Len(q) + 1] = e /\ \A i \in 1..Len(q) : Append(q, e)[i] = q[i]
  OBVIOUS
<1>2. \A i \in 1..(Len(q) + 1) : i \in 1..Len(q) \/ i = Len(q) + 1
  BY <1>1
<1>3. 1..Len(q) \subseteq 1..(Len(q) + 1) /\ Len(q) + 1 \in 1..(Len(q) + 1)
  BY <1>1
<1>4. ToSet(Append(q, e)) = ToSet(q) \cup {e}
  BY <1>1, <1>2, <1>3 DEF ToSet
<1>5. Once(Append(q, e))
  <2> SUFFICES ASSUME NEW i \in DOMAIN Append(q, e), NEW j \in DOMAIN Append(q, e),
                      Append(q, e)[i] = Append(q, e)[j], Append(q, e)[i] \in Requests
               PROVE  i = j
    BY DEF Once
  <2>1. CASE i \in 1..Len(q) /\ j \in 1..Len(q)
    BY <1>1, <2>1 DEF Once
  <2>2. CASE i \in 1..Len(q) /\ j = Len(q) + 1
    BY <1>1, <2>2 DEF ToSet
  <2>3. CASE i = Len(q) + 1 /\ j \in 1..Len(q)
    BY <1>1, <2>3 DEF ToSet
  <2> QED
    BY <1>1, <1>2, <2>1, <2>2, <2>3
<1> QED
  BY <1>4, <1>5

LEMMA ExchangeBegins == RpcInit => ExchangeInv /\ Exchanges!ExchangeInit
<1> SUFFICES ASSUME RpcInit PROVE ExchangeInv /\ Exchanges!ExchangeInit
  OBVIOUS
<1>1. ToSet(stdin) = {} /\ ToSet(stdout) = {} /\ WithServer = {} /\ Answered = {}
  BY RpcAssumption DEF RpcInit, ToSet, WithServer, Answered
<1>2. OnePlace
  BY <1>1, RpcAssumption DEF RpcInit, OnePlace, Once
<1>3. Written /\ Told /\ Connected
  BY <1>1 DEF RpcInit, Written, Told, Connected
<1>4. Exchanges!ExchangeInit
  BY <1>1 DEF RpcInit, Exchanges!ExchangeInit, Place, NotWritten
<1> QED
  BY <1>2, <1>3, <1>4 DEF ExchangeInv

Promised == [Exchanges!ExchangeNext]_(Exchanges!exchange)

\* A step that moves no request is none of Exchange, unless it changes the rest.
LEMMA SamePlaces ==
  ASSUME WithServer' = WithServer, Answered' = Answered,
         \A r \in Requests : r \notin WithServer \cup Answered => (r \in NotWritten' <=> r \in NotWritten)
  PROVE  /\ [r \in Requests |-> Place(r)]' = [r \in Requests |-> Place(r)]
         /\ UNCHANGED <<serverUp, reader, outcome>> => Promised
<1>1. \A r \in Requests : Place(r)' = Place(r)
  BY DEF Place
<1>2. [r \in Requests |-> Place(r)]' = [r \in Requests |-> Place(r)]
  BY <1>1
<1> QED
  BY <1>2 DEF Promised, Exchanges!exchange

\* Where the requests are, by their stage.
LEMMA PlaceFacts ==
  ASSUME RpcTypeOK, ExchangeInv
  PROVE  /\ WithServer \subseteq Requests /\ ToSet(stdin) \subseteq Requests
         /\ \A r \in Requests :
              /\ stage[r] \in {"unused", "write"} =>
                   r \notin WithServer /\ r \notin Answered /\ Place(r) = "caller" /\ outcome[r] = "none"
              /\ stage[r] \in {"wait", "leave", "done"} /\ outcome[r] # "unwritten" => Place(r) # "caller"
              /\ stage[r] = "wait" => outcome[r] = "none" /\ Place(r) # "caller"
<1>1. ToSet(stdin) \subseteq Requests /\ working \subseteq Requests
  <2>1. \A i \in DOMAIN stdin : stdin[i] \in Requests
    BY DEF RpcTypeOK
  <2> QED
    BY <2>1 DEF RpcTypeOK, ToSet
<1> QED
  BY <1>1 DEF WithServer, ExchangeInv, Written, Told, Place, NotWritten

LEMMA ExchangeStep == RpcTypeOK /\ ExchangeInv /\ [RpcNext]_rpcVars => ExchangeInv' /\ Promised
<1> SUFFICES ASSUME RpcTypeOK, ExchangeInv, [RpcNext]_rpcVars PROVE ExchangeInv' /\ Promised
  OBVIOUS
<1> USE RpcAssumption
<1>o. OnePlace /\ Written /\ Told /\ Connected
  BY DEF ExchangeInv
<1>t. /\ stage \in [Requests -> Stages] /\ outcome \in [Requests -> Outcomes]
      /\ chan \in [Requests -> {"empty", "answer", "closed"}] /\ reader \in {"reading", "stopped"}
      /\ handing \in Requests \cup {NoRequest}
      /\ stdin \in Seq(Requests) /\ stdout \in Seq(RpcMessages) /\ pending \subseteq Requests
  BY DEF RpcTypeOK
<1>r. RpcTypeOK'
  BY RpcTypingStep
\* The steps of a call that touch no pipe and no channel.
<1>a. ASSUME NEW r \in Requests, UNCHANGED <<chan, handing, reader, serverUp, stdin, working, stdout>>,
             \A s \in Requests \ {r} : stage'[s] = stage[s] /\ outcome'[s] = outcome[s],
             r \in WithServer \cup Answered => stage'[r] \in {"wait", "leave", "done"} /\ outcome'[r] # "unwritten",
             outcome'[r] = "none" <=> stage'[r] \in {"unused", "write", "wait"},
             outcome'[r] = "unwritten" => ~serverUp,
             reader = "reading" /\ stage'[r] \in {"write", "wait"} => r \in pending',
             \A s \in Requests \ {r} : s \in pending => s \in pending'
      PROVE  ExchangeInv' /\ WithServer' = WithServer /\ Answered' = Answered
  <2>1. WithServer' = WithServer /\ Answered' = Answered /\ ToSet(stdin)' = ToSet(stdin) /\ ToSet(stdout)' = ToSet(stdout)
    BY <1>a DEF WithServer, Answered
  <2>2. OnePlace'
    BY <1>o, <1>a, <2>1 DEF OnePlace, Once
  <2>3. WithServer \cup Answered \subseteq Requests
    BY PlaceFacts DEF Answered
  <2>4. Written'
    BY <1>o, <1>a, <2>1, <2>3 DEF Written
  <2>5. Told'
    BY <1>o, <1>a DEF Told
  <2>6. Connected'
    BY <1>o, <1>a DEF Connected
  <2> QED
    BY <2>1, <2>2, <2>4, <2>5, <2>6 DEF ExchangeInv
<1>1. ASSUME NEW r \in Requests, Register(r) PROVE ExchangeInv' /\ Promised
  <2>1. /\ stage[r] = "unused" /\ stage' = [stage EXCEPT ![r] = "write"] /\ pending' = pending \cup {r}
        /\ UNCHANGED <<chan, outcome, handing, reader, serverUp, stdin, working, stdout>>
    BY <1>1 DEF Register, Enter, readerVars, serverVars
  <2>2. r \notin WithServer /\ r \notin Answered /\ outcome[r] = "none"
    BY <2>1, PlaceFacts
  <2>3. ExchangeInv' /\ WithServer' = WithServer /\ Answered' = Answered
    BY <1>a, <1>t, <2>1, <2>2
  <2>4. NotWritten' = NotWritten
    BY <1>t, <2>1 DEF NotWritten
  <2> QED
    BY <2>1, <2>3, <2>4, SamePlaces
\* A call that returns o: End of Exchange.
<1>b. ASSUME NEW r \in Requests, NEW o \in {"answer", "closed", "timeout", "unwritten"},
             Leave(r, o), stage[r] \in {"write", "wait"}, UNCHANGED <<pendingVars, readerVars, serverVars>>,
             o = "unwritten" => stage[r] = "write" /\ ~serverUp, o # "unwritten" => stage[r] = "wait",
             Exchanges!Reason(r, o)
      PROVE  ExchangeInv' /\ Promised
  <2>1. /\ stage' = [stage EXCEPT ![r] = "leave"] /\ outcome' = [outcome EXCEPT ![r] = o]
        /\ UNCHANGED <<pending, chan, handing, reader, serverUp, stdin, working, stdout>>
    BY <1>b DEF Leave, Enter, pendingVars, readerVars, serverVars
  <2>2. outcome[r] = "none" /\ (stage[r] = "write" => r \notin WithServer \cup Answered)
    BY <1>b, PlaceFacts
  <2>3. ExchangeInv' /\ WithServer' = WithServer /\ Answered' = Answered
    BY <1>a, <1>b, <1>t, <2>1, <2>2
  <2>4. NotWritten' = NotWritten
    BY <1>t, <1>b, <2>1, <2>2 DEF NotWritten
  <2>5. [s \in Requests |-> Place(s)]' = [s \in Requests |-> Place(s)]
    BY <2>3, <2>4, SamePlaces
  <2>6. Exchanges!End(r, o)
    BY <1>b, <2>1, <2>2, <2>5 DEF Exchanges!End
  <2> QED
    BY <2>3, <2>6 DEF Promised, Exchanges!ExchangeNext
<1>3. ASSUME NEW r \in Requests, WriteFails(r) PROVE ExchangeInv' /\ Promised
  <2>1. Exchanges!Reason(r, "unwritten")
    BY <1>3, PlaceFacts DEF WriteFails, Exchanges!Reason
  <2> QED
    BY <1>3, <1>b, <2>1 DEF WriteFails
<1>4. ASSUME NEW r \in Requests, Wake(r) PROVE ExchangeInv' /\ Promised
  <2>1. chan[r] \in {"answer", "closed"} /\ stage[r] = "wait"
    BY <1>4, <1>t DEF Wake
  <2>2. CASE chan[r] = "answer"
    <3>1. r \in Answered /\ r \notin WithServer
      BY <1>o, <2>2 DEF Answered, OnePlace
    <3>2. Exchanges!Reason(r, "answer")
      BY <3>1 DEF Exchanges!Reason, Place
    <3> QED
      BY <1>4, <1>b, <2>1, <2>2, <3>2 DEF Wake
  <2>3. CASE chan[r] = "closed"
    <3>1. reader # "reading" /\ Place(r) # "caller"
      BY <1>o, <2>1, <2>3, PlaceFacts DEF Connected
    <3>2. Exchanges!Reason(r, "closed")
      BY <3>1 DEF Exchanges!Reason
    <3> QED
      BY <1>4, <1>b, <2>1, <2>3, <3>2 DEF Wake
  <2> QED
    BY <2>1, <2>2, <2>3
<1>5. ASSUME NEW r \in Requests, Timeout(r) PROVE ExchangeInv' /\ Promised
  <2>1. Exchanges!Reason(r, "timeout")
    BY <1>5, PlaceFacts DEF Timeout, Exchanges!Reason
  <2> QED
    BY <1>5, <1>b, <2>1 DEF Timeout
<1>6. ASSUME NEW r \in Requests, Unregister(r) PROVE ExchangeInv' /\ Promised
  <2>1. /\ stage[r] = "leave" /\ stage' = [stage EXCEPT ![r] = "done"] /\ pending' = pending \ {r}
        /\ UNCHANGED <<chan, outcome, handing, reader, serverUp, stdin, working, stdout>>
    BY <1>6 DEF Unregister, Enter, readerVars, serverVars
  <2>2. outcome[r] # "none" /\ (r \in WithServer \cup Answered => outcome[r] # "unwritten")
        /\ (outcome[r] = "unwritten" => ~serverUp)
    BY <1>o, <2>1 DEF Told, Written
  <2>3. ExchangeInv' /\ WithServer' = WithServer /\ Answered' = Answered
    BY <1>a, <1>t, <2>1, <2>2
  <2>4. NotWritten' = NotWritten
    BY <1>t, <2>1 DEF NotWritten
  <2> QED
    BY <2>1, <2>3, <2>4, SamePlaces
<1>2. ASSUME NEW r \in Requests, WriteRequest(r) PROVE ExchangeInv' /\ Promised
  <2>1. /\ stage[r] = "write" /\ serverUp /\ stdin' = Append(stdin, r) /\ stage' = [stage EXCEPT ![r] = "wait"]
        /\ UNCHANGED <<pending, chan, outcome, handing, reader, serverUp, working, stdout>>
    BY <1>2 DEF WriteRequest, Enter, pendingVars, readerVars
  <2>2. r \notin WithServer /\ r \notin Answered /\ Place(r) = "caller" /\ outcome[r] = "none"
    BY <2>1, PlaceFacts
  <2>3. ToSet(stdin)' = ToSet(stdin) \cup {r} /\ Once(stdin)'
    BY <1>o, <1>t, <2>1, <2>2, WriteOne DEF OnePlace, WithServer
  <2>4. WithServer' = WithServer \cup {r} /\ Answered' = Answered
    BY <2>1, <2>3 DEF WithServer, Answered
  <2>5. OnePlace'
    BY <1>o, <2>1, <2>2, <2>3, <2>4 DEF OnePlace, WithServer, Once
  <2>6. WithServer \cup Answered \subseteq Requests
    BY PlaceFacts DEF Answered
  <2>7. Written'
    BY <1>o, <1>t, <2>1, <2>2, <2>4, <2>6 DEF Written
  <2>8. Told' /\ Connected'
    BY <1>o, <1>t, <2>1 DEF Told, Connected
  <2>9. \A s \in Requests : Place(s)' = IF s = r THEN "server" ELSE Place(s)
    BY <1>t, <2>1, <2>4 DEF Place, NotWritten
  <2>10. Exchanges!Ask(r)
    BY <2>1, <2>2, <2>9 DEF Exchanges!Ask
  <2> QED
    BY <2>5, <2>7, <2>8, <2>10 DEF ExchangeInv, Promised, Exchanges!ExchangeNext
\* The reader takes message m.
<1>c. ASSUME NEW m \in RpcMessages, AtMessage(m), stdout' = Tail(stdout)
      PROVE  /\ ToSet(stdout) = ToSet(stdout)' \cup {m} /\ Once(stdout)' /\ m \in ToSet(stdout)
             /\ m \in Requests => m \notin ToSet(stdout)'
  BY <1>o, <1>t, <1>c, ReadOne DEF OnePlace, AtMessage
<1>7. CASE ReadOther
  <2>1. /\ AtMessage("notification") /\ stdout' = Tail(stdout)
        /\ UNCHANGED <<pending, chan, handing, reader, stage, outcome, serverUp, stdin, working>>
    BY <1>7 DEF ReadOther, pendingVars, requestVars
  <2>2. ToSet(stdout) = ToSet(stdout)' \cup {"notification"} /\ Once(stdout)' /\ "notification" \notin Requests
    BY <1>c, <2>1 DEF RpcMessages
  <2>3. WithServer' = WithServer /\ Answered' = Answered /\ NotWritten' = NotWritten
    BY <2>1, <2>2 DEF WithServer, Answered, NotWritten
  <2>4. OnePlace'
    BY <1>o, <2>1, <2>2, <2>3 DEF OnePlace, Once
  <2>5. Written' /\ Told' /\ Connected'
    BY <1>o, <2>1, <2>3 DEF Written, Told, Connected
  <2> QED
    BY <2>1, <2>3, <2>4, <2>5, SamePlaces DEF ExchangeInv
<1>8. ASSUME NEW r \in Requests, ReadAnswer(r) PROVE ExchangeInv' /\ Promised
  <2>1. /\ AtMessage(r) /\ stdout' = Tail(stdout) /\ handing' = IF r \in pending THEN r ELSE NoRequest
        /\ reader = "reading" /\ handing = NoRequest
        /\ UNCHANGED <<pending, chan, reader, stage, outcome, serverUp, stdin, working>>
    BY <1>8 DEF ReadAnswer, AtMessage, pendingVars, requestVars
  <2>2. ToSet(stdout) = ToSet(stdout)' \cup {r} /\ Once(stdout)' /\ r \in ToSet(stdout) /\ r \notin ToSet(stdout)'
    BY <1>c, <2>1 DEF RpcMessages
  <2>3. r \in Answered /\ r \notin WithServer /\ chan[r] # "answer"
    BY <1>o, <2>2 DEF OnePlace, Answered
  <2>4. WithServer' = WithServer /\ Answered' = IF r \in pending THEN Answered ELSE Answered \ {r}
    BY <2>1, <2>2, <2>3 DEF WithServer, Answered
  <2>5. OnePlace'
    BY <1>o, <2>1, <2>2, <2>3, <2>4 DEF OnePlace, Once
  <2>6. Written' /\ Told' /\ Connected'
    BY <1>o, <2>1, <2>4 DEF Written, Told, Connected
  <2>7. NotWritten' = NotWritten
    BY <2>1 DEF NotWritten
  <2>8. CASE r \in pending
    BY <2>1, <2>4, <2>5, <2>6, <2>7, <2>8, SamePlaces DEF ExchangeInv
  <2>9. CASE r \notin pending
    <3>1. r \notin NotWritten /\ outcome[r] # "none"
      BY <1>o, <2>1, <2>3, <2>9 DEF Written, Told, Connected, NotWritten
    <3>2. Place(r) = "back"
      BY <2>3 DEF Place
    <3>3. \A s \in Requests : Place(s)' = IF s = r THEN "lost" ELSE Place(s)
      BY <2>3, <2>4, <2>7, <2>9, <3>1 DEF Place
    <3>4. Exchanges!Drop(r)
      BY <2>1, <3>1, <3>2, <3>3 DEF Exchanges!Drop
    <3> QED
      BY <2>5, <2>6, <3>4 DEF ExchangeInv, Promised, Exchanges!ExchangeNext
  <2> QED
    BY <2>8, <2>9
<1>9. CASE HandOver
  <2>1. /\ handing \in Requests /\ chan[handing] = "empty" /\ reader = "reading"
        /\ chan' = [chan EXCEPT ![handing] = "answer"] /\ handing' = NoRequest
        /\ UNCHANGED <<pending, reader, stage, outcome, serverUp, stdin, working, stdout>>
    BY <1>9, <1>o, <1>t DEF HandOver, OnePlace, Connected, requestVars, serverVars
  <2>2. WithServer' = WithServer /\ Answered' = Answered /\ NotWritten' = NotWritten
    BY <1>t, <2>1 DEF WithServer, Answered, NotWritten
  <2>3. OnePlace'
    BY <1>o, <1>t, <2>1, <2>2 DEF OnePlace, Once
  <2>4. Written' /\ Told' /\ Connected'
    BY <1>o, <1>t, <2>1, <2>2 DEF Written, Told, Connected
  <2> QED
    BY <2>1, <2>2, <2>3, <2>4, SamePlaces DEF ExchangeInv
<1>10. CASE StopReading
  <2>1. /\ reader = "reading" /\ handing = NoRequest /\ chan' = Woken /\ reader' = "stopped"
        /\ UNCHANGED <<handing, stage, outcome, serverUp, stdin, working, stdout>>
    BY <1>10 DEF StopReading, requestVars, serverVars
  <2>2. \A r \in Requests : chan'[r] = "answer" <=> chan[r] = "answer"
    BY <1>t, <2>1 DEF Woken
  <2>3. WithServer' = WithServer /\ Answered' = Answered /\ NotWritten' = NotWritten
    BY <2>1, <2>2 DEF WithServer, Answered, NotWritten
  <2>4. OnePlace'
    BY <1>o, <2>1, <2>2, <2>3 DEF OnePlace, Once
  <2>5. Written' /\ Told' /\ Connected'
    BY <1>o, <2>1, <2>3 DEF Written, Told, Connected
  <2>6. [r \in Requests |-> Place(r)]' = [r \in Requests |-> Place(r)]
    BY <2>3, SamePlaces
  <2>7. Exchanges!Break
    BY <2>1, <2>6 DEF Exchanges!Break
  <2> QED
    BY <2>4, <2>5, <2>7 DEF ExchangeInv, Promised, Exchanges!ExchangeNext
<1>11. CASE ServerReads
  <2>1. /\ stdin # <<>> /\ working' = working \cup {Head(stdin)} /\ stdin' = Tail(stdin)
        /\ UNCHANGED <<pending, chan, handing, reader, stage, outcome, serverUp, stdout>>
    BY <1>11 DEF ServerReads, pendingVars, readerVars, requestVars
  <2>2. PICK r \in Requests : r = Head(stdin)
    BY <1>t, <2>1
  <2>3. ToSet(stdin) = ToSet(stdin)' \cup {r} /\ Once(stdin)' /\ r \in ToSet(stdin) /\ r \notin ToSet(stdin)'
    BY <1>o, <1>t, <2>1, <2>2, ReadOne DEF OnePlace
  <2>4. WithServer' = WithServer /\ Answered' = Answered /\ NotWritten' = NotWritten
    BY <2>1, <2>2, <2>3 DEF WithServer, Answered, NotWritten
  <2>5. OnePlace'
    BY <1>o, <2>1, <2>2, <2>3, <2>4 DEF OnePlace, Once
  <2>6. Written' /\ Told' /\ Connected'
    BY <1>o, <2>1, <2>4 DEF Written, Told, Connected
  <2> QED
    BY <2>1, <2>4, <2>5, <2>6, SamePlaces DEF ExchangeInv
<1>12. ASSUME NEW r \in Requests, ServerAnswers(r) PROVE ExchangeInv' /\ Promised
  <2>1. /\ r \in working /\ serverUp /\ stdout' = Append(stdout, r) /\ working' = working \ {r}
        /\ UNCHANGED <<pending, chan, handing, reader, stage, outcome, serverUp, stdin>>
    BY <1>12 DEF ServerAnswers, Sends, pendingVars, readerVars, requestVars
  <2>2. r \in WithServer /\ r \notin Answered /\ r \notin ToSet(stdin)
    BY <1>o, <2>1 DEF OnePlace, WithServer
  <2>3. ToSet(stdout)' = ToSet(stdout) \cup {r} /\ Once(stdout)'
    <3>1. r \in RpcMessages /\ r \notin ToSet(stdout)
      BY <2>2 DEF RpcMessages, Answered
    <3> QED
      BY <1>o, <1>t, <2>1, <3>1, WriteOne DEF OnePlace
  <2>4. WithServer' = WithServer \ {r} /\ Answered' = Answered \cup {r} /\ NotWritten' = NotWritten
    BY <2>1, <2>2, <2>3 DEF WithServer, Answered, NotWritten
  <2>5. OnePlace'
    BY <1>o, <2>1, <2>2, <2>3, <2>4 DEF OnePlace, Once, Answered
  <2>6. Written' /\ Told' /\ Connected'
    BY <1>o, <2>1, <2>2, <2>4 DEF Written, Told, Connected
  <2>7. \A s \in Requests : Place(s)' = IF s = r THEN "back" ELSE Place(s)
    BY <2>4 DEF Place
  <2>8. Place(r) = "server"
    BY <2>2 DEF Place
  <2>9. Exchanges!Answer(r)
    BY <2>1, <2>7, <2>8 DEF Exchanges!Answer
  <2> QED
    BY <2>5, <2>6, <2>9 DEF ExchangeInv, Promised, Exchanges!ExchangeNext
<1>13. ASSUME NEW m \in {"notification", "garbage"}, ServerTalks(m) PROVE ExchangeInv' /\ Promised
  <2>1. /\ stdout' = Append(stdout, m)
        /\ UNCHANGED <<pending, chan, handing, reader, stage, outcome, serverUp, stdin, working>>
    BY <1>13 DEF ServerTalks, Sends, pendingVars, readerVars, requestVars
  <2>2. ToSet(stdout)' = ToSet(stdout) \cup {m} /\ Once(stdout)' /\ m \notin Requests
    BY <1>o, <1>t, <2>1, WriteOne DEF OnePlace, RpcMessages
  <2>3. WithServer' = WithServer /\ Answered' = Answered /\ NotWritten' = NotWritten
    BY <2>1, <2>2 DEF WithServer, Answered, NotWritten
  <2>4. OnePlace'
    BY <1>o, <2>1, <2>2, <2>3 DEF OnePlace, Once
  <2>5. Written' /\ Told' /\ Connected'
    BY <1>o, <2>1, <2>3 DEF Written, Told, Connected
  <2> QED
    BY <2>1, <2>3, <2>4, <2>5, SamePlaces DEF ExchangeInv
<1>14. CASE ServerDies
  <2>1. /\ serverUp /\ serverUp' = FALSE /\ stdin' = <<>> /\ working' = {}
        /\ UNCHANGED <<pending, chan, handing, reader, stage, outcome, stdout>>
    BY <1>14 DEF ServerDies, pendingVars, readerVars, requestVars
  <2>2. ToSet(stdin)' = {} /\ Once(stdin)' /\ WithServer' = {} /\ Answered' = Answered /\ NotWritten' = NotWritten
    BY <2>1 DEF ToSet, Once, WithServer, Answered, NotWritten
  <2>3. OnePlace'
    BY <1>o, <2>1, <2>2 DEF OnePlace, Once
  <2>4. Written' /\ Told' /\ Connected'
    BY <1>o, <2>1, <2>2 DEF Written, Told, Connected
  <2>5. ASSUME NEW r \in Requests
        PROVE  Place(r)' = IF Place(r) = "server" THEN "lost" ELSE Place(r)
    <3>1. r \in WithServer => r \notin Answered /\ r \notin NotWritten
      BY <1>o DEF OnePlace, Written, NotWritten
    <3> QED
      BY <2>2, <3>1 DEF Place
  <2>6. Exchanges!Die
    BY <2>1, <2>5 DEF Exchanges!Die
  <2> QED
    BY <2>3, <2>4, <2>6 DEF ExchangeInv, Promised, Exchanges!ExchangeNext
<1>15. CASE UNCHANGED rpcVars
  <2>1. UNCHANGED <<pending, chan, handing, reader, stage, outcome, serverUp, stdin, working, stdout>>
    BY <1>15 DEF rpcVars, pendingVars, readerVars, requestVars, serverVars
  <2>2. WithServer' = WithServer /\ Answered' = Answered /\ NotWritten' = NotWritten
    BY <2>1 DEF WithServer, Answered, NotWritten
  <2>3. OnePlace' /\ Written' /\ Told' /\ Connected'
    BY <1>o, <2>1, <2>2 DEF OnePlace, Once, Written, Told, Connected
  <2> QED
    BY <2>1, <2>2, <2>3, SamePlaces DEF ExchangeInv
<1> QED
  BY <1>1, <1>2, <1>3, <1>4, <1>5, <1>6, <1>7, <1>8, <1>9, <1>10, <1>11, <1>12, <1>13, <1>14, <1>15
  DEF RpcNext, RequestStep, ReaderStep, ServerStep

(* Every call of request() (lsp_service.go) ends once and for a true reason,
   with no answer but its own, and no answer is lost on the way to a caller
   that waits for it: JsonRpc implements Exchange.                          *)
THEOREM KeepsPromise == RpcSpec => Exchanged
<1> QED
  BY ExchangeBegins, ExchangeStep, RpcTyping, PTL
  DEF RpcSpec, Exchanged, Exchanges!ExchangeSpec, Promised
=============================================================================
