------------------------- MODULE ConversationProofs -------------------------
(***************************************************************************)
(* Theorems about Conversation for any windows, turns, renames and saves:  *)
(*   - its variables keep their types;                                     *)
(*   - a turn that was saved disappears by an unguarded save only, by one  *)
(*     of two saves that met between the comparison and the write, or      *)
(*     because the window that saves has taken it off its messages.        *)
(***************************************************************************)
EXTENDS Conversation, FiniteSetTheorems, TLAPS

-----------------------------------------------------------------------------
(* The inductive invariants.                                               *)

\* What is in use has been given out: ids, turns, windows.
FilesGiven ==
  /\ \A c \in Conv : /\ c > ids => rev[c] = 0
                     /\ rev[c] = 0 => turns[c] = {}
  /\ \A w \in Window : \A l \in loaded[w] : l.id <= ids
  /\ \A w \in Window : \A c \in Conv : list[w][c] # {} => c <= ids

StreamGiven ==
  \A w \in Window : streaming[w] # NoTurn =>
    streaming[w] \in Turn /\ pc[streaming[w]] = "streaming" /\ win[streaming[w]] = w

TasksGiven ==
  /\ \A k \in Task : pc[k] \in {"title", "sent", "checked", "written", "conflict", "forked"} => id[k] # 0
  /\ \A t \in Turn : pc[t] \notin {"unused", "ended"} => win[t] \in Window
  /\ \A m \in Meta : pc[m] \in {"unused", "sent", "checked", "written", "conflict", "ended"}

GivenOut == FilesGiven /\ StreamGiven /\ TasksGiven

\* Whoever holds revision r of conversation c with the turns ts has seen what
\* that revision says, unless two saves have given it to two contents.
Knows(c, r, ts) == ~raced[c] => r <= rev[c] /\ (r = rev[c] => turns[c] \subseteq ts)

\* What a window shows, and what it has taken off it.
Had(w) == shown[w] \cup dropped[w]

\* So does a window that no other save of its own has confused, and the answer
\* of a load.
WindowKnows(w) == ~mixed[w] /\ cur[w] # 0 => Knows(cur[w], base[w], Had(w))
LoadsKnow(w) == \A l \in loaded[w] : Knows(l.id, l.rev, l.turns)

\* A save knows what it compares with, what it has compared and what it wrote.
SentKnows(t) == pc[t] \in {"sent", "checked"} /\ ~tainted[t] => Knows(id[t], brev[t], payload[t] \cup cut[t])

CheckedKnows(t) ==
  pc[t] = "checked" =>
    /\ ~tainted[t] /\ ~raced[id[t]] => brev[t] <= seen[t] /\ seen[t] <= rev[id[t]]
    /\ ~new[t] /\ brev[t] # 0 => seen[t] \in {0, brev[t]}

WrittenKnows(t) ==
  pc[t] = "written" /\ ~tainted[t] =>
    /\ Knows(id[t], seen[t] + 1, payload[t])
    /\ ~raced[id[t]] => brev[t] <= seen[t]

ForkKnows(t) == pc[t] = "forked" => Knows(id[t], 1, payload[t])

\* The saves that already have their conversation.
Leaving == {"title", "sent", "checked", "written", "forked"}

\* Such a save is about what its window shows, unless the window is mixed.
Joined(t) ==
  pc[t] \in Leaving /\ ~mixed[win[t]] =>
    /\ pc[t] # "forked" => id[t] = cur[win[t]]
    /\ pc[t] # "title" => payload[t] \subseteq Had(win[t])

\* A save that left a mixed window keeps that window mixed until it ends.
Tainted(t) ==
  tainted[t] => \/ pc[t] = "ended"
                \/ pc[t] \in {"sent", "checked", "written", "conflict", "forked"} /\ mixed[win[t]]

TurnKnows(t) ==
  SentKnows(t) /\ CheckedKnows(t) /\ WrittenKnows(t) /\ ForkKnows(t) /\ Joined(t) /\ Tainted(t)

KnowsInv ==
  /\ \A w \in Window : WindowKnows(w) /\ LoadsKnow(w)
  /\ \A t \in Turn : TurnKnows(t)

-----------------------------------------------------------------------------
(* Types                                                                   *)

LEMMA ConvFacts == MaxConv \in Nat /\ 1 \in Conv /\ Conv \subseteq Nat
<1>1. Cardinality(Turn) \in Nat
  BY ConversationAssumption, FS_CardinalityType
<1> QED
  BY <1>1 DEF MaxConv, Conv

LEMMA InitTyped == Init => TypeOK /\ GivenOut
<1> SUFFICES ASSUME Init PROVE TypeOK /\ GivenOut
  OBVIOUS
<1> USE ConvFacts, ConversationAssumption DEF Init
<1>1. turns \in [Conv -> Content]
  BY DEF Content
<1>2. rev \in [Conv -> Nat] /\ raced \in [Conv -> BOOLEAN] /\ ids \in Conv
  OBVIOUS
<1>3. cur \in [Window -> 0..ids] /\ base \in [Window -> Nat]
  BY SMT
<1>4. shown \in [Window -> Content]
  BY <1>1 DEF Content
<1>11. /\ starting \in [Window -> SUBSET Turn] /\ tail \in [Window -> BOOLEAN]
       /\ dropped \in [Window -> Content] /\ cut \in [Task -> Content]
  BY DEF Content
<1>5. titled \in [Window -> BOOLEAN] /\ streaming \in [Window -> Turn \cup {NoTurn}] /\ mixed \in [Window -> BOOLEAN]
  OBVIOUS
<1>6. list \in [Window -> [Conv -> Content]]
  <2>1. [c \in Conv |-> {}] \in [Conv -> Content]
    BY DEF Content
  <2> QED
    BY <1>1, <2>1
<1>7. /\ inbox \in [Window -> SUBSET Conv] /\ asked \in [Window -> SUBSET Conv]
      /\ \A w \in Window : loaded[w] = {}
  OBVIOUS
<1>8. /\ pc \in [Task -> Places] /\ win \in [Task -> Window \cup {NoWindow}] /\ id \in [Task -> 0..ids]
      /\ new \in [Task -> BOOLEAN] /\ brev \in [Task -> Nat] /\ payload \in [Task -> Content]
      /\ seen \in [Task -> Nat] /\ tainted \in [Task -> BOOLEAN] /\ acts \in 0..MaxAct
  BY DEF Places, Content
<1>9. TypeOK
  BY <1>1, <1>2, <1>3, <1>4, <1>5, <1>6, <1>7, <1>8, <1>11 DEF TypeOK, DiskTyped, WindowsTyped, LoadsTyped, TasksTyped
<1>10. GivenOut
  <2>1. \A c \in Conv : (c > ids => rev[c] = 0) /\ (rev[c] = 0 => turns[c] = {})
    OBVIOUS
  <2>2. \A w \in Window : \A c \in Conv : list[w][c] # {} => c <= ids
    <3> SUFFICES ASSUME NEW w \in Window, NEW c \in Conv, c # 1 PROVE list[w][c] = {}
      OBVIOUS
    <3>1. turns[c] = {}
      OBVIOUS
    <3> QED
      BY <3>1
  <2>3. \A k \in Task : pc[k] = "unused"
    OBVIOUS
  <2> QED
    BY <2>1, <2>2, <2>3, <1>7, <1>5 DEF GivenOut, FilesGiven, StreamGiven, TasksGiven, Task
<1> QED
  BY <1>9, <1>10

\* The windows whose tasks act, and the ids that are given out.
LEMMA TaskFacts ==
  ASSUME TypeOK, GivenOut
  PROVE  /\ \A t \in Turn : pc[t] \notin {"unused", "ended"} => win[t] \in Window
         /\ \A c \in 0..ids : c # 0 => c \in Conv
         /\ \A k \in Task : pc[k] \in {"title", "sent", "checked", "written", "conflict", "forked"} => id[k] \in Conv
         /\ ids < MaxConv => ids + 1 \in Conv /\ rev[ids + 1] = 0 /\ turns[ids + 1] = {}
         /\ Turn \subseteq Task /\ Meta \subseteq Task
BY ConvFacts DEF TypeOK, DiskTyped, TasksTyped, GivenOut, FilesGiven, StreamGiven, TasksGiven, Conv, Task

LEMMA TypeStep == TypeOK /\ GivenOut /\ [Next]_vars => TypeOK'
<1> SUFFICES ASSUME TypeOK, GivenOut, [Next]_vars PROVE TypeOK'
  OBVIOUS
<1> USE ConvFacts, TaskFacts, ConversationAssumption DEF TypeOK, DiskTyped, WindowsTyped, LoadsTyped, TasksTyped, Content, Task, Places, diskVars, windowVars, sendVars, loadVars, taskVars, ghostVars
<1>1. ASSUME NEW w \in Window, NEW t \in Turn, Send(w, t) PROVE TypeOK'
  <2>1. DiskTyped' /\ LoadsTyped'
    BY <1>1 DEF Send
  <2>2. PICK gone \in SUBSET shown[w] : /\ shown' = [shown EXCEPT ![w] = (@ \ gone) \cup {t}]
                                       /\ dropped' = [dropped EXCEPT ![w] = @ \cup gone]
    BY <1>1 DEF Send, TakenOff
  <2>3. shown' \in [Window -> Content] /\ dropped' \in [Window -> Content]
    BY <2>2
  <2>4. WindowsTyped'
    BY <1>1, <2>3 DEF Send
  <2>5. TasksTyped'
    BY <1>1 DEF Send
  <2> QED
    BY <2>1, <2>4, <2>5
<1>2. ASSUME NEW w \in Window, Stop(w) PROVE TypeOK'
  <2>1. DiskTyped' /\ LoadsTyped'
    BY <1>2 DEF Stop
  <2>2. WindowsTyped'
    BY <1>2 DEF Stop
  <2>3. TasksTyped'
    BY <1>2 DEF Stop, End, GivenOut, StreamGiven
  <2> QED
    BY <2>1, <2>2, <2>3
<1>21. ASSUME NEW w \in Window, NEW t \in Turn, Refused(w, t) PROVE TypeOK'
  <2>1. DiskTyped' /\ LoadsTyped'
    BY <1>21 DEF Refused
  <2>2. shown' \in [Window -> Content] /\ dropped' \in [Window -> Content] /\ tail' \in [Window -> BOOLEAN]
    <3>1. CASE UNCHANGED <<shown, tail, dropped>>
      BY <3>1
    <3>2. CASE tail' = [tail EXCEPT ![w] = FALSE] /\ UNCHANGED <<shown, dropped>>
      BY <3>2
    <3>3. CASE /\ UNCHANGED tail
               /\ \E m \in shown[w] : shown' = [shown EXCEPT ![w] = @ \ {m}] /\ TakenOff(w, {m})
      BY <3>3 DEF TakenOff
    <3> QED
      BY <1>21, <3>1, <3>2, <3>3 DEF Refused, Pop
  <2>3. WindowsTyped'
    BY <1>21, <2>2 DEF Refused
  <2>4. TasksTyped'
    <3>1. CASE UNCHANGED taskVars
      BY <1>21, <3>1 DEF Refused
    <3>2. CASE streaming[w] # NoTurn /\ End(streaming[w])
      BY <1>21, <3>2 DEF Refused, End, GivenOut, StreamGiven
    <3> QED
      BY <1>21, <3>1, <3>2 DEF Refused
  <2> QED
    BY <2>1, <2>3, <2>4
<1>3. ASSUME NEW w \in Window, Done(w) PROVE TypeOK'
  <2>0. streaming[w] \in Turn
    BY <1>3 DEF Done, GivenOut, FilesGiven, StreamGiven, TasksGiven
  <2>1. DiskTyped'
    BY <1>3 DEF Done
  <2>2. WindowsTyped'
    BY <1>3 DEF Done
  <2>3. LoadsTyped'
    BY <1>3 DEF Done
  <2>4. TasksTyped'
    <3> DEFINE t == streaming[w]
    <3>1. CASE shown[w] = {} /\ End(t) /\ UNCHANGED tainted
      BY <1>3, <2>0, <3>1 DEF Done, End
    <3>2. CASE /\ cur[w] = 0 /\ pc' = [pc EXCEPT ![t] = "id"]
               /\ UNCHANGED <<id, payload, brev, cut, tainted, win, new, seen>>
      BY <1>3, <2>0, <3>2 DEF Done
    <3>3. CASE /\ id' = [id EXCEPT ![t] = cur[w]] /\ pc' = [pc EXCEPT ![t] = "title"]
               /\ UNCHANGED <<payload, brev, cut, tainted, win, new, seen>>
      BY <1>3, <2>0, <3>3 DEF Done
    <3>4. CASE id' = [id EXCEPT ![t] = cur[w]] /\ SendSave(t, w) /\ UNCHANGED <<win, new, seen>>
      BY <1>3, <2>0, <3>4 DEF Done, SendSave
    <3> QED
      BY <1>3, <3>1, <3>2, <3>3, <3>4 DEF Done
  <2> QED
    BY <2>1, <2>2, <2>3, <2>4
<1>4. ASSUME NEW w \in Window, NewConversation(w) PROVE TypeOK'
  <2>1. DiskTyped' /\ LoadsTyped' /\ TasksTyped'
    BY <1>4 DEF NewConversation
  <2>2. /\ cur' \in [Window -> 0..ids'] /\ titled' \in [Window -> BOOLEAN] /\ streaming' = streaming
    BY <1>4 DEF NewConversation
  <2>4. base' \in [Window -> Nat]
    <3>1. CASE base' = base
      BY <3>1
    <3>2. CASE base' = [base EXCEPT ![w] = 0]
      BY <3>2
    <3> QED
      BY <1>4, <3>1, <3>2 DEF NewConversation
  <2>5. /\ shown' \in [Window -> Content] /\ dropped' \in [Window -> Content]
        /\ tail' \in [Window -> BOOLEAN] /\ starting' = starting
    <3>1. CASE Replaced(w, {})
      BY <1>4, <3>1 DEF NewConversation, Replaced
    <3>2. CASE UNCHANGED <<shown, tail, dropped>>
      BY <1>4, <3>2 DEF NewConversation
    <3> QED
      BY <1>4, <3>1, <3>2 DEF NewConversation
  <2>3. mixed' \in [Window -> BOOLEAN]
    BY <1>4 DEF NewConversation, Switched
  <2> QED
    BY <2>1, <2>2, <2>3, <2>4, <2>5
<1>5. ASSUME NEW w \in Window, NEW c \in Conv, Deliver(w, c) PROVE TypeOK'
  BY <1>5 DEF Deliver
<1>6. ASSUME NEW w \in Window, NEW c \in Conv, Read(w, c) PROVE TypeOK'
  BY <1>6 DEF Read
<1>7. ASSUME NEW w \in Window, NEW c \in Conv, Select(w, c) PROVE TypeOK'
  <2>1. DiskTyped' /\ LoadsTyped' /\ TasksTyped'
    BY <1>7 DEF Select
  <2>2. c \in 0..ids
    BY <1>7 DEF Select, GivenOut, FilesGiven, StreamGiven, TasksGiven
  <2>3. cur' \in [Window -> 0..ids'] /\ mixed' \in [Window -> BOOLEAN]
    <3>1. CASE cur' = [cur EXCEPT ![w] = c] /\ mixed' = [mixed EXCEPT ![w] = TRUE]
      BY <1>7, <2>2, <3>1 DEF Select
    <3>2. CASE UNCHANGED <<cur, mixed>>
      BY <1>7, <3>2 DEF Select
    <3> QED
      BY <1>7, <3>1, <3>2 DEF Select
  <2>4. UNCHANGED <<base, shown, titled, streaming, starting, tail, dropped>>
    BY <1>7 DEF Select
  <2> QED
    BY <2>1, <2>3, <2>4
<1>8. ASSUME NEW w \in Window, NEW l \in loaded[w], Loaded(w, l) PROVE TypeOK'
  <2>1. DiskTyped' /\ LoadsTyped' /\ TasksTyped'
    BY <1>8 DEF Loaded
  <2>2. l.id \in 0..ids /\ l.rev \in Nat /\ l.turns \in Content
    <3>1. l.id \in Conv /\ l.rev \in Nat /\ l.turns \in Content
      OBVIOUS
    <3>3. ids \in Nat /\ l.id \in Nat
      BY <3>1
    <3>2. l.id <= ids
      BY DEF GivenOut, FilesGiven, StreamGiven, TasksGiven
    <3> QED
      BY <3>1, <3>2, <3>3
  <2>3. /\ cur' \in [Window -> 0..ids'] /\ base' \in [Window -> Nat] /\ shown' \in [Window -> Content]
        /\ titled' \in [Window -> BOOLEAN] /\ streaming' = streaming /\ starting' = starting
        /\ dropped' \in [Window -> Content] /\ tail' \in [Window -> BOOLEAN]
    BY <1>8, <2>2 DEF Loaded, Replaced
  <2>4. mixed' \in [Window -> BOOLEAN]
    BY <1>8 DEF Loaded, Switched
  <2> QED
    BY <2>1, <2>3, <2>4
<1>9. ASSUME NEW w \in Window, NEW m \in Meta, StartRename(m, w) PROVE TypeOK'
  <2>1. DiskTyped' /\ WindowsTyped' /\ LoadsTyped'
    BY <1>9 DEF StartRename, MetaSave
  <2>2. cur[w] \in Conv /\ turns[cur[w]] \in Content
    BY <1>9 DEF StartRename
  <2>3. TasksTyped'
    BY <1>9, <2>2 DEF StartRename, MetaSave
  <2> QED
    BY <2>1, <2>3
<1>10. ASSUME NEW w \in Window, NEW m \in Meta, NEW c \in Conv, StartSoftSave(m, w, c) PROVE TypeOK'
  BY <1>10 DEF StartSoftSave, MetaSave, GivenOut, FilesGiven, StreamGiven, TasksGiven
<1>11. ASSUME NEW t \in Turn, IdGiven(t) PROVE TypeOK'
  <2>0. win[t] \in Window /\ ids + 1 \in Conv
    BY <1>11 DEF IdGiven
  <2>1. DiskTyped'
    BY <1>11, <2>0 DEF IdGiven
  <2>2. LoadsTyped'
    BY <1>11 DEF IdGiven
  <2>3. cur' \in [Window -> 0..ids'] /\ base' \in [Window -> Nat] /\ shown' = shown /\ streaming' = streaming
        /\ UNCHANGED <<starting, tail, dropped>>
    BY <1>11, <2>0 DEF IdGiven
  <2>8. titled' \in [Window -> BOOLEAN]
    BY <1>11, <2>0 DEF IdGiven
  <2>4. mixed' \in [Window -> BOOLEAN]
    BY <1>11, <2>0 DEF IdGiven, Switched
  <2>5. ids' = ids + 1 /\ id' = [id EXCEPT ![t] = ids + 1]
    BY <1>11 DEF IdGiven
  <2>6. id' \in [Task -> 0..ids']
    BY <2>5
  <2>7. new' \in [Task -> BOOLEAN] /\ win' = win /\ seen' = seen /\ tainted' = tainted /\ cut' = cut
    BY <1>11 DEF IdGiven
  <2>9. pc' \in [Task -> Places]
    <3>1. pc' = [pc EXCEPT ![t] = "title"] \/ pc' = [pc EXCEPT ![t] = "sent"]
      BY <1>11 DEF IdGiven
    <3>2. CASE pc' = [pc EXCEPT ![t] = "title"]
      BY <3>2
    <3>3. CASE pc' = [pc EXCEPT ![t] = "sent"]
      BY <3>3
    <3> QED
      BY <3>1, <3>2, <3>3
  <2>10. brev' \in [Task -> Nat]
    BY <1>11 DEF IdGiven
  <2>11. payload' \in [Task -> Content]
    BY <1>11 DEF IdGiven
  <2> QED
    BY <2>1, <2>2, <2>3, <2>4, <2>6, <2>7, <2>8, <2>9, <2>10, <2>11
<1>12. ASSUME NEW t \in Turn, TitleGiven(t) PROVE TypeOK'
  <2>0. win[t] \in Window
    BY <1>12 DEF TitleGiven
  <2>1. DiskTyped' /\ LoadsTyped' /\ WindowsTyped'
    BY <1>12, <2>0 DEF TitleGiven
  <2>2. TasksTyped'
    BY <1>12, <2>0 DEF TitleGiven, SendSave
  <2> QED
    BY <2>1, <2>2
<1>13. ASSUME NEW t \in Turn, Answered(t) PROVE TypeOK'
  <2>0. win[t] \in Window /\ id[t] \in Conv /\ brev[t] + 1 \in Nat
    <3>1. pc[t] = "written" /\ t \in Task
      BY <1>13 DEF Answered
    <3>2. brev[t] + 1 \in Nat
      BY <3>1
    <3>3. win[t] \in Window
      BY <3>1
    <3>4. id[t] \in Conv
      BY <3>1
    <3> QED
      BY <3>2, <3>3, <3>4
  <2>1. DiskTyped' /\ TasksTyped'
    BY <1>13 DEF Answered, End
  <2>2. WindowsTyped'
    BY <1>13, <2>0 DEF Answered
  <2>3. LoadsTyped'
    BY <1>13, <2>0 DEF Answered, Announce
  <2> QED
    BY <2>1, <2>2, <2>3
<1>14. ASSUME NEW t \in Turn, Fork(t) PROVE TypeOK'
  <2>0. win[t] \in Window /\ ids + 1 \in Conv /\ shown[win[t]] \in Content
    BY <1>14 DEF Fork
  <2>1. DiskTyped'
    BY <1>14, <2>0 DEF Fork
  <2>2. WindowsTyped' /\ LoadsTyped'
    BY <1>14 DEF Fork
  <2>3. TasksTyped'
    BY <1>14, <2>0 DEF Fork
  <2> QED
    BY <2>1, <2>2, <2>3
<1>15. ASSUME NEW t \in Turn, ForkAnswered(t) PROVE TypeOK'
  <2>0. win[t] \in Window /\ id[t] \in Conv /\ id[t] \in 0..ids
    BY <1>15 DEF ForkAnswered
  <2>1. DiskTyped' /\ TasksTyped'
    BY <1>15 DEF ForkAnswered, End
  <2>2. WindowsTyped'
    BY <1>15, <2>0 DEF ForkAnswered
  <2>3. LoadsTyped'
    BY <1>15, <2>0 DEF ForkAnswered, Announce
  <2> QED
    BY <2>1, <2>2, <2>3
<1>16. ASSUME NEW k \in Task, Check(k) PROVE TypeOK'
  <2>1. id[k] \in Conv /\ rev[id[k]] \in Nat
    BY <1>16 DEF Check
  <2> QED
    BY <1>16, <2>1 DEF Check
<1>17. ASSUME NEW k \in Task, Write(k) PROVE TypeOK'
  <2>0. id[k] \in Conv /\ seen[k] + 1 \in Nat
    BY <1>17 DEF Write
  <2>1. DiskTyped'
    BY <1>17, <2>0 DEF Write
  <2>2. WindowsTyped' /\ LoadsTyped' /\ TasksTyped'
    BY <1>17 DEF Write
  <2> QED
    BY <2>1, <2>2
<1>18. ASSUME NEW k \in Task, SaveFails(k) PROVE TypeOK'
  BY <1>18 DEF SaveFails, End
<1>19. ASSUME NEW m \in Meta, MetaAnswered(m) PROVE TypeOK'
  <2>1. DiskTyped' /\ WindowsTyped' /\ LoadsTyped'
    BY <1>19 DEF MetaAnswered
  <2>2. TasksTyped'
    BY <1>19 DEF MetaAnswered, End
  <2> QED
    BY <2>1, <2>2
<1>20. CASE UNCHANGED vars
  BY <1>20 DEF vars
<1> QED
  BY <1>1, <1>2, <1>3, <1>4, <1>5, <1>6, <1>7, <1>8, <1>9, <1>10, <1>11, <1>12, <1>13, <1>14, <1>15,
     <1>16, <1>17, <1>18, <1>19, <1>20, <1>21 DEF Next, TurnStep, SaveStep

LEMMA GivenStep == TypeOK /\ TypeOK' /\ GivenOut /\ [Next]_vars => GivenOut'
<1> SUFFICES ASSUME TypeOK, TypeOK', GivenOut, [Next]_vars PROVE GivenOut'
  OBVIOUS
<1> USE ConvFacts, TaskFacts, ConversationAssumption DEF TypeOK, DiskTyped, WindowsTyped, LoadsTyped, TasksTyped, GivenOut, FilesGiven, StreamGiven, TasksGiven, Task, diskVars, windowVars, sendVars, loadVars, taskVars, ghostVars
<1>1. ASSUME NEW w \in Window, NEW t \in Turn, Send(w, t) PROVE GivenOut'
  <2>1. FilesGiven'
    BY <1>1 DEF Send
  <2>2. StreamGiven'
    BY <1>1 DEF Send
  <2>3. TasksGiven'
    BY <1>1 DEF Send
  <2> QED
    BY <2>1, <2>2, <2>3
<1>21. ASSUME NEW w \in Window, NEW t \in Turn, Refused(w, t) PROVE GivenOut'
  <2>1. FilesGiven'
    BY <1>21 DEF Refused
  <2>2. CASE streaming[w] = NoTurn /\ UNCHANGED taskVars
    BY <1>21, <2>1, <2>2 DEF Refused
  <2>3. CASE streaming[w] # NoTurn /\ End(streaming[w])
    <3>1. StreamGiven'
      BY <1>21, <2>3 DEF Refused, End
    <3>2. TasksGiven'
      BY <1>21, <2>3 DEF Refused, End
    <3> QED
      BY <2>1, <3>1, <3>2
  <2> QED
    BY <1>21, <2>2, <2>3 DEF Refused
<1>2. ASSUME NEW w \in Window, Stop(w) PROVE GivenOut'
  <2>1. FilesGiven'
    BY <1>2 DEF Stop, End
  <2>2. StreamGiven'
    BY <1>2 DEF Stop, End
  <2>3. TasksGiven'
    BY <1>2 DEF Stop, End
  <2> QED
    BY <2>1, <2>2, <2>3
<1>3. ASSUME NEW w \in Window, Done(w) PROVE GivenOut'
  <2>1. FilesGiven'
    BY <1>3 DEF Done, End, SendSave
  <2>2. StreamGiven'
    BY <1>3 DEF Done, End, SendSave
  <2>3. TasksGiven'
    <3> DEFINE t == streaming[w]
    <3>1. t \in Turn /\ t \in Task /\ win[t] = w /\ t \notin Meta
      BY <1>3 DEF Done
    <3>2. \A k \in Task : k # t => pc'[k] = pc[k] /\ id'[k] = id[k] /\ win'[k] = win[k]
      BY <1>3 DEF Done, End, SendSave
    <3>3. \/ pc'[t] = "ended"
          \/ pc'[t] = "id" /\ win'[t] = w
          \/ pc'[t] \in {"title", "sent"} /\ id'[t] # 0 /\ win'[t] = w
      <4>1. CASE shown[w] = {}
        BY <1>3, <3>1, <4>1 DEF Done, End
      <4>2. CASE shown[w] # {} /\ cur[w] = 0
        BY <1>3, <3>1, <4>2 DEF Done
      <4>3. CASE shown[w] # {} /\ cur[w] # 0
        BY <1>3, <3>1, <4>3 DEF Done, SendSave
      <4> QED
        BY <4>1, <4>2, <4>3
    <3>4. \A k \in Task : pc'[k] \in {"title", "sent", "checked", "written", "conflict", "forked"} => id'[k] # 0
      <4> SUFFICES ASSUME NEW k \in Task, pc'[k] \in {"title", "sent", "checked", "written", "conflict", "forked"}
                   PROVE  id'[k] # 0
        OBVIOUS
      <4>1. CASE k = t
        BY <3>1, <3>2, <3>3, <4>1
      <4>2. CASE k # t
        BY <3>1, <3>2, <3>3, <4>2
      <4> QED
        BY <4>1, <4>2
    <3>5. \A u \in Turn : pc'[u] \notin {"unused", "ended"} => win'[u] \in Window
      <4> SUFFICES ASSUME NEW u \in Turn, pc'[u] \notin {"unused", "ended"} PROVE win'[u] \in Window
        OBVIOUS
      <4>1. CASE u = t
        BY <3>1, <3>2, <3>3, <4>1
      <4>2. CASE u # t
        BY <3>1, <3>2, <3>3, <4>2
      <4> QED
        BY <4>1, <4>2
    <3>6. \A n \in Meta : pc'[n] \in {"unused", "sent", "checked", "written", "conflict", "ended"}
      <4> SUFFICES ASSUME NEW n \in Meta PROVE pc'[n] \in {"unused", "sent", "checked", "written", "conflict", "ended"}
        OBVIOUS
      <4>1. CASE n = t
        BY <3>1, <3>2, <3>3, <4>1
      <4>2. CASE n # t
        BY <3>1, <3>2, <3>3, <4>2
      <4> QED
        BY <4>1, <4>2
    <3> QED
      BY <3>4, <3>5, <3>6
  <2> QED
    BY <2>1, <2>2, <2>3
<1>4. ASSUME NEW w \in Window, NewConversation(w) PROVE GivenOut'
  <2>1. FilesGiven'
    BY <1>4 DEF NewConversation, Switched
  <2>2. StreamGiven'
    BY <1>4 DEF NewConversation, Switched
  <2>3. TasksGiven'
    BY <1>4 DEF NewConversation, Switched
  <2> QED
    BY <2>1, <2>2, <2>3
<1>5. ASSUME NEW w \in Window, NEW c \in Conv, Deliver(w, c) PROVE GivenOut'
  <2>1. FilesGiven'
    <3>1. UNCHANGED <<rev, turns, ids, loaded>>
      BY <1>5 DEF Deliver
    <3>2. \A v \in Window : list'[v] \in {list[v], turns}
      BY <1>5 DEF Deliver
    <3>3. \A d \in Conv : turns[d] # {} => d <= ids
      OBVIOUS
    <3>4. \A v \in Window : \A d \in Conv : list'[v][d] # {} => d <= ids
      <4> SUFFICES ASSUME NEW v \in Window, NEW d \in Conv, list'[v][d] # {} PROVE d <= ids
        OBVIOUS
      <4>1. CASE list'[v] = list[v]
        BY <4>1
      <4>2. CASE list'[v] = turns
        BY <3>3, <4>2
      <4> QED
        BY <3>2, <4>1, <4>2
    <3> QED
      BY <3>1, <3>4
  <2>2. StreamGiven'
    BY <1>5 DEF Deliver
  <2>3. TasksGiven'
    BY <1>5 DEF Deliver
  <2> QED
    BY <2>1, <2>2, <2>3
<1>6. ASSUME NEW w \in Window, NEW c \in Conv, Read(w, c) PROVE GivenOut'
  <2>1. FilesGiven'
    BY <1>6 DEF Read
  <2>2. StreamGiven'
    BY <1>6 DEF Read
  <2>3. TasksGiven'
    BY <1>6 DEF Read
  <2> QED
    BY <2>1, <2>2, <2>3
<1>7. ASSUME NEW w \in Window, NEW c \in Conv, Select(w, c) PROVE GivenOut'
  <2>1. FilesGiven'
    BY <1>7 DEF Select
  <2>2. StreamGiven'
    BY <1>7 DEF Select
  <2>3. TasksGiven'
    BY <1>7 DEF Select
  <2> QED
    BY <2>1, <2>2, <2>3
<1>8. ASSUME NEW w \in Window, NEW l \in loaded[w], Loaded(w, l) PROVE GivenOut'
  <2>1. FilesGiven'
    BY <1>8 DEF Loaded, Switched
  <2>2. StreamGiven'
    BY <1>8 DEF Loaded, Switched
  <2>3. TasksGiven'
    BY <1>8 DEF Loaded, Switched
  <2> QED
    BY <2>1, <2>2, <2>3
<1>9. ASSUME NEW w \in Window, NEW m \in Meta, StartRename(m, w) PROVE GivenOut'
  <2>1. FilesGiven'
    BY <1>9 DEF StartRename, MetaSave
  <2>2. StreamGiven'
    BY <1>9 DEF StartRename, MetaSave
  <2>3. TasksGiven'
    BY <1>9 DEF StartRename, MetaSave
  <2> QED
    BY <2>1, <2>2, <2>3
<1>10. ASSUME NEW w \in Window, NEW m \in Meta, NEW c \in Conv, StartSoftSave(m, w, c) PROVE GivenOut'
  <2>1. FilesGiven'
    BY <1>10 DEF StartSoftSave, MetaSave
  <2>2. StreamGiven'
    BY <1>10 DEF StartSoftSave, MetaSave
  <2>3. TasksGiven'
    <3>1. \A k \in Task : k # m => pc'[k] = pc[k] /\ id'[k] = id[k] /\ win'[k] = win[k]
      BY <1>10 DEF StartSoftSave, MetaSave
    <3>2. m \notin Turn /\ m \in Task /\ pc'[m] = "sent" /\ id'[m] = c
      BY <1>10 DEF StartSoftSave, MetaSave
    <3>3. c # 0
      BY DEF Conv
    <3>4. \A k \in Task : pc'[k] \in {"title", "sent", "checked", "written", "conflict", "forked"} => id'[k] # 0
      <4> SUFFICES ASSUME NEW k \in Task, pc'[k] \in {"title", "sent", "checked", "written", "conflict", "forked"}
                   PROVE  id'[k] # 0
        OBVIOUS
      <4>1. CASE k = m
        BY <3>1, <3>2, <3>3, <4>1
      <4>2. CASE k # m
        BY <3>1, <3>2, <3>3, <4>2
      <4> QED
        BY <4>1, <4>2
    <3>5. \A u \in Turn : pc'[u] \notin {"unused", "ended"} => win'[u] \in Window
      <4> SUFFICES ASSUME NEW u \in Turn, pc'[u] \notin {"unused", "ended"} PROVE win'[u] \in Window
        OBVIOUS
      <4>1. CASE u = m
        BY <3>1, <3>2, <3>3, <4>1
      <4>2. CASE u # m
        BY <3>1, <3>2, <3>3, <4>2
      <4> QED
        BY <4>1, <4>2
    <3>6. \A n \in Meta : pc'[n] \in {"unused", "sent", "checked", "written", "conflict", "ended"}
      <4> SUFFICES ASSUME NEW n \in Meta PROVE pc'[n] \in {"unused", "sent", "checked", "written", "conflict", "ended"}
        OBVIOUS
      <4>1. CASE n = m
        BY <3>1, <3>2, <3>3, <4>1
      <4>2. CASE n # m
        BY <3>1, <3>2, <3>3, <4>2
      <4> QED
        BY <4>1, <4>2
    <3> QED
      BY <3>4, <3>5, <3>6
  <2> QED
    BY <2>1, <2>2, <2>3
<1>11. ASSUME NEW t \in Turn, IdGiven(t) PROVE GivenOut'
  <2>1. FilesGiven'
    <3>1. UNCHANGED <<rev, turns, loaded, list>> /\ ids' = ids + 1 /\ ids \in Nat
      BY <1>11 DEF IdGiven
    <3>2. \A w \in Window : \A l \in loaded[w] : l.id \in Nat
      OBVIOUS
    <3> QED
      BY <3>1, <3>2
  <2>2. StreamGiven'
    BY <1>11 DEF IdGiven, Switched
  <2>3. TasksGiven'
    <3>1. \A k \in Task : k # t => pc'[k] = pc[k] /\ id'[k] = id[k]
      BY <1>11 DEF IdGiven
    <3>2. /\ pc[t] = "id" /\ pc'[t] \in {"title", "sent"} /\ id'[t] = ids + 1
          /\ t \notin Meta /\ t \in Task /\ win' = win
      BY <1>11 DEF IdGiven
    <3>3. id'[t] # 0
      BY <3>2
    <3>4. \A k \in Task : pc'[k] \in {"title", "sent", "checked", "written", "conflict", "forked"} => id'[k] # 0
      <4> SUFFICES ASSUME NEW k \in Task, pc'[k] \in {"title", "sent", "checked", "written", "conflict", "forked"}
                   PROVE  id'[k] # 0
        OBVIOUS
      <4>1. CASE k = t
        BY <3>1, <3>2, <3>3, <4>1
      <4>2. CASE k # t
        BY <3>1, <3>2, <3>3, <4>2
      <4> QED
        BY <4>1, <4>2
    <3>5. \A u \in Turn : pc'[u] \notin {"unused", "ended"} => win'[u] \in Window
      <4> SUFFICES ASSUME NEW u \in Turn, pc'[u] \notin {"unused", "ended"} PROVE win'[u] \in Window
        OBVIOUS
      <4>1. CASE u = t
        BY <3>1, <3>2, <3>3, <4>1
      <4>2. CASE u # t
        BY <3>1, <3>2, <3>3, <4>2
      <4> QED
        BY <4>1, <4>2
    <3>6. \A n \in Meta : pc'[n] \in {"unused", "sent", "checked", "written", "conflict", "ended"}
      <4> SUFFICES ASSUME NEW n \in Meta PROVE pc'[n] \in {"unused", "sent", "checked", "written", "conflict", "ended"}
        OBVIOUS
      <4>1. CASE n = t
        BY <3>1, <3>2, <3>3, <4>1
      <4>2. CASE n # t
        BY <3>1, <3>2, <3>3, <4>2
      <4> QED
        BY <4>1, <4>2
    <3> QED
      BY <3>4, <3>5, <3>6
  <2> QED
    BY <2>1, <2>2, <2>3
<1>12. ASSUME NEW t \in Turn, TitleGiven(t) PROVE GivenOut'
  <2>1. FilesGiven'
    BY <1>12 DEF TitleGiven, SendSave
  <2>2. StreamGiven'
    BY <1>12 DEF TitleGiven, SendSave
  <2>3. TasksGiven'
    BY <1>12 DEF TitleGiven, SendSave
  <2> QED
    BY <2>1, <2>2, <2>3
<1>13. ASSUME NEW t \in Turn, Answered(t) PROVE GivenOut'
  <2>1. FilesGiven'
    BY <1>13 DEF Answered, End, Announce
  <2>2. StreamGiven'
    BY <1>13 DEF Answered, End, Announce
  <2>3. TasksGiven'
    BY <1>13 DEF Answered, End, Announce
  <2> QED
    BY <2>1, <2>2, <2>3
<1>14. ASSUME NEW t \in Turn, Fork(t) PROVE GivenOut'
  <2>1. FilesGiven'
    <3>1. /\ ids' = ids + 1 /\ ids \in Nat /\ UNCHANGED <<loaded, list>>
          /\ \A c \in Conv : c # ids + 1 => rev'[c] = rev[c] /\ turns'[c] = turns[c]
          /\ rev'[ids + 1] = 1
      BY <1>14 DEF Fork
    <3>2. \A w \in Window : \A l \in loaded[w] : l.id \in Nat
      OBVIOUS
    <3>3. \A c \in Conv : (c > ids' => rev'[c] = 0) /\ (rev'[c] = 0 => turns'[c] = {})
      BY <3>1
    <3>4. \A w \in Window : \A l \in loaded'[w] : l.id <= ids'
      BY <3>1, <3>2
    <3>5. \A w \in Window : \A c \in Conv : list'[w][c] # {} => c <= ids'
      BY <3>1
    <3> QED
      BY <3>3, <3>4, <3>5
  <2>2. StreamGiven'
    BY <1>14 DEF Fork
  <2>3. TasksGiven'
    <3>1. /\ \A k \in Task : k # t => pc'[k] = pc[k] /\ id'[k] = id[k]
          /\ pc'[t] = "forked" /\ pc[t] = "conflict" /\ id'[t] = ids + 1 /\ win' = win
      BY <1>14 DEF Fork
    <3>2. t \in Task /\ t \notin Meta /\ ids + 1 # 0
      BY <1>14 DEF Fork
    <3>3. \A k \in Task : pc'[k] \in {"title", "sent", "checked", "written", "conflict", "forked"} => id'[k] # 0
      <4> SUFFICES ASSUME NEW k \in Task, pc'[k] \in {"title", "sent", "checked", "written", "conflict", "forked"}
                   PROVE  id'[k] # 0
        OBVIOUS
      <4>1. CASE k = t
        BY <3>1, <3>2, <4>1
      <4>2. CASE k # t
        BY <3>1, <4>2
      <4> QED
        BY <4>1, <4>2
    <3>4. \A u \in Turn : pc'[u] \notin {"unused", "ended"} => win'[u] \in Window
      BY <3>1
    <3>5. \A n \in Meta : pc'[n] \in {"unused", "sent", "checked", "written", "conflict", "ended"}
      <4> SUFFICES ASSUME NEW n \in Meta PROVE pc'[n] \in {"unused", "sent", "checked", "written", "conflict", "ended"}
        OBVIOUS
      <4>1. n # t /\ n \in Task
        BY <3>2 DEF Task
      <4> QED
        BY <3>1, <4>1
    <3> QED
      BY <3>3, <3>4, <3>5
  <2> QED
    BY <2>1, <2>2, <2>3
<1>15. ASSUME NEW t \in Turn, ForkAnswered(t) PROVE GivenOut'
  <2>1. FilesGiven'
    BY <1>15 DEF ForkAnswered, End, Announce
  <2>2. StreamGiven'
    BY <1>15 DEF ForkAnswered, End, Announce
  <2>3. TasksGiven'
    BY <1>15 DEF ForkAnswered, End, Announce
  <2> QED
    BY <2>1, <2>2, <2>3
<1>16. ASSUME NEW k \in Task, Check(k) PROVE GivenOut'
  <2>1. FilesGiven'
    BY <1>16 DEF Check
  <2>2. StreamGiven'
    BY <1>16 DEF Check
  <2>3. TasksGiven'
    BY <1>16 DEF Check
  <2> QED
    BY <2>1, <2>2, <2>3
<1>17. ASSUME NEW k \in Task, Write(k) PROVE GivenOut'
  <2>1. FilesGiven'
    BY <1>17 DEF Write
  <2>2. StreamGiven'
    BY <1>17 DEF Write
  <2>3. TasksGiven'
    BY <1>17 DEF Write
  <2> QED
    BY <2>1, <2>2, <2>3
<1>18. ASSUME NEW k \in Task, SaveFails(k) PROVE GivenOut'
  <2>1. FilesGiven'
    BY <1>18 DEF SaveFails, End
  <2>2. StreamGiven'
    BY <1>18 DEF SaveFails, End
  <2>3. TasksGiven'
    BY <1>18 DEF SaveFails, End
  <2> QED
    BY <2>1, <2>2, <2>3
<1>19. ASSUME NEW m \in Meta, MetaAnswered(m) PROVE GivenOut'
  <2>1. FilesGiven'
    <3>1. /\ UNCHANGED <<rev, turns, ids, loaded>>
          /\ list' = [list EXCEPT ![win[m]] = turns] \/ list' = list
      BY <1>19 DEF MetaAnswered
    <3>2. ASSUME NEW v \in Window PROVE list'[v] \in {list[v], turns}
      BY <3>1
    <3>3. \A c \in Conv : turns[c] # {} => c <= ids
      OBVIOUS
    <3>4. ASSUME NEW v \in Window, NEW c \in Conv, list'[v][c] # {} PROVE c <= ids
      <4>1. CASE list'[v] = list[v]
        BY <3>4, <4>1
      <4>2. CASE list'[v] = turns
        BY <3>3, <3>4, <4>2
      <4> QED
        BY <3>2, <4>1, <4>2
    <3> QED
      BY <3>1, <3>4
  <2>2. StreamGiven'
    BY <1>19 DEF MetaAnswered, End
  <2>3. TasksGiven'
    BY <1>19 DEF MetaAnswered, End
  <2> QED
    BY <2>1, <2>2, <2>3
<1>20. CASE UNCHANGED vars
  BY <1>20 DEF vars
<1> QED
  BY <1>1, <1>2, <1>3, <1>4, <1>5, <1>6, <1>7, <1>8, <1>9, <1>10, <1>11, <1>12, <1>13, <1>14, <1>15, <1>16, <1>17, <1>18, <1>19, <1>20, <1>21 DEF Next, TurnStep, SaveStep

-----------------------------------------------------------------------------
(* What the windows and the saves know                                     *)

\* What a step may do to a file: nothing, a new revision, or a second content
\* for one revision.
Grows(c) ==
  \/ raced'[c]
  \/ ~raced[c] /\ rev'[c] > rev[c]
  \/ ~raced[c] /\ rev'[c] = rev[c] /\ turns'[c] = turns[c]

\* What a step may do to a window with a save under way.
HadNext(w) == shown'[w] \cup dropped'[w]
Holds(w) == mixed'[w] \/ (~mixed[w] /\ cur'[w] = cur[w] /\ Had(w) \subseteq HadNext(w))

SameTask(t) ==
  /\ pc'[t] = pc[t] /\ win'[t] = win[t] /\ id'[t] = id[t] /\ new'[t] = new[t] /\ brev'[t] = brev[t]
  /\ payload'[t] = payload[t] /\ seen'[t] = seen[t] /\ tainted'[t] = tainted[t] /\ cut'[t] = cut[t]

SameWindow(w) ==
  /\ mixed'[w] = mixed[w] /\ cur'[w] = cur[w] /\ base'[w] = base[w]
  /\ shown'[w] = shown[w] /\ dropped'[w] = dropped[w]

KnowsNext(c, r, ts) == ~raced'[c] => r <= rev'[c] /\ (r = rev'[c] => turns'[c] \subseteq ts)

LEMMA KnowsStays ==
  ASSUME rev \in [Conv -> Nat], rev' \in [Conv -> Nat], NEW c \in Conv, NEW r \in Nat, NEW ts,
         Grows(c), Knows(c, r, ts)
  PROVE  KnowsNext(c, r, ts)
BY DEF Grows, Knows, KnowsNext

LEMMA FilesGrow ==
  ASSUME TypeOK, GivenOut, [Next]_vars
  PROVE  \A c \in Conv : Grows(c)
<1> USE TaskFacts, ConversationAssumption DEF TypeOK, DiskTyped, TasksTyped, Grows
<1>1. ASSUME NEW k \in Task, Write(k) PROVE \A c \in Conv : Grows(c)
  <2>1. id[k] \in Conv /\ seen[k] \in Nat
    BY <1>1 DEF Write
  <2>2. \A c \in Conv : c # id[k] => rev'[c] = rev[c] /\ turns'[c] = turns[c] /\ raced'[c] = raced[c]
    BY <1>1 DEF Write
  <2>3. rev'[id[k]] = seen[k] + 1 /\ raced'[id[k]] = (raced[id[k]] \/ rev[id[k]] # seen[k])
    BY <1>1, <2>1 DEF Write
  <2>4. Grows(id[k])
    <3>1. CASE raced[id[k]] \/ rev[id[k]] # seen[k]
      BY <2>3, <3>1
    <3>2. CASE ~raced[id[k]] /\ rev[id[k]] = seen[k]
      <4>1. rev'[id[k]] > rev[id[k]]
        BY <2>1, <2>3, <3>2
      <4> QED
        BY <3>2, <4>1
    <3> QED
      BY <3>1, <3>2
  <2> QED
    BY <2>2, <2>4
<1>2. ASSUME NEW t \in Turn, Fork(t) PROVE \A c \in Conv : Grows(c)
  <2>1. ids + 1 \in Conv /\ rev[ids + 1] = 0
    BY <1>2 DEF Fork
  <2>2. /\ rev'[ids + 1] = 1 /\ raced' = raced
        /\ \A c \in Conv : c # ids + 1 => rev'[c] = rev[c] /\ turns'[c] = turns[c]
    BY <1>2, <2>1 DEF Fork, ghostVars
  <2> QED
    BY <2>1, <2>2
<1>3. ASSUME UNCHANGED <<rev, turns, raced>> PROVE \A c \in Conv : Grows(c)
  BY <1>3
<1>4. CASE \E w \in Window : (\E t \in Turn : Send(w, t) \/ Refused(w, t)) \/ Stop(w) \/ Done(w) \/ NewConversation(w)
  BY <1>3, <1>4 DEF Send, Refused, Stop, Done, NewConversation, diskVars, ghostVars
<1>5. CASE \E w \in Window : \E c \in Conv : Deliver(w, c) \/ Read(w, c) \/ Select(w, c)
  BY <1>3, <1>5 DEF Deliver, Read, Select, diskVars, ghostVars
<1>6. CASE \E w \in Window : \E l \in loaded[w] : Loaded(w, l)
  BY <1>3, <1>6 DEF Loaded, diskVars
<1>7. CASE \E w \in Window : \E m \in Meta : StartRename(m, w) \/ \E c \in Conv : StartSoftSave(m, w, c)
  BY <1>3, <1>7 DEF StartRename, StartSoftSave, MetaSave, diskVars, ghostVars
<1>8. CASE \E t \in Turn : IdGiven(t) \/ TitleGiven(t) \/ Answered(t) \/ ForkAnswered(t)
  BY <1>3, <1>8 DEF IdGiven, TitleGiven, Answered, ForkAnswered, diskVars, ghostVars
<1>9. CASE (\E k \in Task : Check(k) \/ SaveFails(k)) \/ \E m \in Meta : MetaAnswered(m)
  BY <1>3, <1>9 DEF Check, SaveFails, MetaAnswered, diskVars, ghostVars
<1>10. CASE UNCHANGED vars
  BY <1>3, <1>10 DEF vars, diskVars, ghostVars
<1> QED
  BY <1>1, <1>2, <1>4, <1>5, <1>6, <1>7, <1>8, <1>9, <1>10 DEF Next, TurnStep, SaveStep

\* A turn whose task does nothing, in a window that holds what it shows.
LEMMA TurnFrame ==
  ASSUME TypeOK, TypeOK', GivenOut, \A c \in Conv : Grows(c),
         NEW t \in Turn, TurnKnows(t), SameTask(t),
         pc[t] \in Leaving \cup {"conflict"} => Holds(win[t])
  PROVE  TurnKnows(t)'
<1>1. /\ rev \in [Conv -> Nat] /\ rev' \in [Conv -> Nat] /\ brev[t] \in Nat /\ seen[t] \in Nat
      /\ \A c \in Conv : raced[c] => raced'[c]
  BY TaskFacts DEF TypeOK, DiskTyped, TasksTyped, Grows
<1>2. pc[t] \in Leaving \cup {"conflict"} => id[t] \in Conv /\ win[t] \in Window
  BY TaskFacts DEF Leaving
<1>3. SentKnows(t)'
  <2>1. CASE pc[t] \in {"sent", "checked"} /\ ~tainted[t]
    BY <1>1, <1>2, <2>1, KnowsStays DEF TurnKnows, SentKnows, SameTask, Leaving, Knows, KnowsNext
  <2> QED
    BY <2>1 DEF SentKnows, SameTask
<1>4. CheckedKnows(t)'
  <2>1. CASE pc[t] = "checked"
    <3>1. rev[id[t]] \in Nat /\ rev'[id[t]] \in Nat /\ id[t] \in Conv
      BY <1>1, <1>2, <2>1 DEF Leaving
    <3>2. ~raced'[id[t]] => ~raced[id[t]] /\ rev[id[t]] <= rev'[id[t]]
      BY <1>1, <3>1 DEF Grows
    <3> QED
      BY <1>1, <2>1, <3>1, <3>2 DEF TurnKnows, CheckedKnows, SameTask
  <2> QED
    BY <2>1 DEF CheckedKnows, SameTask
<1>5. WrittenKnows(t)'
  <2>1. CASE pc[t] = "written" /\ ~tainted[t]
    <3>1. id[t] \in Conv /\ seen[t] + 1 \in Nat /\ Knows(id[t], seen[t] + 1, payload[t])
      BY <1>1, <1>2, <2>1 DEF Leaving, TurnKnows, WrittenKnows
    <3>2. KnowsNext(id[t], seen[t] + 1, payload[t])
      BY <1>1, <3>1, KnowsStays
    <3>3. ~raced'[id[t]] => brev[t] <= seen[t]
      BY <1>1, <2>1, <3>1 DEF TurnKnows, WrittenKnows
    <3> QED
      BY <2>1, <3>2, <3>3 DEF WrittenKnows, SameTask, Knows, KnowsNext
  <2> QED
    BY <2>1 DEF WrittenKnows, SameTask
<1>6. ForkKnows(t)'
  <2>1. CASE pc[t] = "forked"
    <3>1. KnowsNext(id[t], 1, payload[t])
      BY <1>1, <1>2, <2>1, KnowsStays DEF TurnKnows, ForkKnows, Leaving
    <3> QED
      BY <2>1, <3>1 DEF ForkKnows, SameTask, Knows, KnowsNext
  <2> QED
    BY <2>1 DEF ForkKnows, SameTask
<1>7. Joined(t)'
  BY DEF TurnKnows, Joined, SameTask, Holds, Had, HadNext
<1>8. Tainted(t)'
  BY DEF TurnKnows, Tainted, SameTask, Holds, Leaving
<1> QED
  BY <1>3, <1>4, <1>5, <1>6, <1>7, <1>8 DEF TurnKnows

\* A turn that has no conversation of its own yet, or no longer.
LEMMA QuietTurn ==
  ASSUME NEW t \in Turn,
         pc'[t] = "ended" \/ (pc'[t] \in {"unused", "streaming", "id"} /\ ~tainted'[t])
  PROVE  TurnKnows(t)'
BY DEF TurnKnows, SentKnows, CheckedKnows, WrittenKnows, ForkKnows, Joined, Leaving, Tainted

\* A window that nothing happens to.
LEMMA WindowFrame ==
  ASSUME TypeOK, TypeOK', \A c \in Conv : Grows(c), NEW w \in Window, WindowKnows(w), SameWindow(w)
  PROVE  WindowKnows(w)'
<1>1. rev \in [Conv -> Nat] /\ rev' \in [Conv -> Nat] /\ base[w] \in Nat /\ (cur[w] # 0 => cur[w] \in Conv)
  <2>1. rev \in [Conv -> Nat] /\ rev' \in [Conv -> Nat] /\ base[w] \in Nat /\ cur[w] \in 0..ids /\ ids \in Conv
    BY DEF TypeOK, DiskTyped, WindowsTyped
  <2>2. ids \in 1..MaxConv /\ MaxConv \in Nat
    BY <2>1, ConvFacts DEF Conv
  <2>3. cur[w] # 0 => cur[w] \in 1..MaxConv
    BY <2>1, <2>2
  <2> QED
    BY <2>1, <2>3 DEF Conv
<1>2. CASE ~mixed[w] /\ cur[w] # 0
  <2>1. KnowsNext(cur[w], base[w], Had(w))
    BY <1>1, <1>2, KnowsStays DEF WindowKnows
  <2> QED
    BY <1>2, <2>1 DEF WindowKnows, SameWindow, Knows, KnowsNext, Had
<1> QED
  BY <1>2 DEF WindowKnows, SameWindow

\* The answers of the loads, which only Read adds to.
LEMMA LoadsFrame ==
  ASSUME TypeOK, TypeOK', \A c \in Conv : Grows(c), NEW w \in Window, LoadsKnow(w),
         NEW l \in loaded[w]
  PROVE  KnowsNext(l.id, l.rev, l.turns)
<1>1. rev \in [Conv -> Nat] /\ rev' \in [Conv -> Nat] /\ l.id \in Conv /\ l.rev \in Nat
  BY DEF TypeOK, DiskTyped, LoadsTyped
<1> QED
  BY <1>1, KnowsStays DEF LoadsKnow

LEMMA KnowsInit == Init => KnowsInv
<1> SUFFICES ASSUME Init PROVE KnowsInv
  OBVIOUS
<1>1. ASSUME NEW w \in Window PROVE WindowKnows(w) /\ LoadsKnow(w)
  <2>1. loaded[w] = {}
    BY DEF Init
  <2>2. CASE cur[w] # 0
    <3>1. cur[w] = 1 /\ base[w] = 1 /\ shown[w] = turns[1] \cap {Old} /\ dropped[w] = {}
      BY <2>2 DEF Init
    <3>2. rev[1] = 1 /\ turns[1] = {Old}
      BY ConvFacts DEF Init
    <3> QED
      BY <2>1, <3>1, <3>2 DEF WindowKnows, LoadsKnow, Knows, Had
  <2> QED
    BY <2>1, <2>2 DEF WindowKnows, LoadsKnow
<1>2. ASSUME NEW t \in Turn PROVE TurnKnows(t)
  <2>1. pc[t] = "unused" /\ ~tainted[t]
    BY DEF Init, Task
  <2> QED
    BY <2>1 DEF TurnKnows, SentKnows, CheckedKnows, WrittenKnows, ForkKnows, Joined, Leaving, Tainted
<1> QED
  BY <1>1, <1>2 DEF KnowsInv

LEMMA KnowsStep == TypeOK /\ TypeOK' /\ GivenOut /\ KnowsInv /\ [Next]_vars => KnowsInv'
<1> SUFFICES ASSUME TypeOK, TypeOK', GivenOut, KnowsInv, [Next]_vars PROVE KnowsInv'
  OBVIOUS
<1> USE DEF Had, HadNext
<1>1. \A c \in Conv : Grows(c)
  BY FilesGrow
<1>2. ASSUME NEW t \in Turn, SameTask(t), pc[t] \in Leaving \cup {"conflict"} => Holds(win[t])
      PROVE  TurnKnows(t)'
  BY <1>1, <1>2, TurnFrame DEF KnowsInv
<1>3. ASSUME NEW w \in Window, SameWindow(w) PROVE WindowKnows(w)'
  BY <1>1, <1>3, WindowFrame DEF KnowsInv
<1>4. ASSUME NEW w \in Window, loaded'[w] \subseteq loaded[w] PROVE LoadsKnow(w)'
  <2>1. \A l \in loaded[w] : KnowsNext(l.id, l.rev, l.turns)
    BY <1>1, LoadsFrame DEF KnowsInv
  <2> QED
    BY <1>4, <2>1 DEF LoadsKnow, Knows, KnowsNext
\* A step of one turn, or of none, that no window shows.
<1>5. ASSUME NEW u, \A w \in Window : SameWindow(w) /\ loaded'[w] \subseteq loaded[w],
             \A t \in Turn \ {u} : SameTask(t), u \in Turn => TurnKnows(u)'
      PROVE  KnowsInv'
  <2>1. \A w \in Window : WindowKnows(w)' /\ LoadsKnow(w)'
    BY <1>3, <1>4, <1>5
  <2>2. ASSUME NEW t \in Turn, t # u PROVE TurnKnows(t)'
    <3>1. pc[t] \in Leaving \cup {"conflict"} => win[t] \in Window
      BY TaskFacts DEF Leaving
    <3>2. pc[t] \in Leaving \cup {"conflict"} => Holds(win[t])
      BY <1>5, <3>1 DEF Holds, SameWindow
    <3> QED
      BY <1>2, <1>5, <2>2, <3>2
  <2> QED
    BY <1>5, <2>1, <2>2 DEF KnowsInv
<1>6. ASSUME \A w \in Window : SameWindow(w) /\ loaded'[w] \subseteq loaded[w], \A t \in Turn : SameTask(t)
      PROVE  KnowsInv'
  <2>1. NoTurn \notin Turn
    BY ConversationAssumption
  <2> QED
    BY <1>5, <1>6, <2>1
\* A step of a window that keeps the saves under way to what it shows.
<1>7. ASSUME NEW u \in Window, \A t \in Turn : SameTask(t), loaded'[u] \subseteq loaded[u],
             \A w \in Window \ {u} : SameWindow(w) /\ loaded'[w] \subseteq loaded[w],
             Out(u) # {} => Holds(u), WindowKnows(u)'
      PROVE  KnowsInv'
  <2>1. \A w \in Window : WindowKnows(w)' /\ LoadsKnow(w)'
    BY <1>3, <1>4, <1>7
  <2>2. ASSUME NEW t \in Turn PROVE TurnKnows(t)'
    <3>1. pc[t] \in Leaving \cup {"conflict"} => win[t] \in Window /\ t \in Out(win[t])
      BY TaskFacts DEF Leaving, Out
    <3>2. pc[t] \in Leaving \cup {"conflict"} => Holds(win[t])
      BY <1>7, <3>1 DEF Holds, SameWindow
    <3> QED
      BY <1>2, <1>7, <3>2
  <2> QED
    BY <2>1, <2>2 DEF KnowsInv
<1>8. ASSUME NEW w \in Window, NEW t \in Turn, Send(w, t) PROVE KnowsInv'
  <2>1. /\ UNCHANGED <<rev, turns, raced, cur, base, mixed, tainted, loaded>>
        /\ pc'[t] = "streaming" /\ pc[t] = "unused" /\ \A u \in Turn \ {t} : SameTask(u)
    BY <1>8, TaskFacts DEF Send, SameTask, diskVars, loadVars, TypeOK, WindowsTyped, TasksTyped
  <2>4. ASSUME NEW v \in Window PROVE Had(v) \subseteq HadNext(v)
    <3>1. PICK gone \in SUBSET shown[w] : /\ shown' = [shown EXCEPT ![w] = (@ \ gone) \cup {t}]
                                          /\ dropped' = [dropped EXCEPT ![w] = @ \cup gone]
      BY <1>8 DEF Send, TakenOff
    <3> QED
      BY <3>1 DEF TypeOK, WindowsTyped
  <2>2. ASSUME NEW v \in Window PROVE WindowKnows(v)' /\ LoadsKnow(v)'
    BY <1>4, <2>1, <2>4 DEF KnowsInv, WindowKnows, Knows
  <2>3. ASSUME NEW u \in Turn PROVE TurnKnows(u)'
    <3>1. CASE u = t
      <4>1. ~tainted'[t]
        BY <2>1 DEF KnowsInv, TurnKnows, Tainted
      <4> QED
        BY <2>1, <3>1, <4>1, QuietTurn
    <3>2. CASE u # t
      <4>1. pc[u] \in Leaving \cup {"conflict"} => Holds(win[u])
        <5>1. pc[u] \in Leaving \cup {"conflict"} => win[u] \in Window
          BY TaskFacts DEF Leaving
        <5> HIDE DEF Had, HadNext
        <5> QED
          BY <2>1, <2>4, <5>1 DEF Holds, TypeOK, WindowsTyped
      <4> QED
        BY <1>2, <2>1, <3>2, <4>1
    <3> QED
      BY <3>1, <3>2
  <2> QED
    BY <2>2, <2>3 DEF KnowsInv
<1>9. ASSUME NEW w \in Window, Stop(w) PROVE KnowsInv'
  <2>0. PICK t \in Turn : t = streaming[w]
    BY <1>9 DEF Stop, GivenOut, StreamGiven
  <2>1. /\ \A v \in Window : SameWindow(v) /\ loaded'[v] = loaded[v]
        /\ \A u \in Turn \ {t} : SameTask(u)
        /\ pc'[t] = "ended"
    <3>1. \A v \in Window : SameWindow(v) /\ loaded'[v] = loaded[v]
      BY <1>9 DEF Stop, SameWindow, loadVars, ghostVars
    <3>2. \A u \in Turn \ {t} : SameTask(u)
      BY <2>0, <1>9, TaskFacts DEF Stop, End, SameTask, ghostVars, TypeOK, TasksTyped
    <3>3. pc'[t] = "ended"
      BY <2>0, <1>9, TaskFacts DEF Stop, End, TypeOK, TasksTyped
    <3> QED
      BY <3>1, <3>2, <3>3
  <2>2. TurnKnows(t)'
    BY <2>0, <2>1, QuietTurn
  <2> QED
    BY <1>5, <2>1, <2>2
<1>10. ASSUME NEW w \in Window, Done(w) PROVE KnowsInv'
  <2>0. PICK t \in Turn : t = streaming[w]
    BY <1>10 DEF Done, GivenOut, StreamGiven
  <2>1. /\ \A v \in Window : SameWindow(v) /\ loaded'[v] = loaded[v]
        /\ t \in Task /\ pc[t] = "streaming" /\ win[t] = w /\ UNCHANGED <<rev, turns, raced, cur, shown, dropped, mixed>>
    BY <1>10, <2>0, TaskFacts DEF Done, SameWindow, diskVars, loadVars, GivenOut, StreamGiven
  <2>2. ASSUME NEW u \in Turn \ {t} PROVE SameTask(u)
    BY <1>10, <2>0, <2>2, TaskFacts DEF Done, End, SendSave, SameTask, TypeOK, TasksTyped
  <2>3. ~tainted[t]
    BY <2>1 DEF KnowsInv, TurnKnows, Tainted
  <2>4. TurnKnows(t)'
    <3>1. CASE shown[w] = {}
      <4>1. pc'[t] = "ended"
        BY <1>10, <2>0, <2>1, <3>1 DEF Done, End, TypeOK, TasksTyped
      <4> QED
        BY <2>0, <4>1, QuietTurn
    <3>2. CASE shown[w] # {} /\ cur[w] = 0
      <4>1. pc'[t] = "id" /\ ~tainted'[t]
        BY <1>10, <2>0, <2>1, <2>3, <3>2 DEF Done, TypeOK, TasksTyped
      <4> QED
        BY <2>1, <4>1, QuietTurn
    <3>3. CASE shown[w] # {} /\ cur[w] # 0 /\ ~titled[w]
      <4>1. pc'[t] = "title" /\ ~tainted'[t] /\ id'[t] = cur[w] /\ win'[t] = w
        BY <1>10, <2>0, <2>1, <2>3, <3>3 DEF Done, TypeOK, TasksTyped
      <4> QED
        BY <2>1, <4>1 DEF TurnKnows, SentKnows, CheckedKnows, WrittenKnows, ForkKnows, Joined, Tainted
    <3>4. CASE shown[w] # {} /\ cur[w] # 0 /\ titled[w]
      <4>1. /\ pc'[t] = "sent" /\ tainted'[t] = mixed[w] /\ id'[t] = cur[w] /\ win'[t] = w
            /\ brev'[t] = base[w] /\ payload'[t] = shown[w] /\ cut'[t] = dropped[w]
        BY <1>10, <2>0, <2>1, <3>4 DEF Done, SendSave, TypeOK, TasksTyped
      <4>2. ~mixed[w] => Knows(cur[w], base[w], Had(w))
        BY <3>4 DEF KnowsInv, WindowKnows
      <4> QED
        BY <2>1, <4>1, <4>2 DEF TurnKnows, SentKnows, CheckedKnows, WrittenKnows, ForkKnows, Joined, Tainted, Knows
    <3> QED
      BY <3>1, <3>2, <3>3, <3>4, <1>10 DEF Done
  <2> QED
    BY <1>5, <2>1, <2>2, <2>4
<1>11. ASSUME NEW w \in Window, NewConversation(w) PROVE KnowsInv'
  <2>1. /\ cur'[w] = 0 /\ mixed'[w] = (Out(w) \ {} # {})
        /\ \A t \in Turn : SameTask(t)
        /\ \A v \in Window \ {w} : SameWindow(v)
        /\ \A v \in Window : loaded'[v] = loaded[v]
    BY <1>11 DEF NewConversation, Switched, Replaced, SameTask, SameWindow, loadVars, taskVars, TypeOK, WindowsTyped
  <2> QED
    BY <1>7, <2>1 DEF WindowKnows, Holds
<1>12. ASSUME NEW w \in Window, NEW c \in Conv, Deliver(w, c) PROVE KnowsInv'
  BY <1>6, <1>12 DEF Deliver, SameWindow, SameTask, windowVars, taskVars, ghostVars
<1>13. ASSUME NEW w \in Window, NEW c \in Conv, Read(w, c) PROVE KnowsInv'
  <2>1. /\ \A v \in Window : SameWindow(v) /\ Holds(v)
        /\ \A t \in Turn : SameTask(t)
        /\ UNCHANGED <<rev, turns, raced>>
    BY <1>13 DEF Read, SameWindow, Holds, SameTask, diskVars, windowVars, taskVars, ghostVars
  <2>2. \A v \in Window : loaded'[v] \subseteq loaded[v] \cup {[id |-> c, rev |-> rev[c], turns |-> turns[c]]}
    BY <1>13 DEF Read
  <2>3. ASSUME NEW v \in Window PROVE LoadsKnow(v)'
    BY <2>1, <2>2 DEF KnowsInv, LoadsKnow, Knows, TypeOK, DiskTyped
  <2>4. ASSUME NEW t \in Turn PROVE TurnKnows(t)'
    <3>1. pc[t] \in Leaving \cup {"conflict"} => win[t] \in Window
      BY TaskFacts DEF Leaving
    <3> QED
      BY <1>2, <2>1, <3>1
  <2> QED
    BY <1>3, <2>1, <2>3, <2>4 DEF KnowsInv
<1>14. ASSUME NEW w \in Window, NEW c \in Conv, Select(w, c) PROVE KnowsInv'
  <2>1. /\ \A t \in Turn : SameTask(t)
        /\ \A v \in Window : loaded'[v] = loaded[v]
    BY <1>14 DEF Select, SameTask, taskVars
  <2>4. ASSUME NEW v \in Window \ {w} PROVE SameWindow(v)
    BY <1>14, <2>4 DEF Select, SameWindow, TypeOK, WindowsTyped
  <2>2. CASE cur' = [cur EXCEPT ![w] = c] /\ mixed' = [mixed EXCEPT ![w] = TRUE]
    <3>1. mixed'[w]
      BY <2>2 DEF TypeOK, WindowsTyped
    <3> QED
      BY <1>7, <2>1, <2>4, <3>1 DEF WindowKnows, Holds
  <2>3. CASE UNCHANGED <<cur, mixed>>
    <3>1. SameWindow(w)
      BY <1>14, <2>3 DEF Select, SameWindow
    <3> QED
      BY <1>6, <2>1, <2>4, <3>1
  <2> QED
    BY <1>14, <2>2, <2>3 DEF Select
<1>15. ASSUME NEW w \in Window, NEW l \in loaded[w], Loaded(w, l) PROVE KnowsInv'
  <2>1. /\ cur'[w] = l.id /\ base'[w] = l.rev /\ shown'[w] = l.turns /\ dropped'[w] = {}
        /\ mixed'[w] = (Out(w) \ {} # {})
        /\ \A t \in Turn : SameTask(t)
        /\ \A v \in Window \ {w} : SameWindow(v)
        /\ \A v \in Window : loaded'[v] \subseteq loaded[v]
        /\ UNCHANGED <<rev, turns, raced>>
    BY <1>15 DEF Loaded, Switched, Replaced, SameTask, SameWindow, diskVars, taskVars, TypeOK, WindowsTyped
  <2>2. Knows(l.id, l.rev, l.turns)
    BY DEF KnowsInv, LoadsKnow
  <2>3. WindowKnows(w)'
    BY <2>1, <2>2 DEF WindowKnows, Knows
  <2> QED
    BY <1>7, <2>1, <2>3 DEF Holds
<1>16. ASSUME NEW w \in Window, NEW m \in Meta, StartRename(m, w) PROVE KnowsInv'
  <2>1. \A t \in Turn : t # m
    BY ConversationAssumption
  <2> QED
    BY <1>6, <1>16, <2>1 DEF StartRename, MetaSave, SameWindow, SameTask, windowVars, loadVars, ghostVars
<1>17. ASSUME NEW w \in Window, NEW m \in Meta, NEW c \in Conv, StartSoftSave(m, w, c) PROVE KnowsInv'
  <2>1. \A t \in Turn : t # m
    BY ConversationAssumption
  <2> QED
    BY <1>6, <1>17, <2>1 DEF StartSoftSave, MetaSave, SameWindow, SameTask, windowVars, loadVars, ghostVars
\* A step of turn t that changes its window too.
<1>18. ASSUME NEW t \in Turn, NEW w \in Window, win[t] = w, loaded' = loaded,
              \A u \in Turn \ {t} : SameTask(u), \A v \in Window \ {w} : SameWindow(v),
              Out(w) \ {t} # {} => Holds(w), WindowKnows(w)', TurnKnows(t)'
       PROVE  KnowsInv'
  <2>1. ASSUME NEW v \in Window PROVE WindowKnows(v)' /\ LoadsKnow(v)'
    BY <1>3, <1>4, <1>18
  <2>2. ASSUME NEW u \in Turn PROVE TurnKnows(u)'
    <3>1. CASE u = t
      BY <1>18, <3>1
    <3>2. CASE u # t
      <4>1. pc[u] \in Leaving \cup {"conflict"} => win[u] \in Window /\ u \in Out(win[u])
        BY TaskFacts DEF Leaving, Out
      <4>2. pc[u] \in Leaving \cup {"conflict"} => Holds(win[u])
        BY <1>18, <3>2, <4>1 DEF Holds, SameWindow
      <4> QED
        BY <1>2, <1>18, <3>2, <4>2
    <3> QED
      BY <3>1, <3>2
  <2> QED
    BY <2>1, <2>2 DEF KnowsInv
<1>19. ASSUME NEW t \in Turn, IdGiven(t) PROVE KnowsInv'
  <2>0. PICK w \in Window : w = win[t]
    BY <1>19, TaskFacts DEF IdGiven
  <2>1. /\ loaded' = loaded /\ UNCHANGED <<rev, turns, raced>> /\ t \in Task /\ pc[t] = "id"
        /\ cur'[w] = ids + 1 /\ base'[w] = 0 /\ mixed'[w] = (Out(w) \ {t} # {})
        /\ UNCHANGED <<shown, dropped>> /\ tainted'[t] = tainted[t] /\ id'[t] = ids + 1 /\ win'[t] = w
    BY <1>19, <2>0, TaskFacts DEF IdGiven, Switched, loadVars, TypeOK, WindowsTyped, TasksTyped
  <2>2. ASSUME NEW u \in Turn \ {t} PROVE SameTask(u)
    BY <1>19, <2>2, TaskFacts DEF IdGiven, SameTask, TypeOK, TasksTyped
  <2>3. ASSUME NEW v \in Window \ {w} PROVE SameWindow(v)
    BY <1>19, <2>0, <2>3 DEF IdGiven, Switched, SameWindow, TypeOK, WindowsTyped
  <2>4. ids + 1 \in Conv /\ rev[ids + 1] = 0 /\ turns[ids + 1] = {}
    BY <1>19, TaskFacts DEF IdGiven
  <2>5. WindowKnows(w)'
    BY <2>1, <2>4 DEF WindowKnows, Knows
  <2>6. ~tainted[t]
    BY <2>1 DEF KnowsInv, TurnKnows, Tainted
  <2>7. TurnKnows(t)'
    <3>1. CASE pc' = [pc EXCEPT ![t] = "title"]
      <4>1. pc'[t] = "title"
        BY <2>1, <3>1 DEF TypeOK, TasksTyped
      <4> QED
        BY <2>1, <2>6, <4>1 DEF TurnKnows, SentKnows, CheckedKnows, WrittenKnows, ForkKnows, Joined, Tainted
    <3>2. CASE pc' = [pc EXCEPT ![t] = "sent"] /\ payload' = [payload EXCEPT ![t] = {}] /\ brev' = [brev EXCEPT ![t] = 0]
      <4>1. pc'[t] = "sent" /\ payload'[t] = {} /\ brev'[t] = 0
        BY <2>1, <3>2 DEF TypeOK, TasksTyped
      <4> QED
        BY <2>1, <2>4, <2>6, <4>1 DEF TurnKnows, SentKnows, CheckedKnows, WrittenKnows, ForkKnows, Joined, Tainted, Knows
    <3> QED
      BY <1>19, <3>1, <3>2 DEF IdGiven
  <2> QED
    BY <1>18, <2>0, <2>1, <2>2, <2>3, <2>5, <2>7 DEF Holds
<1>20. ASSUME NEW t \in Turn, TitleGiven(t) PROVE KnowsInv'
  <2>0. PICK w \in Window : w = win[t]
    BY <1>20, TaskFacts DEF TitleGiven
  <2>1. /\ \A v \in Window : SameWindow(v) /\ loaded'[v] = loaded[v]
        /\ UNCHANGED <<rev, turns, raced, cur, shown, dropped, mixed>> /\ t \in Task /\ pc[t] = "title" /\ id[t] # 0
    BY <1>20, TaskFacts DEF TitleGiven, SameWindow, diskVars, loadVars, GivenOut, TasksGiven
  <2>2. ASSUME NEW u \in Turn \ {t} PROVE SameTask(u)
    BY <1>20, <2>2, TaskFacts DEF TitleGiven, SendSave, SameTask, TypeOK, TasksTyped
  <2>3. /\ pc'[t] = "sent" /\ tainted'[t] = mixed[w] /\ id'[t] = id[t] /\ win'[t] = w
        /\ brev'[t] = base[w] /\ payload'[t] = shown[w] /\ cut'[t] = dropped[w]
    BY <1>20, <2>0, <2>1 DEF TitleGiven, SendSave, TypeOK, TasksTyped
  <2>4. ~mixed[w] => id[t] = cur[w] /\ Knows(cur[w], base[w], Had(w))
    BY <2>0, <2>1 DEF KnowsInv, WindowKnows, TurnKnows, Joined, Leaving
  <2>5. TurnKnows(t)'
    BY <2>1, <2>3, <2>4 DEF TurnKnows, SentKnows, CheckedKnows, WrittenKnows, ForkKnows, Joined, Tainted, Knows
  <2> QED
    BY <1>5, <2>1, <2>2, <2>5
<1>21. ASSUME NEW t \in Turn, Answered(t) PROVE KnowsInv'
  <2>0. PICK w \in Window : w = win[t]
    BY <1>21, TaskFacts DEF Answered
  <2>1. /\ loaded' = loaded /\ UNCHANGED <<rev, turns, raced, cur, shown, dropped, mixed>> /\ t \in Task
        /\ base'[w] = brev[t] + 1 /\ pc[t] = "written" /\ pc'[t] = "ended"
    BY <1>21, <2>0, TaskFacts DEF Answered, End, diskVars, ghostVars, TypeOK, WindowsTyped, TasksTyped
  <2>2. ASSUME NEW u \in Turn \ {t} PROVE SameTask(u)
    BY <1>21, <2>2, TaskFacts DEF Answered, End, SameTask, ghostVars, TypeOK, TasksTyped
  <2>3. ASSUME NEW v \in Window \ {w} PROVE SameWindow(v)
    BY <1>21, <2>0, <2>3 DEF Answered, SameWindow, ghostVars, TypeOK, WindowsTyped
  <2>4. ASSUME ~mixed[w], cur[w] # 0 PROVE WindowKnows(w)'
    <3>1. ~tainted[t] /\ id[t] = cur[w] /\ payload[t] \subseteq Had(w)
      BY <2>0, <2>1, <2>4 DEF KnowsInv, TurnKnows, Tainted, Joined, Leaving
    <3>2. Knows(cur[w], seen[t] + 1, payload[t]) /\ (~raced[cur[w]] => brev[t] <= seen[t])
      BY <2>1, <3>1 DEF KnowsInv, TurnKnows, WrittenKnows
    <3>3. brev[t] \in Nat /\ seen[t] \in Nat /\ rev[cur[w]] \in Nat
      <4>1. cur[w] \in Conv
        BY <2>4, TaskFacts DEF TypeOK, WindowsTyped
      <4> QED
        BY <2>1, <4>1 DEF TypeOK, DiskTyped, TasksTyped
    <3>4. Knows(cur[w], brev[t] + 1, Had(w))
      BY <3>1, <3>2, <3>3 DEF Knows
    <3> QED
      BY <2>1, <3>4 DEF WindowKnows, Knows
  <2>5. WindowKnows(w)'
    BY <2>1, <2>4 DEF WindowKnows
  <2>6. TurnKnows(t)'
    BY <2>1, QuietTurn
  <2> QED
    BY <1>18, <2>0, <2>1, <2>2, <2>3, <2>5, <2>6 DEF Holds
<1>22. ASSUME NEW t \in Turn, Fork(t) PROVE KnowsInv'
  <2>0. PICK w \in Window : w = win[t]
    BY <1>22, TaskFacts DEF Fork
  <2>1. /\ \A v \in Window : SameWindow(v) /\ loaded'[v] = loaded[v]
        /\ UNCHANGED <<shown, dropped, mixed>> /\ t \in Task /\ pc[t] = "conflict" /\ ids + 1 \in Conv
    BY <1>22, TaskFacts DEF Fork, SameWindow, windowVars, loadVars, ghostVars
  <2>2. ASSUME NEW u \in Turn \ {t} PROVE SameTask(u)
    BY <1>22, <2>2, TaskFacts DEF Fork, SameTask, ghostVars, TypeOK, TasksTyped
  <2>3. /\ pc'[t] = "forked" /\ id'[t] = ids + 1 /\ win'[t] = w /\ payload'[t] = shown[w]
        /\ tainted'[t] = tainted[t]
    BY <1>22, <2>0, <2>1 DEF Fork, ghostVars, TypeOK, TasksTyped
  <2>4. rev'[ids + 1] = 1 /\ turns'[ids + 1] = shown[w]
    BY <1>22, <2>0, <2>1 DEF Fork, TypeOK, DiskTyped
  <2>5. tainted[t] => mixed[w]
    BY <2>0, <2>1 DEF KnowsInv, TurnKnows, Tainted
  <2>6. TurnKnows(t)'
    BY <2>1, <2>3, <2>4, <2>5 DEF TurnKnows, SentKnows, CheckedKnows, WrittenKnows, ForkKnows, Joined, Tainted, Knows
  <2> QED
    BY <1>5, <2>1, <2>2, <2>6
<1>23. ASSUME NEW t \in Turn, ForkAnswered(t) PROVE KnowsInv'
  <2>0. PICK w \in Window : w = win[t]
    BY <1>23, TaskFacts DEF ForkAnswered
  <2>1. /\ loaded' = loaded /\ UNCHANGED <<rev, turns, raced, shown, dropped>> /\ t \in Task /\ pc[t] = "forked"
        /\ cur'[w] = id[t] /\ base'[w] = 1 /\ mixed'[w] = (mixed[w] \/ Out(w) # {t})
    BY <1>23, <2>0, TaskFacts DEF ForkAnswered, diskVars, TypeOK, WindowsTyped
  <2>2. ASSUME NEW u \in Turn \ {t} PROVE SameTask(u)
    BY <1>23, <2>2, TaskFacts DEF ForkAnswered, End, SameTask, TypeOK, TasksTyped
  <2>3. ASSUME NEW v \in Window \ {w} PROVE SameWindow(v)
    BY <1>23, <2>0, <2>3 DEF ForkAnswered, SameWindow, TypeOK, WindowsTyped
  <2>4. pc'[t] = "ended"
    BY <1>23, <2>1 DEF ForkAnswered, End, TypeOK, TasksTyped
  <2>5. WindowKnows(w)'
    <3>1. CASE ~mixed[w]
      <4>1. payload[t] \subseteq Had(w) /\ Knows(id[t], 1, payload[t])
        BY <2>0, <2>1, <3>1 DEF KnowsInv, TurnKnows, Joined, ForkKnows, Leaving
      <4> QED
        BY <2>1, <4>1 DEF WindowKnows, Knows
    <3>2. CASE mixed[w]
      BY <2>1, <3>2 DEF WindowKnows
    <3> QED
      BY <3>1, <3>2
  <2>6. TurnKnows(t)'
    BY <2>4, QuietTurn
  <2>7. Out(w) \ {t} # {} => Holds(w)
    BY <2>1 DEF Holds
  <2> QED
    BY <1>18, <2>0, <2>1, <2>2, <2>3, <2>5, <2>6, <2>7
<1>27. ASSUME NEW w \in Window, NEW t \in Turn, Refused(w, t) PROVE KnowsInv'
  <2>1. /\ UNCHANGED <<rev, turns, raced, cur, base, mixed, tainted, loaded>>
        /\ \A v \in Window \ {w} : SameWindow(v)
    BY <1>27 DEF Refused, Pop, TakenOff, SameWindow, diskVars, loadVars, TypeOK, WindowsTyped
  <2>2. Had(w) \subseteq HadNext(w)
    <3>1. CASE UNCHANGED <<shown, dropped>>
      BY <3>1
    <3>2. CASE \E m \in shown[w] : shown' = [shown EXCEPT ![w] = @ \ {m}] /\ TakenOff(w, {m})
      BY <3>2 DEF TakenOff, TypeOK, WindowsTyped
    <3> QED
      BY <1>27, <3>1, <3>2 DEF Refused, Pop
  <2>3. WindowKnows(w)'
    BY <2>1, <2>2 DEF KnowsInv, WindowKnows, Knows
  <2>4. Holds(w)
    <3> HIDE DEF Had, HadNext
    <3> QED
      BY <2>1, <2>2 DEF Holds, TypeOK, WindowsTyped
  <2>5. CASE UNCHANGED taskVars
    <3>1. \A u \in Turn : SameTask(u)
      BY <2>1, <2>5 DEF SameTask, taskVars
    <3> QED
      BY <1>7, <2>1, <2>3, <2>4, <3>1
  <2>6. CASE streaming[w] # NoTurn /\ End(streaming[w])
    <3>0. PICK s \in Turn : s = streaming[w]
      BY <2>6 DEF GivenOut, StreamGiven
    <3>1. win[s] = w /\ pc'[s] = "ended"
      BY <2>6, <3>0, TaskFacts DEF End, GivenOut, StreamGiven, TypeOK, TasksTyped
    <3>2. ASSUME NEW u \in Turn \ {s} PROVE SameTask(u)
      BY <2>1, <2>6, <3>0, <3>2, TaskFacts DEF End, SameTask, TypeOK, TasksTyped
    <3>3. TurnKnows(s)'
      BY <3>1, QuietTurn
    <3> QED
      BY <1>18, <2>1, <2>3, <2>4, <3>1, <3>2, <3>3
  <2> QED
    BY <1>27, <2>5, <2>6 DEF Refused
\* The steps of the service and of the failures, for a turn and for another save.
<1>24. ASSUME NEW k \in Task, SaveStep(k) PROVE KnowsInv'
  <2>1. \A v \in Window : SameWindow(v) /\ loaded'[v] = loaded[v]
    BY <1>24 DEF SaveStep, Check, Write, SaveFails, SameWindow, windowVars, loadVars, ghostVars
  <2>2. ASSUME NEW u \in Turn \ {k} PROVE SameTask(u)
    <3>1. CASE Check(k)
      BY <2>2, <3>1, TaskFacts DEF Check, SameTask, ghostVars, TypeOK, TasksTyped
    <3>2. CASE Write(k)
      BY <2>2, <3>2, TaskFacts DEF Write, SameTask, TypeOK, TasksTyped
    <3>3. CASE SaveFails(k)
      BY <2>2, <3>3, TaskFacts DEF SaveFails, End, SameTask, ghostVars, TypeOK, TasksTyped
    <3> QED
      BY <1>24, <3>1, <3>2, <3>3 DEF SaveStep
  <2>3. ASSUME k \in Turn, Check(k) PROVE TurnKnows(k)'
    <3>1. /\ pc[k] = "sent" /\ seen'[k] = rev[id[k]]
          /\ UNCHANGED <<rev, turns, raced, cur, shown, dropped, mixed>> /\ cut'[k] = cut[k] /\ win'[k] = win[k] /\ id'[k] = id[k] /\ new'[k] = new[k] /\ brev'[k] = brev[k]
          /\ payload'[k] = payload[k] /\ tainted'[k] = tainted[k] /\ id[k] \in Conv
      BY <2>3, TaskFacts DEF Check, diskVars, windowVars, ghostVars, TypeOK, TasksTyped
    <3>2. pc'[k] = IF Expected(k) # 0 /\ rev[id[k]] \notin {0, Expected(k)} THEN "conflict" ELSE "checked"
      BY <2>3 DEF Check, TypeOK, TasksTyped
    <3>3. Expected(k) = IF new[k] THEN 0 ELSE brev[k]
      BY <2>3, ConversationAssumption DEF Expected
    <3>4. tainted[k] => mixed[win[k]]
      BY <2>3, <3>1 DEF KnowsInv, TurnKnows, Tainted
    <3>5. CASE pc'[k] = "conflict"
      BY <3>1, <3>4, <3>5 DEF TurnKnows, SentKnows, CheckedKnows, WrittenKnows, ForkKnows, Joined, Leaving, Tainted
    <3>6. CASE pc'[k] = "checked"
      <4>1. ~tainted[k] => Knows(id[k], brev[k], payload[k] \cup cut[k])
        BY <2>3, <3>1 DEF KnowsInv, TurnKnows, SentKnows
      <4>2. SentKnows(k)'
        BY <3>1, <4>1 DEF SentKnows, Knows
      <4>3. CheckedKnows(k)'
        <5>1. rev[id[k]] \in Nat
          BY <3>1 DEF TypeOK, DiskTyped
        <5>2. ~new[k] /\ brev[k] # 0 => rev[id[k]] \in {0, brev[k]}
          BY <3>2, <3>3, <3>6
        <5> QED
          BY <3>1, <4>1, <5>1, <5>2 DEF CheckedKnows, Knows
      <4>4. Joined(k)'
        BY <2>3, <3>1, <3>6 DEF KnowsInv, TurnKnows, Joined, Leaving
      <4> QED
        BY <3>1, <3>4, <3>6, <4>2, <4>3, <4>4 DEF TurnKnows, WrittenKnows, ForkKnows, Tainted
    <3> QED
      BY <3>2, <3>5, <3>6
  <2>4. ASSUME k \in Turn, Write(k) PROVE TurnKnows(k)'
    <3>1. /\ pc[k] = "checked" /\ pc'[k] = "written" /\ UNCHANGED <<cur, shown, dropped, mixed>> /\ seen'[k] = seen[k]
          /\ win'[k] = win[k] /\ id'[k] = id[k] /\ brev'[k] = brev[k]
          /\ payload'[k] = payload[k] /\ tainted'[k] = tainted[k] /\ id[k] \in Conv /\ seen[k] \in Nat
      BY <2>4, TaskFacts DEF Write, windowVars, TypeOK, TasksTyped
    <3>2. /\ rev'[id[k]] = seen[k] + 1 /\ turns'[id[k]] = payload[k]
          /\ raced[id[k]] => raced'[id[k]]
      BY <2>4, <3>1 DEF Write, TypeOK, DiskTyped
    <3>3. WrittenKnows(k)'
      <4>1. ~tainted[k] /\ ~raced[id[k]] => brev[k] <= seen[k]
        BY <2>4, <3>1 DEF KnowsInv, TurnKnows, CheckedKnows
      <4> QED
        BY <3>1, <3>2, <4>1 DEF WrittenKnows, Knows
    <3>4. Joined(k)' /\ Tainted(k)'
      BY <2>4, <3>1 DEF KnowsInv, TurnKnows, Joined, Leaving, Tainted
    <3> QED
      BY <3>1, <3>3, <3>4 DEF TurnKnows, SentKnows, CheckedKnows, ForkKnows
  <2>5. ASSUME k \in Turn, SaveFails(k) PROVE TurnKnows(k)'
    <3>1. pc'[k] = "ended"
      BY <2>5 DEF SaveFails, End, TypeOK, TasksTyped
    <3> QED
      BY <2>5, <3>1, QuietTurn
  <2>6. k \in Turn => TurnKnows(k)'
    BY <1>24, <2>3, <2>4, <2>5 DEF SaveStep
  <2> QED
    BY <1>5, <2>1, <2>2, <2>6
<1>25. ASSUME NEW m \in Meta, MetaAnswered(m) PROVE KnowsInv'
  <2>1. \A t \in Turn : t # m
    BY ConversationAssumption
  <2>2. \A v \in Window : SameWindow(v) /\ loaded'[v] = loaded[v]
    BY <1>25 DEF MetaAnswered, SameWindow, loadVars, ghostVars
  <2>3. ASSUME NEW t \in Turn PROVE SameTask(t)
    BY <1>25, <2>1, <2>3, TaskFacts DEF MetaAnswered, End, SameTask, ghostVars, TypeOK, TasksTyped
  <2> QED
    BY <1>6, <2>2, <2>3
<1>26. CASE UNCHANGED vars
  BY <1>6, <1>26 DEF vars, SameWindow, SameTask, windowVars, loadVars, taskVars, ghostVars
<1> QED
  BY <1>8, <1>9, <1>10, <1>11, <1>12, <1>13, <1>14, <1>15, <1>16, <1>17, <1>19, <1>20, <1>21, <1>22,
     <1>23, <1>24, <1>25, <1>26, <1>27 DEF Next, TurnStep

-----------------------------------------------------------------------------
(* The theorems                                                            *)

IInv == TypeOK /\ GivenOut /\ KnowsInv

LEMMA Inductive == Spec => []IInv
<1>1. Init => IInv
  BY InitTyped, KnowsInit DEF IInv
<1>2. IInv /\ [Next]_vars => IInv'
  BY TypeStep, GivenStep, KnowsStep DEF IInv
<1> QED
  BY <1>1, <1>2, PTL DEF Spec

(* Every state of the conversations has its type.                          *)
THEOREM TypeCorrect == Spec => []TypeOK
<1>1. IInv => TypeOK
  BY DEF IInv
<1> QED
  BY <1>1, Inductive, PTL

(* A turn that was saved stays in its conversation: what takes it away is a
   save that may overwrite what it has not seen (of the sidebar, of a rename,
   without a revision, or of a window that switched meanwhile), the second of
   two saves that met between the comparison and the write of Save
   (conversation_service.go), or the save of a window that had taken the turn
   off its messages itself (the send that is refused, and the trimming of the
   messages, in ai.ts).                                                    *)
THEOREM SavedStay == Spec => SavedTurnsStay
<1> DEFINE Overwrites(c, m) ==
             \E k \in Task : /\ pc[k] = "checked" /\ pc'[k] = "written" /\ id[k] = c
                             /\ Unguarded(k) \/ m \in cut[k]
<1>1. ASSUME IInv, [Next]_vars, NEW c \in Conv, NEW m \in turns[c] \ turns'[c]
      PROVE  raced'[c] \/ Overwrites(c, m)
  <2>1. turns' # turns
    OBVIOUS
  <2>2. ASSUME NEW t \in Turn, Fork(t) PROVE FALSE
    <3>1. turns[ids + 1] = {} /\ (c # ids + 1 => turns'[c] = turns[c])
      BY <1>1, <2>2, TaskFacts DEF Fork, IInv, TypeOK, DiskTyped
    <3> QED
      BY <3>1
  <2>3. ASSUME NEW k \in Task, Write(k), ~Unguarded(k), c = id[k], ~raced'[c]
        PROVE  m \in cut[k]
    <3>1. /\ pc[k] = "checked" /\ turns'[c] = payload[k] /\ seen[k] = rev[c] /\ ~raced[c]
          /\ k \in Turn /\ ~new[k] /\ brev[k] # 0 /\ ~tainted[k]
      BY <1>1, <2>3 DEF Write, Unguarded, Task, IInv, TypeOK, DiskTyped
    <3>2. brev[k] <= seen[k] /\ seen[k] \in {0, brev[k]} /\ Knows(c, brev[k], payload[k] \cup cut[k])
      BY <1>1, <2>3, <3>1 DEF IInv, KnowsInv, TurnKnows, CheckedKnows, SentKnows
    <3>3. brev[k] = rev[c]
      BY <1>1, <3>1, <3>2 DEF IInv, TypeOK, TasksTyped
    <3>4. turns[c] \subseteq payload[k] \cup cut[k]
      BY <3>1, <3>2, <3>3 DEF Knows
    <3> QED
      BY <3>1, <3>4
  <2>4. ASSUME NEW k \in Task, Write(k) PROVE raced'[c] \/ Overwrites(c, m)
    <3>1. c = id[k]
      BY <1>1, <2>4 DEF Write, IInv, TypeOK, DiskTyped
    <3>2. pc[k] = "checked" /\ pc'[k] = "written"
      BY <1>1, <2>4 DEF Write, IInv, TypeOK, TasksTyped
    <3> QED
      BY <2>3, <2>4, <3>1, <3>2
  <2>5. \/ turns' = turns
        \/ \E t \in Turn : Fork(t)
        \/ \E k \in Task : Write(k)
    <3>1. CASE \E w \in Window : \/ (\E t \in Turn : Send(w, t) \/ Refused(w, t))
                                 \/ Stop(w) \/ Done(w) \/ NewConversation(w)
      BY <3>1 DEF Send, Refused, Stop, Done, NewConversation, diskVars
    <3>2. CASE \E w \in Window : \/ \E k \in Conv : Deliver(w, k) \/ Read(w, k) \/ Select(w, k)
                                 \/ \E l \in loaded[w] : Loaded(w, l)
      BY <3>2 DEF Deliver, Read, Select, Loaded, diskVars
    <3>3. CASE \E w \in Window : \E n \in Meta : StartRename(n, w) \/ \E k \in Conv : StartSoftSave(n, w, k)
      BY <3>3 DEF StartRename, StartSoftSave, MetaSave, diskVars
    <3>4. CASE \E t \in Turn : IdGiven(t) \/ TitleGiven(t) \/ Answered(t) \/ ForkAnswered(t)
      BY <3>4 DEF IdGiven, TitleGiven, Answered, ForkAnswered, diskVars
    <3>5. CASE (\E k \in Task : Check(k) \/ SaveFails(k)) \/ \E n \in Meta : MetaAnswered(n)
      BY <3>5 DEF Check, SaveFails, MetaAnswered, diskVars
    <3>6. CASE UNCHANGED vars
      BY <3>6 DEF vars, diskVars
    <3> QED
      BY <1>1, <3>1, <3>2, <3>3, <3>4, <3>5, <3>6 DEF Next, TurnStep, SaveStep
  <2> QED
    BY <2>1, <2>2, <2>4, <2>5
<1>2. IInv /\ [Next]_vars =>
        [\A c \in Conv : \A m \in turns[c] \ turns'[c] : raced'[c] \/ Overwrites(c, m)]_vars
  BY <1>1
<1> QED
  BY <1>2, Inductive, PTL DEF Spec, SavedTurnsStay
=============================================================================
