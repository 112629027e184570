---------------------------- MODULE Conversation ----------------------------
(***************************************************************************)
(* The conversations that the windows show and save (the conversation part *)
(* of frontend/src/stores/ai.ts, the sidebar that lists them, and          *)
(* services/conversation_service.go).  A conversation is a set of turns,   *)
(* one for each message sent; a save is a compare-and-swap on its revision *)
(* when it carries the revision that it expects.                           *)
(*                                                                         *)
(* Every turn has a task of its own, the persistConversation at its end;   *)
(* renames and the saves of the sidebar are tasks too.  Everything between *)
(* two awaits is one step, and so is everything the service does between   *)
(* two accesses to the file.                                               *)
(***************************************************************************)
EXTENDS Naturals, FiniteSets

CONSTANTS
  Window,
  Sidebar,       \* the windows that list the conversations
  Turn,          \* the turns that may be sent
  Old,           \* the turn of the conversation there is from the start
  Rename,        \* calls of UpdateTitle for the conversation a window shows
  SoftSave,      \* saves by the sidebar: favorite, tag, group, order, title
  MaxShown,      \* turns that a window retains (MAX_AI_MESSAGES: 200 messages)
  MaxAct,        \* acts of the user: sends, selections, renames, sidebar (bound)
  NoTurn, NoWindow

\* A turn needs an id when its conversation is new, and another one to fork.
MaxConv == 1 + 2 * Cardinality(Turn)
Conv == 1..MaxConv
Meta == Rename \cup SoftSave
Task == Turn \cup Meta

ASSUME ConversationAssumption ==
  /\ IsFiniteSet(Turn) /\ Old \notin Turn /\ NoTurn \notin Turn \cup {Old}
  /\ Sidebar \subseteq Window /\ Turn \cap Meta = {} /\ Rename \cap SoftSave = {}
  /\ MaxShown \in Nat \ {0} /\ MaxAct \in Nat

VARIABLES
  rev, turns,           \* the file of each conversation; revision 0: none
  ids,                  \* the ids given out
  cur, base, shown,     \* per window currentConversationId (0: null),
  titled, streaming,    \*   conversationRevision, messages, title, turn under way
  starting,             \* per window the startStream calls that may yet fail
  tail,                 \* per window: its last message is a reply not saved yet
  list,                 \* per window the conversations as its sidebar holds them
  inbox, asked, loaded, \* per window events, loads under way, and their answers
  pc, win, id, new, brev, payload, seen,   \* the tasks
  acts,
  raced, mixed, tainted,          \* history, see the properties
  dropped,                        \*   per window what it took off its messages itself,
  cut                             \*   per task what its window had when it was sent
diskVars == <<rev, turns, ids>>
windowVars == <<cur, base, shown, titled, streaming>>
sendVars == <<starting, tail>>
loadVars == <<inbox, asked, loaded>>
taskVars == <<pc, win, id, new, brev, payload, seen, cut>>
ghostVars == <<raced, mixed, tainted, dropped>>
vars == <<diskVars, windowVars, sendVars, list, loadVars, taskVars, acts, ghostVars>>

-----------------------------------------------------------------------------
Init ==
  /\ rev = [c \in Conv |-> IF c = 1 THEN 1 ELSE 0]
  /\ turns = [c \in Conv |-> IF c = 1 THEN {Old} ELSE {}]
  /\ ids = 1
  /\ cur \in [Window -> {0, 1}]
  /\ base = cur
  /\ shown = [w \in Window |-> turns[1] \cap IF cur[w] = 1 THEN {Old} ELSE {}]
  /\ titled = [w \in Window |-> cur[w] = 1]
  /\ streaming = [w \in Window |-> NoTurn]
  /\ starting = [w \in Window |-> {}] /\ tail = [w \in Window |-> FALSE]
  /\ list = [w \in Window |-> IF w \in Sidebar THEN turns ELSE [c \in Conv |-> {}]]
  /\ inbox = [w \in Window |-> {}] /\ asked = [w \in Window |-> {}]
  /\ loaded = [w \in Window |-> {}]
  /\ pc = [k \in Task |-> "unused"]
  /\ win = [k \in Task |-> NoWindow]
  /\ id = [k \in Task |-> 0] /\ new = [k \in Task |-> FALSE]
  /\ brev = [k \in Task |-> 0] /\ payload = [k \in Task |-> {}]
  /\ seen = [k \in Task |-> 0]
  /\ acts = 0
  /\ raced = [c \in Conv |-> FALSE]
  /\ mixed = [w \in Window |-> FALSE]
  /\ tainted = [k \in Task |-> FALSE]
  /\ dropped = [w \in Window |-> {}] /\ cut = [k \in Task |-> {}]

\* The saves of window w that are under way.
Out(w) == {t \in Turn : win[t] = w /\ pc[t] \notin {"unused", "streaming", "ended"}}

\* The window shows something else: the answer of a save under way will be
\* taken for one about it.
Switched(w, K) == mixed' = [mixed EXCEPT ![w] = Out(w) \ K # {}]

\* A task that has ended; nothing reads its variables any more.
End(k) ==
  /\ pc' = [pc EXCEPT ![k] = "ended"]
  /\ id' = [id EXCEPT ![k] = 0]
  /\ new' = [new EXCEPT ![k] = FALSE]
  /\ brev' = [brev EXCEPT ![k] = 0]
  /\ payload' = [payload EXCEPT ![k] = {}]
  /\ seen' = [seen EXCEPT ![k] = 0]
  /\ cut' = [cut EXCEPT ![k] = {}]
  /\ win' = [win EXCEPT ![k] = NoWindow]

-----------------------------------------------------------------------------
(* A turn and its save                                                     *)

\* The messages of window w lose those of gone, which it does not ask anybody.
TakenOff(w, gone) == dropped' = [dropped EXCEPT ![w] = @ \cup gone]

\* sendMessage up to its await: a window that is not streaming itself shows the
\* turn with an empty reply and drops what it has too much of.  It may believe
\* that nobody streams when another window does (AIStream).
Send(w, t) ==
  /\ acts < MaxAct /\ acts' = acts + 1
  /\ pc[t] = "unused" /\ streaming[w] = NoTurn
  /\ pc' = [pc EXCEPT ![t] = "streaming"]
  /\ win' = [win EXCEPT ![t] = w]
  /\ streaming' = [streaming EXCEPT ![w] = t]
  /\ starting' = [starting EXCEPT ![w] = @ \cup {t}]
  /\ tail' = [tail EXCEPT ![w] = TRUE]
  /\ \E gone \in SUBSET shown[w] :
       /\ IF Cardinality(shown[w]) < MaxShown THEN gone = {}
          ELSE Cardinality(shown[w] \ gone) = MaxShown - 1
       /\ shown' = [shown EXCEPT ![w] = (@ \ gone) \cup {t}]
       /\ TakenOff(w, gone)
  /\ UNCHANGED <<diskVars, cur, base, titled, list, loadVars, id, new, brev, payload, seen, cut,
                 raced, mixed, tainted>>

\* The reply that the refused send takes off: none if the chunks of another
\* stream have got into it, else the last message, whosever it is by then.
Pop(w) ==
  \/ UNCHANGED <<shown, tail, dropped>>
  \/ tail[w] /\ tail' = [tail EXCEPT ![w] = FALSE] /\ UNCHANGED <<shown, dropped>>
  \/ /\ ~tail[w] /\ UNCHANGED tail
     /\ \E m \in shown[w] : shown' = [shown EXCEPT ![w] = @ \ {m}] /\ TakenOff(w, {m})

\* startStream has failed (when it succeeds nothing happens here): the catch of
\* sendMessage, which ends whatever turn the window has under way by now.
Refused(w, t) ==
  /\ t \in starting[w]
  /\ starting' = [starting EXCEPT ![w] = @ \ {t}]
  /\ streaming' = [streaming EXCEPT ![w] = NoTurn]
  /\ \/ streaming[w] = NoTurn /\ UNCHANGED taskVars
     \/ streaming[w] # NoTurn /\ End(streaming[w])
  /\ Pop(w)
  /\ UNCHANGED <<diskVars, cur, base, titled, list, loadVars, acts, raced, mixed, tainted>>

\* ai:error, which takes an empty reply off, or stopGeneration, which does not:
\* nothing is saved.
Stop(w) ==
  /\ streaming[w] # NoTurn
  /\ streaming' = [streaming EXCEPT ![w] = NoTurn]
  /\ End(streaming[w])
  /\ tail' \in {tail, [tail EXCEPT ![w] = FALSE]}
  /\ UNCHANGED <<diskVars, cur, base, shown, titled, starting, list, loadVars, acts, ghostVars>>

\* The save call leaves the window, with what the window shows now.
SendSave(t, w) ==
  /\ pc' = [pc EXCEPT ![t] = "sent"]
  /\ payload' = [payload EXCEPT ![t] = shown[w]]
  /\ brev' = [brev EXCEPT ![t] = base[w]]
  /\ cut' = [cut EXCEPT ![t] = dropped[w]]
  /\ tainted' = [tainted EXCEPT ![t] = mixed[w]]

\* ai:done, of this window's stream or, while its start is pending, of another:
\* persistConversation up to its first await, which is that of an id or of a
\* title when there is none yet.
Done(w) ==
  /\ streaming[w] # NoTurn
  /\ streaming' = [streaming EXCEPT ![w] = NoTurn]
  /\ tail' = [tail EXCEPT ![w] = FALSE]
  /\ LET t == streaming[w]
     IN \/ shown[w] = {} /\ End(t) /\ UNCHANGED tainted
        \/ /\ shown[w] # {} /\ cur[w] = 0 /\ pc' = [pc EXCEPT ![t] = "id"]
           /\ UNCHANGED <<id, payload, brev, cut, tainted, win, new, seen>>
        \/ /\ shown[w] # {} /\ cur[w] # 0 /\ id' = [id EXCEPT ![t] = cur[w]]
           /\ \/ ~titled[w] /\ pc' = [pc EXCEPT ![t] = "title"] /\ UNCHANGED <<payload, brev, cut, tainted>>
              \/ titled[w] /\ SendSave(t, w)
           /\ UNCHANGED <<win, new, seen>>
  /\ UNCHANGED <<diskVars, cur, base, shown, titled, starting, list, loadVars, acts, raced, mixed, dropped>>

\* Mutant: an id that another task has got as well.
IdGivenAgain(t) ==
  /\ pc[t] = "id"
  /\ ids < MaxConv /\ ids' = ids
  /\ cur' = [cur EXCEPT ![win[t]] = ids + 1]
  /\ base' = [base EXCEPT ![win[t]] = 0]
  /\ id' = [id EXCEPT ![t] = ids + 1]
  /\ new' = [new EXCEPT ![t] = TRUE]
  /\ pc' = [pc EXCEPT ![t] = "title"]
  /\ Switched(win[t], {t})
  /\ UNCHANGED <<rev, turns, shown, titled, streaming, sendVars, list, loadVars, win, brev, payload, seen,
                 cut, acts, raced, tainted, dropped>>

\* generateId has answered: the window's conversation is the new one.  A title
\* is generated unless the window shows nothing any more.
IdGiven(t) ==
  /\ pc[t] = "id"
  /\ ids < MaxConv /\ ids' = ids + 1
  /\ cur' = [cur EXCEPT ![win[t]] = ids + 1]
  /\ base' = [base EXCEPT ![win[t]] = 0]
  /\ id' = [id EXCEPT ![t] = ids + 1]
  /\ new' = [new EXCEPT ![t] = TRUE]
  /\ \/ /\ shown[win[t]] # {} /\ pc' = [pc EXCEPT ![t] = "title"]
        /\ UNCHANGED <<titled, payload, brev>>
     \/ /\ shown[win[t]] = {} /\ pc' = [pc EXCEPT ![t] = "sent"]
        /\ titled' = [titled EXCEPT ![win[t]] = TRUE] /\ payload' = [payload EXCEPT ![t] = {}]
        /\ brev' = [brev EXCEPT ![t] = 0]
  /\ Switched(win[t], {t})
  /\ UNCHANGED <<rev, turns, shown, streaming, sendVars, list, loadVars, win, seen, cut, acts, raced,
                 tainted, dropped>>

\* generateTitleWithAI or generateTitle has answered.
TitleGiven(t) ==
  /\ pc[t] = "title"
  /\ titled' = [titled EXCEPT ![win[t]] = TRUE]
  /\ SendSave(t, win[t])
  /\ UNCHANGED <<diskVars, cur, base, shown, streaming, sendVars, list, loadVars, win, id, new, seen, acts,
                 raced, mixed, dropped>>

\* Mutant: the save never says what it expects.
NothingExpected(k) == 0

\* The revision the save expects; 0: none.
Expected(k) == IF k \in Meta \/ new[k] THEN 0 ELSE brev[k]

\* Save loads the file and compares.
Check(k) ==
  /\ pc[k] = "sent"
  /\ seen' = [seen EXCEPT ![k] = rev[id[k]]]
  /\ pc' = [pc EXCEPT ![k] =
       IF Expected(k) # 0 /\ rev[id[k]] \notin {0, Expected(k)} THEN "conflict" ELSE "checked"]
  /\ UNCHANGED <<diskVars, windowVars, sendVars, list, loadVars, win, id, new, brev, payload, cut, acts,
                 ghostVars>>

\* Save writes the file.
Write(k) ==
  /\ pc[k] = "checked"
  /\ rev' = [rev EXCEPT ![id[k]] = seen[k] + 1]
  /\ turns' = [turns EXCEPT ![id[k]] = payload[k]]
  /\ raced' = [raced EXCEPT ![id[k]] = @ \/ rev[id[k]] # seen[k]]
  /\ pc' = [pc EXCEPT ![k] = "written"]
  /\ UNCHANGED <<ids, windowVars, sendVars, list, loadVars, win, id, new, brev, payload, seen, cut, acts,
                 mixed, tainted, dropped>>

\* A call fails (an id, a title, the save, the fork): the window only logs it.
SaveFails(k) ==
  /\ pc[k] \in {"id", "title", "sent", "conflict"} /\ End(k)
  /\ UNCHANGED <<diskVars, windowVars, sendVars, list, loadVars, acts, ghostVars>>

\* The other windows get conversation:saved.
Announce(w, c) == inbox' = [v \in Window |-> IF v = w THEN inbox[v] ELSE inbox[v] \cup {c}]

\* The save was successful: the revision of the window is the next one.
Answered(t) ==
  /\ pc[t] = "written" /\ t \in Turn
  /\ base' = [base EXCEPT ![win[t]] = brev[t] + 1]
  /\ Announce(win[t], id[t]) /\ End(t)
  /\ UNCHANGED <<diskVars, cur, shown, titled, streaming, sendVars, list, asked, loaded, acts, ghostVars>>

\* After a conflict the messages go to a conversation of their own.
Fork(t) ==
  /\ pc[t] = "conflict"
  /\ ids < MaxConv /\ ids' = ids + 1
  /\ id' = [id EXCEPT ![t] = ids + 1]
  /\ payload' = [payload EXCEPT ![t] = shown[win[t]]]
  /\ rev' = [rev EXCEPT ![ids + 1] = 1]
  /\ turns' = [turns EXCEPT ![ids + 1] = shown[win[t]]]
  /\ pc' = [pc EXCEPT ![t] = "forked"]
  /\ UNCHANGED <<windowVars, sendVars, list, loadVars, win, new, brev, seen, cut, acts, ghostVars>>

ForkAnswered(t) ==
  /\ pc[t] = "forked"
  /\ cur' = [cur EXCEPT ![win[t]] = id[t]]
  /\ base' = [base EXCEPT ![win[t]] = 1]
  /\ titled' = [titled EXCEPT ![win[t]] = TRUE]
  /\ mixed' = [mixed EXCEPT ![win[t]] = @ \/ Out(win[t]) # {t}]
  /\ Announce(win[t], id[t]) /\ End(t)
  /\ UNCHANGED <<diskVars, shown, streaming, sendVars, list, asked, loaded, acts, raced, tainted, dropped>>

-----------------------------------------------------------------------------
(* What a window shows                                                     *)

\* The event of another window: the sidebar reads the list again, and a window
\* that is not streaming loads the conversation that it shows.
Deliver(w, c) ==
  /\ c \in inbox[w]
  /\ inbox' = [inbox EXCEPT ![w] = @ \ {c}]
  /\ list' = IF w \in Sidebar THEN [list EXCEPT ![w] = turns] ELSE list
  /\ asked' = IF cur[w] = c /\ streaming[w] = NoTurn THEN [asked EXCEPT ![w] = @ \cup {c}] ELSE asked
  /\ UNCHANGED <<diskVars, windowVars, sendVars, loaded, taskVars, acts, ghostVars>>

\* Load reads the file; without one it fails.
Read(w, c) ==
  /\ c \in asked[w]
  /\ asked' = [asked EXCEPT ![w] = @ \ {c}]
  /\ loaded' = IF rev[c] = 0 THEN loaded
               ELSE [loaded EXCEPT ![w] = @ \cup {[id |-> c, rev |-> rev[c], turns |-> turns[c]]}]
  /\ UNCHANGED <<diskVars, windowVars, sendVars, list, inbox, taskVars, acts, ghostVars>>

\* Other messages in window w: nothing of them is taken off yet.
Replaced(w, ts) ==
  /\ shown' = [shown EXCEPT ![w] = ts]
  /\ tail' = [tail EXCEPT ![w] = FALSE]
  /\ dropped' = [dropped EXCEPT ![w] = {}]

\* The answer replaces the messages, whatever the window does by then.
Loaded(w, l) ==
  /\ l \in loaded[w]
  /\ loaded' = [loaded EXCEPT ![w] = @ \ {l}]
  /\ cur' = [cur EXCEPT ![w] = l.id]
  /\ base' = [base EXCEPT ![w] = l.rev]
  /\ Replaced(w, l.turns)
  /\ titled' = [titled EXCEPT ![w] = TRUE]
  /\ Switched(w, {})
  /\ UNCHANGED <<diskVars, streaming, starting, list, inbox, asked, taskVars, acts, raced, tainted>>

\* The user selects a conversation: in the sidebar, which makes it the current
\* one before it is loaded, or in the history of the chat.
Select(w, c) ==
  /\ acts < MaxAct /\ acts' = acts + 1
  /\ rev[c] # 0 /\ asked' = [asked EXCEPT ![w] = @ \cup {c}]
  /\ \/ cur' = [cur EXCEPT ![w] = c] /\ mixed' = [mixed EXCEPT ![w] = TRUE]
     \/ UNCHANGED <<cur, mixed>>
  /\ UNCHANGED <<diskVars, base, shown, titled, streaming, sendVars, list, inbox, loaded, taskVars,
                 raced, tainted, dropped>>

\* A new conversation.  The view of the main window drops the messages and
\* keeps the revision; that of the companion window clears both, but neither
\* while it is streaming.
NewConversation(w) ==
  /\ acts < MaxAct /\ acts' = acts + 1
  /\ cur' = [cur EXCEPT ![w] = 0]
  /\ titled' = [titled EXCEPT ![w] = FALSE]
  /\ \/ Replaced(w, {}) /\ UNCHANGED base
     \/ streaming[w] = NoTurn /\ Replaced(w, {}) /\ base' = [base EXCEPT ![w] = 0]
     \/ streaming[w] # NoTurn /\ UNCHANGED <<shown, tail, dropped, base>>
  /\ Switched(w, {})
  /\ UNCHANGED <<diskVars, streaming, starting, list, loadVars, taskVars, raced, tainted>>

-----------------------------------------------------------------------------
(* Saves that carry no expected revision                                   *)

MetaSave(m, w, c, ts) ==
  /\ acts < MaxAct /\ acts' = acts + 1
  /\ pc[m] = "unused"
  /\ pc' = [pc EXCEPT ![m] = "sent"]
  /\ win' = [win EXCEPT ![m] = w]
  /\ id' = [id EXCEPT ![m] = c]
  /\ payload' = [payload EXCEPT ![m] = ts]
  /\ UNCHANGED <<diskVars, windowVars, sendVars, list, loadVars, new, brev, seen, cut, ghostVars>>

\* UpdateTitle loads the conversation and saves it (like Delete and Restore).
StartRename(m, w) ==
  m \in Rename /\ cur[w] # 0 /\ rev[cur[w]] # 0 /\ MetaSave(m, w, cur[w], turns[cur[w]])

\* The sidebar saves the conversation as it has listed it.
StartSoftSave(m, w, c) ==
  m \in SoftSave /\ list[w][c] # {} /\ MetaSave(m, w, c, list[w][c])

\* The window has the title; the sidebar reads the list again.
MetaAnswered(m) ==
  /\ m \in Meta /\ pc[m] = "written" /\ End(m)
  /\ list' = IF m \in SoftSave THEN [list EXCEPT ![win[m]] = turns] ELSE list
  /\ titled' = IF m \in Rename THEN [titled EXCEPT ![win[m]] = TRUE] ELSE titled
  /\ UNCHANGED <<diskVars, cur, base, shown, streaming, sendVars, loadVars, acts, ghostVars>>

-----------------------------------------------------------------------------
TurnStep(t) == IdGiven(t) \/ TitleGiven(t) \/ Answered(t) \/ Fork(t) \/ ForkAnswered(t)
SaveStep(k) == Check(k) \/ Write(k) \/ SaveFails(k)

Next ==
  \/ \E w \in Window : \/ \E t \in Turn : Send(w, t) \/ Refused(w, t)
                       \/ Stop(w) \/ Done(w) \/ NewConversation(w)
                       \/ \E c \in Conv : Deliver(w, c) \/ Read(w, c) \/ Select(w, c)
                       \/ \E l \in loaded[w] : Loaded(w, l)
                       \/ \E m \in Meta : StartRename(m, w) \/ \E c \in Conv : StartSoftSave(m, w, c)
  \/ \E t \in Turn : TurnStep(t)
  \/ \E k \in Task : SaveStep(k)
  \/ \E m \in Meta : MetaAnswered(m)

Spec == Init /\ [][Next]_vars

-----------------------------------------------------------------------------
Content == SUBSET (Turn \cup {Old})
Places == {"unused", "streaming", "id", "title", "sent", "checked", "written", "conflict", "forked", "ended"}

DiskTyped ==
  /\ rev \in [Conv -> Nat] /\ turns \in [Conv -> Content] /\ ids \in Conv
  /\ raced \in [Conv -> BOOLEAN] /\ acts \in 0..MaxAct

WindowsTyped ==
  /\ cur \in [Window -> 0..ids] /\ base \in [Window -> Nat] /\ shown \in [Window -> Content]
  /\ titled \in [Window -> BOOLEAN] /\ streaming \in [Window -> Turn \cup {NoTurn}]
  /\ starting \in [Window -> SUBSET Turn] /\ tail \in [Window -> BOOLEAN]
  /\ mixed \in [Window -> BOOLEAN] /\ dropped \in [Window -> Content]

LoadsTyped ==
  /\ list \in [Window -> [Conv -> Content]]
  /\ inbox \in [Window -> SUBSET Conv] /\ asked \in [Window -> SUBSET Conv]
  /\ \A w \in Window : \A l \in loaded[w] : l.id \in Conv /\ l.rev \in Nat /\ l.turns \in Content

TasksTyped ==
  /\ pc \in [Task -> Places] /\ win \in [Task -> Window \cup {NoWindow}] /\ id \in [Task -> 0..ids]
  /\ new \in [Task -> BOOLEAN] /\ brev \in [Task -> Nat] /\ payload \in [Task -> Content]
  /\ seen \in [Task -> Nat] /\ tainted \in [Task -> BOOLEAN]
  /\ cut \in [Task -> Content]

\* Every variable has its type; the ids in use have been given out.
TypeOK == DiskTyped /\ WindowsTyped /\ LoadsTyped /\ TasksTyped

\* "stale + CAS/fork, no silent overwrite any more": a turn that was saved stays
\* in its conversation, at least as long as no window switches.
NoSilentOverwrite ==
  [][(\A w \in Window : ~mixed[w]) => \A c \in Conv : turns[c] \subseteq turns'[c]]_vars

\* The saves that may overwrite what they have not seen: those of the sidebar
\* and of a rename, which expect no revision; the first ones of a conversation
\* and those of a window that knows no revision; and those that a window sends
\* with a revision that may be another conversation's, since what it had been
\* showing was replaced, or named anew by a selection, and not loaded since, or
\* loaded while a save of its own was out.
Unguarded(k) == k \in Meta \/ new[k] \/ brev[k] = 0 \/ tainted[k]

(* Whatever the order of the saves, forks, events, loads and refused sends of
   the windows, a turn that was saved disappears from its conversation by such
   a save only, or when two saves have met between the comparison and the
   write, or because the window that saves had taken it off its messages itself
   when the save was sent: by a send that was refused after the messages had
   been replaced, or by one that exceeded what a window retains.            *)
SavedTurnsStay ==
  [][\A c \in Conv : \A m \in turns[c] \ turns'[c] :
       raced'[c] \/ \E k \in Task : /\ pc[k] = "checked" /\ pc'[k] = "written" /\ id[k] = c
                                    /\ Unguarded(k) \/ m \in cut[k]]_vars
=============================================================================
