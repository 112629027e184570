------------------------------ MODULE AIStream ------------------------------
(***************************************************************************)
(* AI chat streaming, from the chat store of each webview                  *)
(* (frontend/src/stores/ai.ts) through the Wails binding to the stream     *)
(* goroutines of AIService (services/ai_service.go).                       *)
(*                                                                         *)
(* A CALL is one sendMessage of one window: it sets the backend's          *)
(* configuration (not awaited) and asks for StartStream (awaited).  The    *)
(* call also names the stream StartStream creates and the assistant        *)
(* message the window appends, since each call makes at most one of each.  *)
(* Every binding call runs in a goroutine of its own, so calls of the same *)
(* window execute in any order; events reach a window in emission order.   *)
(* The windows are in chat mode: they ignore ai:tool_calls.                *)
(***************************************************************************)
EXTENDS Naturals, Sequences, FiniteSets

CONSTANTS
  Windows,      \* the webviews: the main window and the AI companion window
  Calls,        \* the sends the model allows (bound)
  MaxChunks,    \* chunks one stream may emit (bound)
  MaxLag,       \* events a window may be behind the backend (bound)
  None          \* no stream, no message

ASSUME StreamAssumption ==
  /\ MaxChunks \in Nat
  /\ MaxLag \in Nat \ {0}
  /\ None \notin Calls

VARIABLES
  \* AIService
  active,       \* the stream whose streamCancel is in a.cancel, or None;
                \* a.activeStreamID is written with it and is not kept twice
  configured,   \* a.config has an API key
  pc,           \* per call: where StartStream and its goroutine are
  cancelled,    \* per call: its context has been cancelled
  chunks,       \* per call: how many chunks its stream has emitted
  \* the binding
  reply,        \* per call: the answer of StartStream on its way back
  stop,         \* per window: where its StopStream call is
  queue,        \* per window: the events not delivered yet
  \* the chat store of each window
  caller,       \* per call: the window that sent it, or None
  streaming,    \* aiState.streaming
  busy,         \* aiState.globalStreamBusy
  activeId,     \* aiState.activeStreamId
  pending       \* pendingAssistantMessage: the call whose message it is

backVars   == <<active, configured, pc, cancelled, chunks>>
bindVars   == <<reply, stop, queue>>
windowVars == <<caller, streaming, busy, activeId, pending>>
vars == <<backVars, bindVars, windowVars>>

-----------------------------------------------------------------------------
(* StartStream and its goroutine, step by step:
     unused    the call has not been made
     sent      the binding call is in flight
     claimed   StartStream holds the slot; ai:stream-busy=true not emitted
     running   the goroutine is in streamWithEvents
     ended     it has emitted ai:done or ai:error; its defer has not run
     idle      the defer found no other stream; busy=false not emitted
     over      the goroutine has returned, or StartStream was refused      *)
Stages == {"unused", "sent", "claimed", "running", "ended", "idle", "over"}

Events == [type : {"busy", "idle"}] \cup
          [type : {"chunk", "end"}, stream : Calls]

\* Emit reaches every webview (emitAIStreamEvent).
Emit(e) ==
  /\ \A w \in Windows : Len(queue[w]) < MaxLag
  /\ queue' = [w \in Windows |-> Append(queue[w], e)]

Init ==
  /\ active = None
  /\ configured = FALSE
  /\ pc        = [k \in Calls |-> "unused"]
  /\ cancelled = [k \in Calls |-> FALSE]
  /\ chunks    = [k \in Calls |-> 0]
  /\ reply  = [k \in Calls |-> "none"]
  /\ stop   = [w \in Windows |-> "none"]
  /\ queue  = [w \in Windows |-> <<>>]
  /\ caller    = [k \in Calls |-> None]
  /\ streaming = [w \in Windows |-> FALSE]
  /\ busy      = [w \in Windows |-> FALSE]
  /\ activeId  = [w \in Windows |-> None]
  /\ pending   = [w \in Windows |-> None]

-----------------------------------------------------------------------------
(* The backend.                                                            *)

\* The SetConfig of a send stores the key it fetched from the settings.  It is
\* not awaited; that a later one replaces the configuration is not modelled.
SetConfig ==
  /\ ~configured
  /\ \E k \in Calls : pc[k] # "unused"
  /\ configured' = TRUE
  /\ UNCHANGED <<active, pc, cancelled, chunks>>
  /\ UNCHANGED bindVars
  /\ UNCHANGED windowVars

\* StartStream fails: without a key in its snapshot, or because the slot is
\* taken (ErrStreamBusy).
StartRefused(k) ==
  /\ pc[k] = "sent"
  /\ ~configured \/ active # None
  /\ pc' = [pc EXCEPT ![k] = "over"]
  /\ reply' = [reply EXCEPT ![k] = "refused"]
  /\ UNCHANGED <<active, configured, cancelled, chunks>>
  /\ UNCHANGED <<stop, queue>>
  /\ UNCHANGED windowVars

\* Mutant: StartStream does not look whether the slot is taken.
StartClaimUnchecked(k) ==
  /\ pc[k] = "sent"
  /\ configured
  /\ active' = k
  /\ pc' = [pc EXCEPT ![k] = "claimed"]
  /\ UNCHANGED <<configured, cancelled, chunks>>
  /\ UNCHANGED bindVars
  /\ UNCHANGED windowVars

\* StartStream takes the slot under a.mu.
StartClaim(k) ==
  /\ pc[k] = "sent"
  /\ configured
  /\ active = None
  /\ active' = k
  /\ pc' = [pc EXCEPT ![k] = "claimed"]
  /\ UNCHANGED <<configured, cancelled, chunks>>
  /\ UNCHANGED bindVars
  /\ UNCHANGED windowVars

\* StartStream, out of the lock, announces the stream, launches the goroutine
\* and returns the stream id.
StartAnnounce(k) ==
  /\ pc[k] = "claimed"
  /\ Emit([type |-> "busy"])
  /\ pc' = [pc EXCEPT ![k] = "running"]
  /\ reply' = [reply EXCEPT ![k] = "started"]
  /\ UNCHANGED <<active, configured, cancelled, chunks>>
  /\ UNCHANGED <<stop>>
  /\ UNCHANGED windowVars

\* streamWithEvents emits a chunk.  Data already buffered is still parsed
\* after the context was cancelled.
StreamChunk(k) ==
  /\ pc[k] = "running"
  /\ chunks[k] < MaxChunks
  /\ chunks' = [chunks EXCEPT ![k] = @ + 1]
  /\ Emit([type |-> "chunk", stream |-> k])
  /\ UNCHANGED <<active, configured, pc, cancelled>>
  /\ UNCHANGED <<reply, stop>>
  /\ UNCHANGED windowVars

\* streamWithEvents returns; the goroutine emits ai:done or ai:error, which the
\* windows handle alike.  A cancelled context makes the request fail unless its
\* answer was already complete, and any stream may fail by itself.
StreamEnd(k) ==
  /\ pc[k] = "running"
  /\ pc' = [pc EXCEPT ![k] = "ended"]
  /\ Emit([type |-> "end", stream |-> k])
  /\ UNCHANGED <<active, configured, cancelled, chunks>>
  /\ UNCHANGED <<reply, stop>>
  /\ UNCHANGED windowVars

\* Mutant: the defer clears a.cancel whoever owns it (the bug N-52 repaired).
ReleasedByAnyone(k) == None

\* What the goroutine's defer leaves in a.cancel: it clears its own
\* streamCancel only (N-52).
Released(k) == IF active = k THEN None ELSE active

\* Mutant: busy=false is announced only by the stream that freed the slot.
StreamCleanupOwner(k) ==
  /\ pc[k] = "ended"
  /\ active' = Released(k)
  /\ pc' = [pc EXCEPT ![k] = IF active = k THEN "idle" ELSE "over"]
  /\ UNCHANGED <<configured, cancelled, chunks>>
  /\ UNCHANGED bindVars
  /\ UNCHANGED windowVars

\* The deferred cleanup, inside the lock.
StreamCleanup(k) ==
  /\ pc[k] = "ended"
  /\ active' = Released(k)
  /\ pc' = [pc EXCEPT ![k] = IF active' = None THEN "idle" ELSE "over"]
  /\ UNCHANGED <<configured, cancelled, chunks>>
  /\ UNCHANGED bindVars
  /\ UNCHANGED windowVars

\* Mutant: the deferred cleanup announces nothing.
StreamIdleSilent(k) ==
  /\ pc[k] = "idle"
  /\ pc' = [pc EXCEPT ![k] = "over"]
  /\ UNCHANGED <<active, configured, cancelled, chunks>>
  /\ UNCHANGED bindVars
  /\ UNCHANGED windowVars

\* The deferred cleanup, after the unlock: the slot was free when it looked.
StreamIdle(k) ==
  /\ pc[k] = "idle"
  /\ pc' = [pc EXCEPT ![k] = "over"]
  /\ Emit([type |-> "idle"])
  /\ UNCHANGED <<active, configured, cancelled, chunks>>
  /\ UNCHANGED <<reply, stop>>
  /\ UNCHANGED windowVars

\* StopStream, inside the lock: cancel whatever stream holds the slot.
StopCancel(w) ==
  /\ stop[w] = "sent"
  /\ IF active = None
     THEN /\ stop' = [stop EXCEPT ![w] = "done"]
          /\ UNCHANGED cancelled
     ELSE /\ stop' = [stop EXCEPT ![w] = "emit"]
          /\ cancelled' = [cancelled EXCEPT ![active] = TRUE]
  /\ active' = None
  /\ UNCHANGED <<configured, pc, chunks>>
  /\ UNCHANGED <<reply, queue>>
  /\ UNCHANGED windowVars

\* StopStream, after the unlock.
StopAnnounce(w) ==
  /\ stop[w] = "emit"
  /\ stop' = [stop EXCEPT ![w] = "done"]
  /\ Emit([type |-> "idle"])
  /\ UNCHANGED backVars
  /\ UNCHANGED <<reply>>
  /\ UNCHANGED windowVars

-----------------------------------------------------------------------------
(* The chat store of a window.                                             *)

UnusedCalls == {k \in Calls : pc[k] = "unused"}
NextCall == CHOOSE k \in UnusedCalls : TRUE

\* sendMessage up to its await: optimistic flags, a new assistant message, and
\* the two binding calls.  activeStreamId keeps its old value.
Send(w) ==
  /\ UnusedCalls # {}
  /\ ~streaming[w]
  /\ ~busy[w]
  /\ streaming' = [streaming EXCEPT ![w] = TRUE]
  /\ busy' = [busy EXCEPT ![w] = TRUE]
  /\ pending' = [pending EXCEPT ![w] = NextCall]
  /\ caller' = [caller EXCEPT ![NextCall] = w]
  /\ pc' = [pc EXCEPT ![NextCall] = "sent"]
  /\ UNCHANGED <<active, configured, cancelled, chunks>>
  /\ UNCHANGED <<reply, stop, queue, activeId>>

\* Mutant: the window stores its own id in place of the stream's.
StartedWrongId(k) ==
  /\ reply[k] = "started"
  /\ reply' = [reply EXCEPT ![k] = "none"]
  /\ activeId' = [activeId EXCEPT ![caller[k]] = caller[k]]
  /\ UNCHANGED backVars
  /\ UNCHANGED <<stop, queue>>
  /\ UNCHANGED <<caller, streaming, busy, pending>>

\* sendMessage after its await: remember the stream id.
Started(k) ==
  /\ reply[k] = "started"
  /\ reply' = [reply EXCEPT ![k] = "none"]
  /\ activeId' = [activeId EXCEPT ![caller[k]] = k]
  /\ UNCHANGED backVars
  /\ UNCHANGED <<stop, queue>>
  /\ UNCHANGED <<caller, streaming, busy, pending>>

\* sendMessage's catch block.
Refused(k) ==
  LET w == caller[k] IN
  /\ reply[k] = "refused"
  /\ reply' = [reply EXCEPT ![k] = "none"]
  /\ pending' = [pending EXCEPT ![w] = None]
  /\ streaming' = [streaming EXCEPT ![w] = FALSE]
  /\ activeId' = [activeId EXCEPT ![w] = None]
  /\ busy' = [busy EXCEPT ![w] = FALSE]
  /\ UNCHANGED backVars
  /\ UNCHANGED <<stop, queue, caller>>

\* The stop button is shown while the window streams; stopGeneration awaits
\* StopStream.
Stop(w) ==
  /\ streaming[w]
  /\ stop[w] = "none"
  /\ stop' = [stop EXCEPT ![w] = "sent"]
  /\ UNCHANGED backVars
  /\ UNCHANGED <<reply, queue>>
  /\ UNCHANGED windowVars

\* stopGeneration after its await.
Stopped(w) ==
  /\ stop[w] = "done"
  /\ stop' = [stop EXCEPT ![w] = "none"]
  /\ streaming' = [streaming EXCEPT ![w] = FALSE]
  /\ activeId' = [activeId EXCEPT ![w] = None]
  /\ pending' = [pending EXCEPT ![w] = None]
  /\ UNCHANGED backVars
  /\ UNCHANGED <<reply, queue, caller, busy>>

\* isOwnedStreamEvent
Owned(w, s) == IF activeId[w] # None THEN activeId[w] = s ELSE pending[w] # None

\* The ai:stream-busy listener.
OnBusy(w, e) ==
  /\ busy' = [busy EXCEPT ![w] = (e.type = "busy")]
  /\ UNCHANGED <<streaming, activeId, pending>>

\* The ai:chunk listener appends the chunk to the pending message.  The text
\* is not kept: Assembles says when it grows.
Assembles(w, s) == Owned(w, s) /\ pending[w] # None
OnChunk(w, e) == UNCHANGED <<streaming, busy, activeId, pending>>

\* The ai:done and ai:error listeners.  A window that is not streaming has
\* nothing to clear but activeStreamId.
OnEnd(w, e) ==
  /\ IF Owned(w, e.stream)
     THEN /\ pending' = [pending EXCEPT ![w] = None]
          /\ streaming' = [streaming EXCEPT ![w] = FALSE]
          /\ activeId' = [activeId EXCEPT ![w] = None]
     ELSE UNCHANGED <<pending, streaming, activeId>>
  /\ UNCHANGED <<busy>>

Deliver(w) ==
  /\ queue[w] # <<>>
  /\ LET e == Head(queue[w]) IN
       \/ e.type \in {"busy", "idle"} /\ OnBusy(w, e)
       \/ e.type = "chunk"            /\ OnChunk(w, e)
       \/ e.type = "end"              /\ OnEnd(w, e)
  /\ queue' = [queue EXCEPT ![w] = Tail(@)]
  /\ UNCHANGED backVars
  /\ UNCHANGED <<reply, stop, caller>>

-----------------------------------------------------------------------------
BackendStep ==
  \/ SetConfig
  \/ \E k \in Calls : \/ StartRefused(k)
                      \/ StartClaim(k)
                      \/ StartAnnounce(k)
                      \/ StreamChunk(k)
                      \/ StreamEnd(k)
                      \/ StreamCleanup(k)
                      \/ StreamIdle(k)
  \/ \E w \in Windows : StopCancel(w) \/ StopAnnounce(w)

WindowStep ==
  \/ \E w \in Windows : \/ Send(w)
                        \/ Stop(w)
                        \/ Stopped(w)
                        \/ Deliver(w)
  \/ \E k \in Calls : Started(k) \/ Refused(k)

Next == BackendStep \/ WindowStep

Spec == Init /\ [][Next]_vars

(* Goroutines are scheduled, the binding answers and delivers.  Nothing makes
   a user press a button, and nothing ends a stream the provider keeps open
   (aiStreamHTTPClient has no total timeout) unless it was cancelled.       *)
Fairness ==
  /\ WF_vars(SetConfig)
  /\ \A k \in Calls :
       /\ WF_vars(StartRefused(k) \/ StartClaim(k))
       /\ WF_vars(StartAnnounce(k))
       /\ WF_vars(cancelled[k] /\ StreamEnd(k))
       /\ WF_vars(StreamCleanup(k))
       /\ WF_vars(StreamIdle(k))
       /\ WF_vars(Started(k) \/ Refused(k))
  /\ \A w \in Windows :
       /\ WF_vars(StopCancel(w))
       /\ WF_vars(StopAnnounce(w))
       /\ WF_vars(Stopped(w))
       /\ WF_vars(Deliver(w))

FairSpec == Spec /\ Fairness

-----------------------------------------------------------------------------
TypeOK ==
  /\ active \in Calls \cup {None}
  /\ configured \in BOOLEAN
  /\ pc \in [Calls -> Stages]
  /\ cancelled \in [Calls -> BOOLEAN]
  /\ chunks \in [Calls -> 0..MaxChunks]
  /\ reply \in [Calls -> {"none", "started", "refused"}]
  /\ stop \in [Windows -> {"none", "sent", "emit", "done"}]
  /\ queue \in [Windows -> Seq(Events)]
  /\ caller \in [Calls -> Windows \cup {None}]
  /\ streaming \in [Windows -> BOOLEAN]
  /\ busy \in [Windows -> BOOLEAN]
  /\ activeId \in [Windows -> Calls \cup {None}]
  /\ pending \in [Windows -> Calls \cup {None}]

\* The streams that hold the user's provider and were not stopped.
Live(k) == pc[k] \in {"claimed", "running", "ended"} /\ ~cancelled[k]
LiveStreams == {k \in Calls : Live(k)}

(* StartStream's mutual exclusion across the windows (BUG-H1) together with
   N-52: whatever a late goroutine or a stop of another window does, there
   is at most one live stream and it is the one StopStream would cancel.    *)
LiveIsStoppable == \A k \in Calls : Live(k) <=> active = k

\* AIService offers one stream slot.
Slot == INSTANCE SingleStream WITH live <- LiveStreams
ImplementsSlot == Slot!SlotSpec

\* Nothing is in flight between the windows and the backend, and no goroutine
\* of a stream is left.
Quiescent ==
  /\ \A k \in Calls : pc[k] \in {"unused", "over"} /\ reply[k] = "none"
  /\ \A w \in Windows : stop[w] = "none" /\ queue[w] = <<>>

(* globalStreamBusy disables Send.  Its events are emitted outside the lock
   and may overtake one another, but once everything is quiet no window is
   left locked out by a stream that no longer exists.                       *)
QuietMeansSendable == Quiescent => \A w \in Windows : ~busy[w]

(* The stream-busy events of the last stream reach every window: if the slot
   stays free, Send is eventually enabled everywhere for good.              *)
SendEventuallyEnabled ==
  <>[](active = None) => <>[](\A w \in Windows : ~busy[w])

(* What the comments of the store claim: a window assembles text of its own
   stream only ("ignore foreign streams").  The code does not guarantee it. *)
OwnTextOnly ==
  \A w \in Windows :
    LET q == queue[w] IN
    q # <<>> /\ Head(q).type = "chunk" /\ Assembles(w, Head(q).stream)
      => pending[w] = Head(q).stream

=============================================================================
