--------------------------- MODULE AIStreamProofs ---------------------------
(***************************************************************************)
(* Theorems about AIStream for any sets of windows and sends:              *)
(*   - its variables keep their types;                                     *)
(*   - at most one stream is live, and StopStream reaches it;              *)
(*   - AIService implements the one-slot specification SingleStream;       *)
(*   - when nothing is in flight no window is locked out of Send.          *)
(***************************************************************************)
EXTENDS AIStream, SequenceTheorems, TLAPS

-----------------------------------------------------------------------------
(* The inductive invariants.                                               *)

\* Only a stream that took the slot is ever cancelled.  Without it a cancelled
\* call could still claim the slot and never be live.
CancelledClaimed == \A k \in Calls : cancelled[k] => pc[k] \notin {"unused", "sent"}

SlotInv == LiveIsStoppable /\ CancelledClaimed

\* Some goroutine still owes the windows an idle event, or will hand that duty
\* to the stream that holds the slot.
IdleOwed ==
  \/ \E k \in Calls : pc[k] \in {"claimed", "running", "ended", "idle"}
  \/ \E w \in Windows : stop[w] = "emit"

\* A send of the window waits for StartStream, or for its catch block.
Optimistic(w) ==
  \E k \in Calls : caller[k] = w /\ (pc[k] = "sent" \/ reply[k] = "refused")

\* The window will be busy once it has seen the events of q, whatever its flag
\* says now.
EndsBusy(q) ==
  \E i \in 1..Len(q) : /\ q[i].type = "busy"
                       /\ \A j \in 1..Len(q) : j > i => q[j].type # "idle"

HasIdle(q) == \E i \in 1..Len(q) : q[i].type = "idle"

\* A call that was not made has no answer on its way.
ReplyMade == \A k \in Calls : reply[k] # "none" => pc[k] # "unused"

\* Every busy flag, shown or on its way, is answered for.
BusyExplained ==
  \A w \in Windows :
    /\ EndsBusy(queue[w]) => IdleOwed
    /\ busy[w] /\ ~HasIdle(queue[w]) => IdleOwed \/ Optimistic(w)

-----------------------------------------------------------------------------
LEMMA EventQueue ==
  ASSUME NEW q \in Seq(Events), NEW e \in Events
  PROVE  Append(q, e) \in Seq(Events)
BY DEF Events

(* Every variable keeps its type: in particular a stream id stored by a
   window always names a stream, and a queue holds only events.             *)
THEOREM Typing == Spec => []TypeOK
<1>1. Init => TypeOK
  <2> SUFFICES ASSUME Init PROVE TypeOK
    OBVIOUS
  <2>1. queue \in [Windows -> Seq(Events)]
    BY DEF Init
  <2>2. chunks \in [Calls -> 0..MaxChunks]
    BY StreamAssumption DEF Init
  <2> QED
    BY <2>1, <2>2 DEF Init, TypeOK, Stages
<1>2. TypeOK /\ [Next]_vars => TypeOK'
  <2> SUFFICES ASSUME TypeOK, [Next]_vars PROVE TypeOK'
    OBVIOUS
  <2> USE StreamAssumption DEF TypeOK, Stages
  <2>e. ASSUME NEW e \in Events, Emit(e) PROVE queue' \in [Windows -> Seq(Events)]
    BY <2>e, EventQueue DEF Emit
  <2>1. CASE SetConfig
    BY <2>1 DEF SetConfig, bindVars, windowVars
  <2>2. ASSUME NEW k \in Calls, StartRefused(k) PROVE TypeOK'
    BY <2>2 DEF StartRefused, windowVars
  <2>3. ASSUME NEW k \in Calls, StartClaim(k) PROVE TypeOK'
    BY <2>3 DEF StartClaim, bindVars, windowVars
  <2>4. ASSUME NEW k \in Calls, StartAnnounce(k) PROVE TypeOK'
    <3>1. [type |-> "busy"] \in Events  BY DEF Events
    <3> QED  BY <2>4, <2>e, <3>1 DEF StartAnnounce, windowVars
  <2>5. ASSUME NEW k \in Calls, StreamChunk(k) PROVE TypeOK'
    <3>1. [type |-> "chunk", stream |-> k] \in Events  BY DEF Events
    <3> QED  BY <2>5, <2>e, <3>1 DEF StreamChunk, windowVars
  <2>6. ASSUME NEW k \in Calls, StreamEnd(k) PROVE TypeOK'
    <3>1. [type |-> "end", stream |-> k] \in Events  BY DEF Events
    <3> QED  BY <2>6, <2>e, <3>1 DEF StreamEnd, windowVars
  <2>7. ASSUME NEW k \in Calls, StreamCleanup(k) PROVE TypeOK'
    BY <2>7 DEF StreamCleanup, Released, bindVars, windowVars
  <2>8. ASSUME NEW k \in Calls, StreamIdle(k) PROVE TypeOK'
    <3>1. [type |-> "idle"] \in Events  BY DEF Events
    <3> QED  BY <2>8, <2>e, <3>1 DEF StreamIdle, windowVars
  <2>9. ASSUME NEW w \in Windows, StopCancel(w) PROVE TypeOK'
    BY <2>9 DEF StopCancel, windowVars
  <2>10. ASSUME NEW w \in Windows, StopAnnounce(w) PROVE TypeOK'
    <3>1. [type |-> "idle"] \in Events  BY DEF Events
    <3> QED  BY <2>10, <2>e, <3>1 DEF StopAnnounce, backVars, windowVars
  <2>11. ASSUME NEW w \in Windows, Send(w) PROVE TypeOK'
    <3>1. NextCall \in Calls  BY <2>11 DEF Send, NextCall, UnusedCalls
    <3> QED  BY <2>11, <3>1 DEF Send
  <2>12. ASSUME NEW w \in Windows, Stop(w) PROVE TypeOK'
    BY <2>12 DEF Stop, backVars, windowVars
  <2>13. ASSUME NEW w \in Windows, Stopped(w) PROVE TypeOK'
    BY <2>13 DEF Stopped, backVars
  <2>14. ASSUME NEW w \in Windows, Deliver(w) PROVE TypeOK'
    <3>1. queue[w] \in Seq(Events) /\ queue[w] # <<>>  BY <2>14 DEF Deliver
    <3>2. Tail(queue[w]) \in Seq(Events)  BY <3>1
    <3>3. queue' \in [Windows -> Seq(Events)]  BY <2>14, <3>2 DEF Deliver
    <3>4. Head(queue[w]) \in Events  BY <3>1
    <3>5. (/\ streaming \in [Windows -> BOOLEAN] /\ busy \in [Windows -> BOOLEAN]
           /\ activeId \in [Windows -> Calls \cup {None}]
           /\ pending \in [Windows -> Calls \cup {None}])'
      BY <2>14 DEF Deliver, OnBusy, OnChunk, OnEnd
    <3> QED  BY <2>14, <3>3, <3>5 DEF Deliver, backVars
  <2>15. ASSUME NEW k \in Calls, Started(k) PROVE TypeOK'
    BY <2>15 DEF Started, backVars
  <2>16. ASSUME NEW k \in Calls, Refused(k) PROVE TypeOK'
    BY <2>16 DEF Refused, backVars
  <2>17. CASE UNCHANGED vars
    BY <2>17 DEF vars, backVars, bindVars, windowVars
  <2> QED
    BY <2>1, <2>2, <2>3, <2>4, <2>5, <2>6, <2>7, <2>8, <2>9, <2>10, <2>11,
       <2>12, <2>13, <2>14, <2>15, <2>16, <2>17
       DEF Next, BackendStep, WindowStep
<1> QED
  BY <1>1, <1>2, PTL DEF Spec

-----------------------------------------------------------------------------
LEMMA SlotInvInit == Init => SlotInv
BY StreamAssumption DEF Init, SlotInv, LiveIsStoppable, Live, CancelledClaimed

LEMMA SlotInvNext == TypeOK /\ SlotInv /\ [Next]_vars => SlotInv'
<1> SUFFICES ASSUME TypeOK, SlotInv, [Next]_vars PROVE SlotInv'
  OBVIOUS
<1> USE StreamAssumption
    DEF TypeOK, Stages, SlotInv, LiveIsStoppable, Live, CancelledClaimed
\* The steps that leave the slot, the stages and the cancellations alone.
<1>e. ASSUME UNCHANGED <<active, pc, cancelled>> PROVE SlotInv'
  BY <1>e
<1>1. ASSUME NEW k \in Calls, StartRefused(k) PROVE SlotInv'
  BY <1>1 DEF StartRefused
<1>2. ASSUME NEW k \in Calls, StartClaim(k) PROVE SlotInv'
  BY <1>2 DEF StartClaim
<1>3. ASSUME NEW k \in Calls, StartAnnounce(k) PROVE SlotInv'
  BY <1>3 DEF StartAnnounce
<1>4. ASSUME NEW k \in Calls, StreamEnd(k) PROVE SlotInv'
  BY <1>4 DEF StreamEnd
<1>5. ASSUME NEW k \in Calls, StreamCleanup(k) PROVE SlotInv'
  BY <1>5 DEF StreamCleanup, Released
<1>6. ASSUME NEW k \in Calls, StreamIdle(k) PROVE SlotInv'
  BY <1>6 DEF StreamIdle
<1>7. ASSUME NEW w \in Windows, StopCancel(w) PROVE SlotInv'
  <2>0. active' = None /\ pc' = pc
    BY <1>7 DEF StopCancel
  <2>1. CASE active = None
    <3>1. cancelled' = cancelled  BY <1>7, <2>1 DEF StopCancel
    <3> QED  BY <2>0, <2>1, <3>1
  <2>2. CASE active # None
    <3>1. cancelled' = [cancelled EXCEPT ![active] = TRUE]
      BY <1>7, <2>2 DEF StopCancel
    <3>2. active \in Calls /\ Live(active)  BY <2>2
    <3>3. \A k \in Calls : cancelled'[k] <=> cancelled[k] \/ k = active
      BY <3>1, Zenon
    <3> QED  BY <2>0, <3>2, <3>3
  <2> QED  BY <2>1, <2>2
<1>8. ASSUME NEW w \in Windows, Send(w) PROVE SlotInv'
  <2>1. NextCall \in Calls /\ pc[NextCall] = "unused"
    BY <1>8 DEF Send, NextCall, UnusedCalls
  <2> QED  BY <1>8, <2>1 DEF Send
<1>9. CASE SetConfig \/ \E k \in Calls : StreamChunk(k)
  <2> UNCHANGED <<active, pc, cancelled>>
    BY <1>9 DEF SetConfig, StreamChunk
  <2> QED  BY <1>e
<1>10. CASE \/ UNCHANGED vars
            \/ \E w \in Windows : StopAnnounce(w) \/ Stop(w) \/ Stopped(w) \/ Deliver(w)
            \/ \E k \in Calls : Started(k) \/ Refused(k)
  <2> UNCHANGED backVars
    BY <1>10 DEF StopAnnounce, Stop, Stopped, Deliver, Started, Refused, vars
  <2> UNCHANGED <<active, pc, cancelled>>
    BY DEF backVars
  <2> QED  BY <1>e
<1> QED
  BY <1>1, <1>2, <1>3, <1>4, <1>5, <1>6, <1>7, <1>8, <1>9, <1>10
     DEF Next, BackendStep, WindowStep

(* StartStream, the goroutines' defer and StopStream keep a.cancel pointing at
   the one stream that runs and was not stopped: no second stream starts beside
   it, and a stop never misses it.                                          *)
THEOREM StoppableSlot == Spec => []LiveIsStoppable
<1>1. SlotInv => LiveIsStoppable
  BY DEF SlotInv
<1> QED
  BY <1>1, SlotInvInit, SlotInvNext, Typing, PTL DEF Spec

-----------------------------------------------------------------------------
(* AIService implements the specification of one stream slot: every step of
   the detailed model starts a stream in an empty slot, empties the slot, or
   leaves it alone.                                                         *)
THEOREM SlotRefinement == Spec => ImplementsSlot
<1>1. Init => Slot!SlotInit
  BY DEF Init, Slot!SlotInit, LiveStreams, Live
<1>2. /\ TypeOK /\ SlotInv
      /\ TypeOK' /\ SlotInv'
      /\ [Next]_vars
      => [Slot!SlotNext]_LiveStreams
  <2> SUFFICES ASSUME TypeOK, SlotInv, TypeOK', SlotInv', [Next]_vars
               PROVE  [Slot!SlotNext]_LiveStreams
    OBVIOUS
  <2>1. /\ active = None => LiveStreams = {}
        /\ active # None => active \in Calls /\ LiveStreams = {active}
    BY StreamAssumption DEF SlotInv, LiveIsStoppable, LiveStreams, TypeOK
  <2>2. (/\ active = None => LiveStreams = {}
         /\ active # None => active \in Calls /\ LiveStreams = {active})'
    BY StreamAssumption DEF SlotInv, LiveIsStoppable, LiveStreams, TypeOK
  <2>3. active' = active \/ active = None \/ active' = None
    BY DEF Next, BackendStep, WindowStep, vars, backVars, SetConfig,
           StartRefused, StartClaim, StartAnnounce, StreamChunk, StreamEnd,
           StreamCleanup, Released, StreamIdle, StopCancel, StopAnnounce, Send,
           Stop, Stopped, Deliver, Started, Refused
  <2>4. CASE active' = active
    BY <2>1, <2>2, <2>4
  <2>5. CASE active = None /\ active' # None
    BY <2>1, <2>2, <2>5 DEF Slot!SlotNext, Slot!Begin
  <2>6. CASE active # None /\ active' = None
    BY <2>1, <2>2, <2>6 DEF Slot!SlotNext, Slot!Leave
  <2> QED
    BY <2>3, <2>4, <2>5, <2>6
<1> QED
  BY <1>1, <1>2, SlotInvInit, SlotInvNext, Typing, PTL
     DEF Spec, ImplementsSlot, Slot!SlotSpec

-----------------------------------------------------------------------------
(* Queues of events.                                                       *)

LEMMA AppendBusy ==
  ASSUME NEW q \in Seq(Events), NEW e \in Events
  PROVE  /\ EndsBusy(Append(q, e)) => e.type = "busy" \/ EndsBusy(q)
         /\ e.type = "idle" => ~EndsBusy(Append(q, e)) /\ HasIdle(Append(q, e))
         /\ HasIdle(q) => HasIdle(Append(q, e))
<1> DEFINE r == Append(q, e)
<1>1. /\ Len(r) = Len(q) + 1 /\ Len(q) \in Nat
      /\ r[Len(q) + 1] = e
      /\ \A i \in 1..Len(q) : r[i] = q[i]
  OBVIOUS
<1> HIDE DEF r
<1>2. EndsBusy(r) => e.type = "busy" \/ EndsBusy(q)
  BY <1>1 DEF EndsBusy
<1>3. e.type = "idle" => ~EndsBusy(r) /\ HasIdle(r)
  BY <1>1 DEF EndsBusy, HasIdle
<1>4. HasIdle(q) => HasIdle(r)
  BY <1>1 DEF HasIdle
<1> QED
  BY <1>2, <1>3, <1>4 DEF r

LEMMA TailBusy ==
  ASSUME NEW q \in Seq(Events), q # <<>>
  PROVE  /\ EndsBusy(Tail(q)) => EndsBusy(q)
         /\ Head(q).type = "busy" /\ ~HasIdle(Tail(q)) => EndsBusy(q)
         /\ Head(q).type # "idle" /\ ~HasIdle(Tail(q)) => ~HasIdle(q)
<1> DEFINE r == Tail(q)
<1>1. /\ Len(r) = Len(q) - 1 /\ Len(q) \in Nat \ {0}
      /\ Head(q) = q[1]
      /\ \A i \in 1..(Len(q) - 1) : r[i] = q[i + 1]
  OBVIOUS
<1>2. \A i \in 2..Len(q) : i - 1 \in 1..(Len(q) - 1) /\ q[i] = r[i - 1]
  BY <1>1
<1> HIDE DEF r
<1>3. EndsBusy(r) => EndsBusy(q)
  <2> SUFFICES ASSUME NEW i \in 1..Len(r), r[i].type = "busy",
                      \A j \in 1..Len(r) : j > i => r[j].type # "idle"
               PROVE  EndsBusy(q)
    BY DEF EndsBusy
  <2>1. i + 1 \in 1..Len(q) /\ q[i + 1].type = "busy"
    BY <1>1
  <2>2. ASSUME NEW j \in 1..Len(q), j > i + 1 PROVE q[j].type # "idle"
    BY <1>1, <1>2, <2>2
  <2> QED  BY <2>1, <2>2 DEF EndsBusy
<1>4. q[1].type = "busy" /\ ~HasIdle(r) => EndsBusy(q)
  BY <1>1, <1>2 DEF EndsBusy, HasIdle
<1>5. q[1].type # "idle" /\ ~HasIdle(r) => ~HasIdle(q)
  BY <1>1, <1>2 DEF HasIdle
<1> QED
  BY <1>1, <1>3, <1>4, <1>5 DEF r

-----------------------------------------------------------------------------
BusyInv == BusyExplained /\ ReplyMade

LEMMA BusyInvInit == Init => BusyInv
BY DEF Init, BusyInv, BusyExplained, ReplyMade, EndsBusy

LEMMA ReplyMadeNext == TypeOK /\ ReplyMade /\ [Next]_vars => ReplyMade'
<1> SUFFICES ASSUME TypeOK, ReplyMade, [Next]_vars PROVE ReplyMade'
  OBVIOUS
<1> USE DEF TypeOK, Stages, ReplyMade
<1>1. ASSUME UNCHANGED <<pc, reply>> PROVE ReplyMade'
  BY <1>1
<1>2. ASSUME NEW k \in Calls,
             \/ StartRefused(k) \/ StartClaim(k) \/ StartAnnounce(k)
             \/ StreamEnd(k) \/ StreamCleanup(k) \/ StreamIdle(k)
      PROVE  ReplyMade'
  BY <1>2 DEF StartRefused, StartClaim, StartAnnounce, StreamEnd,
              StreamCleanup, StreamIdle, bindVars
<1>3. ASSUME NEW k \in Calls, Started(k) \/ Refused(k) PROVE ReplyMade'
  BY <1>3 DEF Started, Refused, backVars
<1>4. ASSUME NEW w \in Windows, Send(w) PROVE ReplyMade'
  BY <1>4 DEF Send, NextCall, UnusedCalls
<1>5. CASE \/ UNCHANGED vars \/ SetConfig
           \/ \E k \in Calls : StreamChunk(k)
           \/ \E w \in Windows : \/ StopCancel(w) \/ StopAnnounce(w)
                                 \/ Stop(w) \/ Stopped(w) \/ Deliver(w)
  <2> UNCHANGED <<pc, reply>>
    BY <1>5 DEF vars, backVars, bindVars, SetConfig, StreamChunk, StopCancel,
                StopAnnounce, Stop, Stopped, Deliver
  <2> QED  BY <1>1
<1> QED
  BY <1>2, <1>3, <1>4, <1>5 DEF Next, BackendStep, WindowStep

LEMMA BusyExplainedNext ==
  TypeOK /\ SlotInv /\ SlotInv' /\ TypeOK' /\ BusyInv /\ [Next]_vars => BusyExplained'
<1> SUFFICES ASSUME TypeOK, SlotInv, SlotInv', TypeOK', BusyInv, [Next]_vars
             PROVE  BusyExplained'
  OBVIOUS
\* While an idle event is owed there is nothing to explain.
<1>a. ASSUME IdleOwed' PROVE BusyExplained'
  BY <1>a DEF BusyExplained
\* An idle event at the end of every queue settles everything before it.
<1>b. ASSUME Emit([type |-> "idle"]) PROVE BusyExplained'
  <2>1. [type |-> "idle"] \in Events
    BY DEF Events
  <2>2. \A w \in Windows : queue[w] \in Seq(Events)
    BY DEF TypeOK
  <2>3. \A w \in Windows : ~EndsBusy(queue'[w]) /\ HasIdle(queue'[w])
    BY <1>b, <2>1, <2>2, AppendBusy DEF Emit
  <2> QED  BY <2>3 DEF BusyExplained
\* A step that keeps the flags and the events may change who explains them.
<1>c. ASSUME UNCHANGED <<queue, busy>>,
             IdleOwed => IdleOwed',
             \A w \in Windows : Optimistic(w) => IdleOwed' \/ Optimistic(w)'
      PROVE  BusyExplained'
  BY <1>c DEF BusyInv, BusyExplained
<1> USE DEF TypeOK, Stages
<1>1. ASSUME NEW k \in Calls, StartRefused(k) PROVE BusyExplained'
  <2>1. IdleOwed => IdleOwed'
    BY <1>1 DEF StartRefused, IdleOwed
  <2>2. \A w \in Windows : Optimistic(w) => Optimistic(w)'
    BY <1>1 DEF StartRefused, Optimistic, windowVars
  <2> QED  BY <1>1, <1>c, <2>1, <2>2 DEF StartRefused, windowVars
<1>2. ASSUME NEW k \in Calls,
             StartClaim(k) \/ StartAnnounce(k) \/ StreamChunk(k) \/ StreamEnd(k)
      PROVE  BusyExplained'
  <2> pc'[k] \in {"claimed", "running", "ended"}
    BY <1>2 DEF StartClaim, StartAnnounce, StreamChunk, StreamEnd
  <2> QED  BY <1>a DEF IdleOwed
<1>3. ASSUME NEW k \in Calls, StreamCleanup(k) PROVE BusyExplained'
  <2>1. CASE active' = None
    <3> pc'[k] = "idle"  BY <1>3, <2>1 DEF StreamCleanup
    <3> QED  BY <1>a DEF IdleOwed
  <2>2. CASE active' # None
    <3>1. PICK j \in Calls : active' = j
      BY <2>2
    <3>2. Live(j)'
      BY <3>1 DEF SlotInv, LiveIsStoppable
    <3> QED  BY <1>a, <3>2 DEF IdleOwed, Live
  <2> QED  BY <2>1, <2>2
<1>4. ASSUME NEW k \in Calls, StreamIdle(k) PROVE BusyExplained'
  BY <1>4, <1>b DEF StreamIdle
<1>5. ASSUME NEW w \in Windows, StopCancel(w) PROVE BusyExplained'
  <2>1. CASE active # None
    <3> stop'[w] = "emit"  BY <1>5, <2>1 DEF StopCancel
    <3> QED  BY <1>a DEF IdleOwed
  <2>2. CASE active = None
    <3>1. stop[w] = "sent" /\ stop' = [stop EXCEPT ![w] = "done"]
          /\ UNCHANGED <<pc, reply, caller, queue, busy>>
      BY <1>5, <2>2 DEF StopCancel, windowVars
    <3>2. IdleOwed => IdleOwed'
      BY <3>1 DEF IdleOwed
    <3> QED  BY <1>c, <3>1, <3>2 DEF Optimistic
  <2> QED  BY <2>1, <2>2
<1>6. ASSUME NEW w \in Windows, StopAnnounce(w) PROVE BusyExplained'
  BY <1>6, <1>b DEF StopAnnounce
<1>7. ASSUME NEW w \in Windows, Send(w) PROVE BusyExplained'
  <2>1. /\ NextCall \in Calls /\ pc[NextCall] = "unused"
        /\ UNCHANGED <<queue, reply, stop>>
        /\ pc' = [pc EXCEPT ![NextCall] = "sent"]
        /\ caller' = [caller EXCEPT ![NextCall] = w]
        /\ busy' = [busy EXCEPT ![w] = TRUE]
    BY <1>7 DEF Send, NextCall, UnusedCalls
  <2>2. IdleOwed => IdleOwed'
    BY <2>1 DEF IdleOwed
  <2>3. Optimistic(w)'
    BY <2>1 DEF Optimistic
  <2>4. \A v \in Windows : Optimistic(v) => Optimistic(v)'
    BY <2>1 DEF Optimistic, BusyInv, ReplyMade
  <2>5. \A v \in Windows \ {w} : busy'[v] = busy[v]
    BY <2>1
  <2> QED  BY <2>1, <2>2, <2>3, <2>4, <2>5 DEF BusyInv, BusyExplained
<1>8. ASSUME NEW w \in Windows, Stop(w) \/ Stopped(w) PROVE BusyExplained'
  <2>1. /\ UNCHANGED <<pc, reply, caller, queue, busy>>
        /\ \A v \in Windows : stop[v] = "emit" => stop'[v] = "emit"
    BY <1>8 DEF Stop, Stopped, backVars, windowVars
  <2> QED  BY <1>c, <2>1 DEF IdleOwed, Optimistic
<1>9. ASSUME NEW k \in Calls, Started(k) PROVE BusyExplained'
  <2>1. IdleOwed => IdleOwed'
    BY <1>9 DEF Started, IdleOwed, backVars
  <2>2. \A w \in Windows : Optimistic(w) => Optimistic(w)'
    BY <1>9 DEF Started, Optimistic, backVars
  <2> QED  BY <1>9, <1>c, <2>1, <2>2 DEF Started
<1>10. ASSUME NEW k \in Calls, Refused(k) PROVE BusyExplained'
  <2>1. IdleOwed => IdleOwed'
    BY <1>10 DEF Refused, IdleOwed, backVars
  <2>2. \A w \in Windows : w # caller[k] =>
            busy'[w] = busy[w] /\ (Optimistic(w) => Optimistic(w)')
    BY <1>10 DEF Refused, Optimistic, backVars
  <2>3. \A w \in Windows : w = caller[k] => ~busy'[w]
    BY <1>10 DEF Refused
  <2>4. queue' = queue
    BY <1>10 DEF Refused
  <2> QED  BY <2>1, <2>2, <2>3, <2>4 DEF BusyInv, BusyExplained
<1>11. ASSUME NEW w \in Windows, Deliver(w) PROVE BusyExplained'
  <2> DEFINE q == queue[w]
  <2>1. /\ q \in Seq(Events) /\ q # <<>>
        /\ queue' = [queue EXCEPT ![w] = Tail(q)]
        /\ UNCHANGED <<pc, reply, stop, caller>>
    BY <1>11 DEF Deliver, backVars
  <2>2. /\ IdleOwed => IdleOwed'
        /\ \A v \in Windows : Optimistic(v) => Optimistic(v)'
    BY <2>1 DEF IdleOwed, Optimistic
  <2>3. \A v \in Windows \ {w} : busy'[v] = busy[v] /\ queue'[v] = queue[v]
    BY <1>11, <2>1 DEF Deliver, OnBusy, OnChunk, OnEnd
  <2>4. /\ Head(q).type \notin {"busy", "idle"} => busy'[w] = busy[w]
        /\ Head(q).type = "idle" => ~busy'[w]
    BY <1>11 DEF Deliver, OnBusy, OnChunk, OnEnd
  <2>5. queue'[w] = Tail(q)
    BY <2>1
  <2>6. /\ EndsBusy(Tail(q)) => EndsBusy(q)
        /\ Head(q).type = "busy" /\ ~HasIdle(Tail(q)) => EndsBusy(q)
        /\ Head(q).type # "idle" /\ ~HasIdle(Tail(q)) => ~HasIdle(q)
    BY <2>1, TailBusy
  <2>7. /\ EndsBusy(queue'[w]) => IdleOwed'
        /\ busy'[w] /\ ~HasIdle(queue'[w]) => IdleOwed' \/ Optimistic(w)'
    BY <2>2, <2>4, <2>5, <2>6 DEF BusyInv, BusyExplained
  <2> QED  BY <2>2, <2>3, <2>7 DEF BusyInv, BusyExplained
<1>12. CASE UNCHANGED vars \/ SetConfig
  <2> UNCHANGED <<pc, reply, stop, caller, queue, busy>>
    BY <1>12 DEF vars, backVars, bindVars, windowVars, SetConfig
  <2> QED  BY <1>c DEF IdleOwed, Optimistic
<1> QED
  BY <1>1, <1>2, <1>3, <1>4, <1>5, <1>6, <1>7, <1>8, <1>9, <1>10, <1>11, <1>12
     DEF Next, BackendStep, WindowStep

(* The stream-busy events are emitted outside the lock and overtake one
   another, yet whoever emits a late busy event has an idle event still to
   come, or leaves that duty to the stream in the slot: when everything is
   quiet no window shows a stream that is not there.                        *)
THEOREM NoLockout == Spec => []QuietMeansSendable
<1>1. BusyInv /\ TypeOK => QuietMeansSendable
  <2> SUFFICES ASSUME BusyInv, TypeOK, Quiescent, NEW w \in Windows PROVE ~busy[w]
    BY DEF QuietMeansSendable
  <2>1. ~IdleOwed /\ ~Optimistic(w)
    BY DEF Quiescent, IdleOwed, Optimistic
  <2>2. ~HasIdle(queue[w])
    BY DEF Quiescent, HasIdle
  <2> QED  BY <2>1, <2>2 DEF BusyInv, BusyExplained
<1>2. TypeOK /\ TypeOK' /\ SlotInv /\ SlotInv' /\ BusyInv /\ [Next]_vars => BusyInv'
  BY BusyExplainedNext, ReplyMadeNext DEF BusyInv
<1> QED
  BY <1>1, <1>2, BusyInvInit, SlotInvInit, SlotInvNext, Typing, PTL DEF Spec
=============================================================================
