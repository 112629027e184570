---------------------------- MODULE SingleStream ----------------------------
(***************************************************************************)
(* What AIService promises to the two webviews: one process-wide slot for  *)
(* AI streams.  A stream may begin only when no other live stream exists,  *)
(* and a live stream leaves the slot when it ends or is stopped.           *)
(* AIStream implements this module (AIStream!Slot).                        *)
(***************************************************************************)
CONSTANT Calls                 \* the StartStream calls

VARIABLE live                  \* the streams that run and were not stopped

SlotInit == live = {}

\* StartStream succeeds: only into an empty slot.
Begin == /\ live = {}
         /\ \E k \in Calls : live' = {k}

\* The stream ends, or StopStream cancels it.
Leave == /\ live # {}
         /\ live' = {}

SlotNext == Begin \/ Leave

SlotSpec == SlotInit /\ [][SlotNext]_live
=============================================================================
