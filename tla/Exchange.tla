------------------------------ MODULE Exchange ------------------------------
(***************************************************************************)
(* What jsonRPCClient promises to the callers of request()                 *)
(* (services/lsp_service.go): each call ends once, for one reason, and     *)
(* with the answer that the server gave to it and to no other.  An answer  *)
(* is never lost on its way to a caller that still wants it.               *)
(* JsonRpc implements this module (JsonRpc!Exchanged).                     *)
(***************************************************************************)
CONSTANT Requests

VARIABLES
  place,   \* per request: with its caller, with the server, back with an answer, or lost
  alive,   \* the server runs
  open,    \* somebody reads the answers
  result   \* per request: none yet, or what its caller got
exchange == <<place, alive, open, result>>

ExchangeInit ==
  /\ place = [r \in Requests |-> "caller"]
  /\ alive = TRUE
  /\ open = TRUE
  /\ result = [r \in Requests |-> "none"]

\* A request goes to a server that runs, once.
Ask(r) ==
  /\ place[r] = "caller" /\ result[r] = "none" /\ alive
  /\ place' = [place EXCEPT ![r] = "server"]
  /\ UNCHANGED <<alive, open, result>>

Answer(r) ==
  /\ place[r] = "server" /\ alive
  /\ place' = [place EXCEPT ![r] = "back"]
  /\ UNCHANGED <<alive, open, result>>

\* The server dies and takes with it what it has not answered.
Die ==
  /\ alive /\ ~alive'
  /\ place' = [r \in Requests |-> IF place[r] = "server" THEN "lost" ELSE place[r]]
  /\ UNCHANGED <<open, result>>

\* An answer is dropped: only one that comes too late.
Drop(r) ==
  /\ place[r] = "back" /\ result[r] # "none" /\ open
  /\ place' = [place EXCEPT ![r] = "lost"]
  /\ UNCHANGED <<alive, open, result>>

\* The connection breaks for good.
Break ==
  /\ open /\ ~open'
  /\ UNCHANGED <<place, alive, result>>

\* The call returns, for a reason that is true.
Reason(r, o) ==
  \/ o = "answer" /\ place[r] = "back"
  \/ o = "closed" /\ place[r] # "caller" /\ ~open
  \/ o = "timeout" /\ place[r] # "caller"
  \/ o = "unwritten" /\ place[r] = "caller" /\ ~alive

End(r, o) ==
  /\ result[r] = "none" /\ Reason(r, o)
  /\ result' = [result EXCEPT ![r] = o]
  /\ UNCHANGED <<place, alive, open>>

ExchangeNext ==
  \/ \E r \in Requests :
       Ask(r) \/ Answer(r) \/ Drop(r)
         \/ \E o \in {"answer", "closed", "timeout", "unwritten"} : End(r, o)
  \/ Die \/ Break

ExchangeSpec == ExchangeInit /\ [][ExchangeNext]_exchange
=============================================================================
