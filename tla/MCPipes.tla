------------------------------ MODULE MCPipes ------------------------------
(***************************************************************************)
(* The two clients of a child process, on small instances: a language      *)
(* server's connection with a few requests, and a terminal session with a  *)
(* few commands.  They share nothing, so a behaviour moves one of them,    *)
(* `part`, and leaves the other as it was at the start: there are as many  *)
(* states as the two have together, not their product.                     *)
(***************************************************************************)
EXTENDS JsonRpc, Terminal
CONSTANTS r1, r2, r3

VARIABLE part

PipesInit == part \in {"connection", "terminal"} /\ RpcInit /\ Init

PipesNext == \/ part = "connection" /\ RpcNext /\ UNCHANGED <<vars, part>>
             \/ part = "terminal" /\ Next /\ UNCHANGED <<rpcVars, part>>

PipesSpec == PipesInit /\ [][PipesNext]_<<vars, rpcVars, part>> /\ RpcFairness /\ Fairness
=============================================================================
