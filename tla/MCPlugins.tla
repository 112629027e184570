----------------------------- MODULE MCPlugins -----------------------------
(***************************************************************************)
(* A plugin that bootstrap starts and a command of it asks for again, and  *)
(* one that the user may start; both want the same id.  In a sandbox there *)
(* are two acts.  Without one there are three, so that an entry may be     *)
(* removed while deactivate() of its plugin runs, and the second plugin    *)
(* stays disabled.                                                         *)
(***************************************************************************)
EXTENDS Plugins, TLC

CONSTANTS p1, p2, i1, boot, c1
MCLazy == p1 :> {i1} @@ p2 :> {}

MCInit == Init /\ (sandboxed \/ disk[p2] = "disabled")

MCNext == Next /\ IF sandboxed THEN acts' <= 2 ELSE disk'[p2] = "disabled"

MCSpec == MCInit /\ [][MCNext]_vars /\ Fairness
=============================================================================
