--------------------------- MODULE MCConversation ---------------------------
(* At the start both windows show the conversation that was saved before. *)
EXTENDS Conversation, TLC

CONSTANTS main, ai, t1, t2, t3, r1, f1
MCSymmetry == Permutations(Turn)

MCInit == Init /\ \A w \in Window : cur[w] = 1

MCSpec == MCInit /\ [][Next]_vars
=============================================================================
