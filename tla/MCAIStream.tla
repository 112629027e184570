----------------------------- MODULE MCAIStream -----------------------------
(* The main window, the companion window, and a bounded number of sends. *)
EXTENDS AIStream
CONSTANTS main, companion
=============================================================================
