---------------------------- MODULE MCPrintOutbox ----------------------------
(* Instances of PrintOutbox for TLC; their sizes are in the configurations. *)
EXTENDS PrintOutbox
=============================================================================
