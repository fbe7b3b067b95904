--------------------------- MODULE MCPrintPipeline ---------------------------
(* An instance of PrintPipeline for TLC: one dispatcher, as deployed. *)
EXTENDS PrintPipeline
=============================================================================
