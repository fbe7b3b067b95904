---------------------------- MODULE MCSupervisor ----------------------------
(***************************************************************************)
(* The database and the API with their endpoints, and the print agent,     *)
(* which has none: its crash loop does not end the host.                   *)
(***************************************************************************)
EXTENDS Supervisor

MCEssential == {1, 2}
MCProbed == {1, 2}
=============================================================================
