-------------------------- MODULE ReleaseRegister --------------------------
(***************************************************************************)
(* What a signed update promises the restaurant: the host serves the       *)
(* installed release, or has a newer one on trial; a release becomes the   *)
(* installed one only from its own trial, and the installed release never  *)
(* goes back.                                                              *)
(***************************************************************************)
EXTENDS Naturals

CONSTANTS Releases, Down

VARIABLES
    installed,  \* the release a restart comes back to
    running,    \* the release whose processes run, Down when none do
    mode        \* "down", on "trial", or "serving" the restaurant

RegisterInit == installed = 0 /\ running = Down /\ mode = "down"

Serve ==
    /\ mode = "down"
    /\ running' = installed /\ mode' = "serving"
    /\ UNCHANGED installed

Try ==
    /\ mode = "down"
    /\ running' \in {r \in Releases : r > installed} /\ mode' = "trial"
    /\ UNCHANGED installed

Accept ==
    /\ mode = "trial"
    /\ installed' = running /\ mode' = "serving"
    /\ UNCHANGED running

Stop == running' = Down /\ mode' = "down" /\ UNCHANGED installed

RegisterSpec ==
    /\ RegisterInit
    /\ [][Serve \/ Try \/ Accept \/ Stop]_<<installed, running, mode>>
=============================================================================
