-------------------------- MODULE PrintJobLifecycle --------------------------
(***************************************************************************)
(* What the durable print outbox promises of one row of print_jobs, with   *)
(* no lease, worker or acknowledgement protocol in sight: a job is opened  *)
(* once, is settled once, as printed or as dead, and is only then removed. *)
(* A settled job is never reopened and never changes sides.  PrintOutbox   *)
(* implements this module when one dispatcher runs (OutboxLifecycle).      *)
(***************************************************************************)
CONSTANT Jobs                   \* identifiers of print jobs

VARIABLE phase                  \* phase[j]: where job j is in its life

Phases == {"absent", "open", "printed", "dead", "gone"}

LifecycleInit == phase = [j \in Jobs |-> "absent"]

(***************************************************************************)
(* A job with no usable printer is recorded as dead when it is opened.     *)
(***************************************************************************)
Open(j) ==
    /\ phase[j] = "absent"
    /\ \E p \in {"open", "dead"} : phase' = [phase EXCEPT ![j] = p]

Finish(j) ==
    /\ phase[j] = "open"
    /\ phase' = [phase EXCEPT ![j] = "printed"]

(***************************************************************************)
(* One sweep may declare several open jobs dead.                           *)
(***************************************************************************)
Bury(S) ==
    /\ \A j \in S : phase[j] = "open"
    /\ phase' = [j \in Jobs |-> IF j \in S THEN "dead" ELSE phase[j]]

(***************************************************************************)
(* Retention removes settled jobs only, several at a time.                 *)
(***************************************************************************)
Forget(S) ==
    /\ \A j \in S : phase[j] \in {"printed", "dead"}
    /\ phase' = [j \in Jobs |-> IF j \in S THEN "gone" ELSE phase[j]]

LifecycleNext ==
    \/ \E j \in Jobs : Open(j) \/ Finish(j)
    \/ \E S \in SUBSET Jobs : Bury(S) \/ Forget(S)

LifecycleSpec == LifecycleInit /\ [][LifecycleNext]_phase
=============================================================================
