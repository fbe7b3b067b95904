---------------------------- MODULE BackupVault ----------------------------
(***************************************************************************)
(* What the backups of the restaurant promise: a listed backup disappears  *)
(* only after its copies were made, only when newer ones supersede it, and *)
(* never while a restore drill is reading it.                              *)
(***************************************************************************)
EXTENDS Naturals, FiniteSets

CONSTANTS Backups, LocalKeep

\* selectRetentionSet for one class of periods: the newest backup of each of
\* the n newest periods.  Backups are numbered in the order of their creation.
Keep(S, period, n) ==
    {b \in S : /\ \A c \in S : period[c] = period[b] => c <= b
               /\ Cardinality({p \in {period[c] : c \in S} : p > period[b]}) < n}

VARIABLES
    listed,     \* backups the owner can see and download
    safe,       \* backups that were copied to the external disk and the cloud
    tested,     \* the backup a restore drill reads, 0 when there is none
    period      \* the day of a backup

VaultInit == listed = {} /\ safe = {} /\ tested = 0

Publish == \E b \in Backups \ listed :
    listed' = listed \cup {b} /\ UNCHANGED <<safe, tested, period>>

\* A day is given before the backup is listed.
Date == UNCHANGED <<listed, safe, tested>>

Secure == \E b \in Backups :
    safe' = safe \cup {b} /\ UNCHANGED <<listed, tested, period>>

Test == tested' \in listed \cup {0} /\ UNCHANGED <<listed, safe, period>>

Drop == \E b \in listed \cap safe :
    /\ b # tested
    /\ b \notin Keep(listed, period, LocalKeep)
    /\ listed' = listed \ {b}
    /\ UNCHANGED <<safe, tested, period>>

VaultSpec ==
    VaultInit /\ [][Publish \/ Date \/ Secure \/ Test \/ Drop]_<<listed, safe, tested>>
=============================================================================
