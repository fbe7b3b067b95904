------------------------ MODULE PublicationRegister ------------------------
(***************************************************************************)
(* What the QR menu promises its readers: the cloud shows nothing but      *)
(* snapshots that a local edit published (or the one an earlier            *)
(* installation left), never goes back to an older version, and reveals a  *)
(* menu it has hidden only by showing a newer one.                         *)
(***************************************************************************)
EXTENDS Naturals

CONSTANTS Menus, Versions

VARIABLES
    published,  \* the snapshots an edit has published: [version, menu]
    shown       \* the row of the cloud: [version, menu, hidden]

Snapshot == [version : Versions, menu : Menus]

RegisterInit == published = {}

\* A local edit commits with the next version.
Publish ==
    /\ \E s \in Snapshot :
          /\ \A t \in published : s.version > t.version
          /\ published' = published \cup {s}
    /\ UNCHANGED shown

\* The cloud takes a newer snapshot.
Show ==
    /\ \E s \in published :
          /\ s.version > shown.version
          /\ shown' = [version |-> s.version, menu |-> s.menu, hidden |-> FALSE]
    /\ UNCHANGED published

\* The tenant is deleted in the cloud.
Hide ==
    /\ shown' = [shown EXCEPT !.hidden = TRUE]
    /\ UNCHANGED published

RegisterSpec == RegisterInit /\ [][Publish \/ Show \/ Hide]_<<published, shown>>
=============================================================================
