----------------------------- MODULE HostUpdate -----------------------------
(***************************************************************************)
(* A signed update of the Windows installation.  The local API downloads a *)
(* release into a stage directory, raises its high-water mark and leaves a *)
(* handoff (LocalUpdateRuntime); at its next start, before it spawns any   *)
(* process, the Windows host unpacks the release, copies the database      *)
(* files, moves a pointer to the new release and journals what it does     *)
(* (UpdateCoordinator), starts the candidate, watches its health, and      *)
(* commits or rolls back (RuntimeInstance::start).                         *)
(*                                                                         *)
(* The two meet in the handoff file only, and the API of the candidate     *)
(* already runs while its own update is not decided.  Power may be lost    *)
(* anywhere.  A release is its version; 0 is the one the installer laid    *)
(* down.  One signed manifest exists for a version.                        *)
(***************************************************************************)
EXTENDS Naturals, FiniteSets

CONSTANTS
    MaxRelease,     \* bound: releases 1..MaxRelease are ever published
    MaxCrashes,     \* bound: losses of power in one behaviour
    Down,           \* no process runs
    Missing         \* a file that is not there

ASSUME ConstantsAssumption ==
    /\ MaxRelease \in Nat /\ MaxCrashes \in Nat
    /\ Down \notin Nat

Releases == 1..MaxRelease
Versions == 0..MaxRelease

VARIABLES
    \* the update data directory, written by the API
    lock, high, handoff, stages,
    \* written by the host: the release directories, half-unpacked ones, the
    \* safety copies of the database, pointer, journal, temporaries of
    \* interrupted atomic writes
    releases, partials, snapshots, active, journal, temps,
    \* postmaster.pid: there while PostgreSQL runs, and after a loss of power
    marker,
    \* processes
    host, goal, running, stager, target,
    \* history: the release a restart should come back to; whether something
    \* happened that the code leaves to an operator; losses of power
    installed, operator, crashes

apiFiles == <<lock, high, handoff, stages>>
trees == <<releases, partials, snapshots>>
hostFiles == <<trees, active, journal, temps>>
staging == <<stager, target>>
history == <<installed, operator, crashes>>
vars == <<apiFiles, hostFiles, marker, host, goal, running, staging, history>>

Handoff == [target : Releases, current : Versions]
Phase == {"PREPARED", "ACTIVATED", "HEALTH_CHECKING", "COMMITTED"}
Journal == [phase : Phase, target : Releases, previous : Versions]

ASSUME MissingAssumption == Missing \notin Journal

\* What the host does next; "down" is a stopped service.
Step == {"down", "recover", "undoRelease", "restoreActive", "report",
         "dropHandoff", "dropSnapshot", "dropJournal", "load", "extract",
         "snapshot", "prepare", "activate", "confirm", "spawn", "mark",
         "gate", "commit", "start", "serving"}
\* What follows the removal of a journal.
Goal == {"load", "start", "serving"}

TypeOK ==
    /\ lock \in BOOLEAN
    /\ high \in Versions
    /\ handoff \in Handoff \cup {Missing}
    /\ stages \in SUBSET Releases
    /\ releases \in SUBSET Releases
    /\ partials \in SUBSET Releases
    /\ snapshots \in SUBSET Releases
    /\ active \in Versions
    /\ journal \in Journal \cup {Missing}
    /\ temps \in SUBSET {"journal", "active", "result"}
    /\ marker \in BOOLEAN
    /\ host \in Step
    /\ goal \in Goal
    /\ running \in Versions \cup {Down}
    /\ stager \in {"idle", "checking", "staged", "accepted"}
    /\ target \in Versions
    /\ installed \in Versions
    /\ operator \in BOOLEAN
    /\ crashes \in 0..MaxCrashes

Init ==
    /\ lock = FALSE /\ high = 0 /\ handoff = Missing /\ stages = {}
    /\ releases = {} /\ partials = {} /\ snapshots = {}
    /\ active = 0 /\ journal = Missing /\ temps = {}
    /\ marker = FALSE
    /\ host = "down" /\ goal = "load" /\ running = Down
    /\ stager = "idle" /\ target = 0
    /\ installed = 0 /\ operator = FALSE /\ crashes = 0

-----------------------------------------------------------------------------
\* LocalUpdateRuntime.checkAndStage, in the API of the running release

\* assertCoordinatorConsistency
Consistent ==
    /\ handoff # Missing => high = handoff.target
    /\ handoff = Missing => high <= running

\* The request takes the lock file and reads the state; it gives the lock back
\* when the check fails.
StageBegin ==
    /\ running # Down
    /\ stager = "idle"
    /\ ~lock
    /\ Consistent
    /\ lock' = TRUE
    /\ stager' = "checking"
    /\ UNCHANGED <<high, handoff, stages, hostFiles, marker, host, goal, running,
                   target, history>>

\* assertManifestPolicy, assertAntiRollback; a manifest of the version that is
\* already accepted only returns the handoff.
Acceptable(v) == v > running /\ v > high

\* Download, verify and rename to the final stage directory, which must be new.
StageFetch ==
    /\ stager = "checking"
    /\ \E v \in Releases :
          /\ Acceptable(v)
          /\ v \notin stages
          /\ stages' = stages \cup {v}
          /\ target' = v
    /\ stager' = "staged"
    /\ UNCHANGED <<lock, high, handoff, hostFiles, marker, host, goal, running,
                   history>>

\* Mutation: the high-water mark is not raised.
StageAcceptLow ==
    /\ stager = "staged"
    /\ stager' = "accepted"
    /\ UNCHANGED <<apiFiles, hostFiles, marker, host, goal, running, target,
                   history>>

StageAccept ==
    /\ stager = "staged"
    /\ high' = target
    /\ stager' = "accepted"
    /\ UNCHANGED <<lock, handoff, stages, hostFiles, marker, host, goal, running,
                   target, history>>

StageHandoff ==
    /\ stager = "accepted"
    /\ handoff' = [target |-> target, current |-> running]
    /\ lock' = FALSE
    /\ stager' = "idle"
    /\ target' = 0
    /\ UNCHANGED <<high, stages, hostFiles, marker, host, goal, running, history>>

\* No update, a rejected manifest, a failed download or a failed write: the
\* request gives the lock back and leaves what it has written.
StageEnds ==
    /\ stager # "idle"
    /\ lock' = FALSE
    /\ stager' = "idle"
    /\ target' = 0
    /\ UNCHANGED <<high, handoff, stages, hostFiles, marker, host, goal, running,
                   history>>

-----------------------------------------------------------------------------
\* The host

\* The processes of the running release end, and a request of its API with
\* them; the lock file of the request stays.
ProcessesEnd ==
    /\ running' = Down
    /\ stager' = "idle"
    /\ target' = 0

\* RuntimeInstance::start returns an error; no process is running.
GivesUp == host' = "down" /\ UNCHANGED <<running, staging>>

\* atomic_write_json refuses a path with a temporary left by a loss of power.
Writable(file) == file \notin temps

CannotWrite(step, file) ==
    /\ host = step
    /\ ~Writable(file)
    /\ host' = "down"
    /\ ProcessesEnd
    /\ UNCHANGED <<apiFiles, hostFiles, marker, goal, history>>

Start ==
    /\ host = "down"
    /\ host' = "recover"
    /\ UNCHANGED <<apiFiles, hostFiles, marker, goal, running, staging, history>>

\* recover_interrupted
Recover ==
    /\ host = "recover"
    /\ goal' = "load"
    /\ host' = CASE journal = Missing -> "load"
                 [] journal # Missing /\ journal.phase = "COMMITTED"
                    -> "dropHandoff"
                 [] journal # Missing /\ journal.phase = "PREPARED"
                    -> "undoRelease"
                 [] journal # Missing
                    /\ journal.phase \in {"ACTIVATED", "HEALTH_CHECKING"}
                    -> "restoreActive"
    /\ UNCHANGED <<apiFiles, hostFiles, marker, running, staging, history>>

\* A journal that only says PREPARED: the candidate's directory goes; the
\* pointer and the safety copy are left as they are.
UndoRelease ==
    /\ host = "undoRelease"
    /\ releases' = releases \ {journal.target}
    /\ host' = "dropJournal"
    /\ UNCHANGED <<apiFiles, partials, snapshots, active, journal, temps, marker,
                   goal, running, staging, history>>

\* Mutation: a rollback leaves the pointer on the candidate.
KeepActive ==
    /\ host = "restoreActive"
    /\ Writable("active")
    /\ host' = "report"
    /\ UNCHANGED <<apiFiles, hostFiles, marker, goal, running, staging, history>>

\* rollback_journal: back to the previous pointer, then report, drop the
\* handoff (whichever it is), the safety copy and the journal.
RestoreActive ==
    /\ host = "restoreActive"
    /\ journal.previous = 0 \/ Writable("active")
    /\ active' = journal.previous
    /\ host' = "report"
    /\ UNCHANGED <<apiFiles, trees, journal, temps, marker, goal, running,
                   staging, history>>

Report ==
    /\ host = "report"
    /\ Writable("result")
    /\ host' = "dropHandoff"
    /\ UNCHANGED <<apiFiles, hostFiles, marker, goal, running, staging, history>>

\* Mutation: the handoff of a finished update stays.
KeepHandoff ==
    /\ host = "dropHandoff"
    /\ host' = "dropSnapshot"
    /\ UNCHANGED <<apiFiles, hostFiles, marker, goal, running, staging, history>>

DropHandoff ==
    /\ host = "dropHandoff"
    /\ handoff' = Missing
    /\ host' = "dropSnapshot"
    /\ UNCHANGED <<lock, high, stages, hostFiles, marker, goal, running, staging,
                   history>>

DropSnapshot ==
    /\ host = "dropSnapshot"
    /\ snapshots' = snapshots \ {journal.target}
    /\ host' = "dropJournal"
    /\ UNCHANGED <<apiFiles, releases, partials, active, journal, temps, marker,
                   goal, running, staging, history>>

DropJournal ==
    /\ host = "dropJournal"
    /\ journal' = Missing
    /\ host' = goal
    /\ UNCHANGED <<apiFiles, trees, active, temps, marker, goal, running,
                   staging, history>>

\* effective_config of the pointer, and the checks of the handoff
Loadable == active = 0 \/ active \in releases

Load ==
    /\ host = "load"
    /\ Loadable
    /\ host' = IF handoff = Missing THEN "start" ELSE "extract"
    /\ UNCHANGED <<apiFiles, hostFiles, marker, goal, running, staging, history>>

LoadFails ==
    /\ host = "load"
    /\ ~Loadable
    /\ GivesUp
    /\ UNCHANGED <<apiFiles, hostFiles, marker, goal, history>>

\* A pending update that no longer passes - contract, signature, expiry of the
\* manifest, schema range, artifacts, archive - stops the start, now and at
\* every later one.
Reject ==
    /\ host = "extract"
    /\ GivesUp
    /\ operator' = TRUE
    /\ UNCHANGED <<apiFiles, hostFiles, marker, goal, installed, crashes>>

\* The payload goes to a partial directory that is renamed; both must be new.
\* A payload that omits a program stays behind, and the start fails.
Extract ==
    /\ host = "extract"
    /\ handoff.current = active /\ handoff.target > active
    /\ handoff.target \notin releases \cup partials
    /\ releases' = releases \cup {handoff.target}
    /\ \/ /\ host' = "snapshot"
          /\ UNCHANGED <<running, staging, operator>>
       \/ /\ GivesUp
          /\ operator' = TRUE
    /\ UNCHANGED <<apiFiles, partials, snapshots, active, journal, temps, marker,
                   goal, installed, crashes>>

ExtractRefused ==
    /\ host = "extract"
    /\ \/ handoff.current # active \/ handoff.target <= active
       \/ handoff.target \in releases \cup partials
    /\ GivesUp
    /\ UNCHANGED <<apiFiles, hostFiles, marker, goal, history>>

\* The copy of the database files: the directory must be new and PostgreSQL
\* proven offline.
Snapshot ==
    /\ host = "snapshot"
    /\ ~marker
    /\ handoff.target \notin snapshots
    /\ snapshots' = snapshots \cup {handoff.target}
    /\ host' = "prepare"
    /\ UNCHANGED <<apiFiles, releases, partials, active, journal, temps, marker,
                   goal, running, staging, history>>

SnapshotRefused ==
    /\ host = "snapshot"
    /\ marker \/ handoff.target \in snapshots
    /\ GivesUp
    /\ operator' = TRUE
    /\ UNCHANGED <<apiFiles, hostFiles, marker, goal, installed, crashes>>

Prepare ==
    /\ host = "prepare"
    /\ Writable("journal")
    /\ journal' = [phase |-> "PREPARED", target |-> handoff.target,
                   previous |-> active]
    /\ host' = "activate"
    /\ UNCHANGED <<apiFiles, trees, active, temps, marker, goal, running,
                   staging, history>>

\* Mutation: the candidate starts before the journal says ACTIVATED.
ActivateUnconfirmed ==
    /\ host = "activate"
    /\ Writable("active")
    /\ active' = journal.target
    /\ host' = "spawn"
    /\ UNCHANGED <<apiFiles, trees, journal, temps, marker, goal, running,
                   staging, history>>

Activate ==
    /\ host = "activate"
    /\ Writable("active")
    /\ active' = journal.target
    /\ host' = "confirm"
    /\ UNCHANGED <<apiFiles, trees, journal, temps, marker, goal, running,
                   staging, history>>

\* The journal says ACTIVATED: from here on a restart rolls back.
Confirm ==
    /\ host = "confirm"
    /\ Writable("journal")
    /\ journal' = [journal EXCEPT !.phase = "ACTIVATED"]
    /\ host' = "spawn"
    /\ UNCHANGED <<apiFiles, trees, active, temps, marker, goal, running,
                   staging, history>>

\* Every process of the candidate starts and is ready.
Spawn ==
    /\ host = "spawn"
    /\ running' = journal.target
    /\ marker' = TRUE
    /\ host' = "mark"
    /\ UNCHANGED <<apiFiles, hostFiles, goal, staging, history>>

SpawnFails ==
    /\ host = "spawn"
    /\ host' = "restoreActive"
    /\ goal' = "start"
    /\ UNCHANGED <<apiFiles, hostFiles, marker, running, staging, history>>

Mark ==
    /\ host = "mark"
    /\ Writable("journal")
    /\ journal' = [journal EXCEPT !.phase = "HEALTH_CHECKING"]
    /\ host' = "gate"
    /\ UNCHANGED <<apiFiles, trees, active, temps, marker, goal, running,
                   staging, history>>

\* wait_for_candidate_health: healthy and stable, or not before the deadline.
Healthy ==
    /\ host = "gate"
    /\ host' = "commit"
    /\ UNCHANGED <<apiFiles, hostFiles, marker, goal, running, staging, history>>

Unhealthy ==
    /\ host = "gate"
    /\ ProcessesEnd
    /\ marker' = FALSE
    /\ host' = "restoreActive"
    /\ goal' = "start"
    /\ UNCHANGED <<apiFiles, hostFiles, history>>

\* PreparedUpdate::commit: the journal decides, then report and clean up.
Commit ==
    /\ host = "commit"
    /\ Writable("journal")
    /\ journal' = [journal EXCEPT !.phase = "COMMITTED"]
    /\ installed' = journal.target
    /\ goal' = "serving"
    /\ host' = "report"
    /\ UNCHANGED <<apiFiles, trees, active, temps, marker, running, staging,
                   operator, crashes>>

\* The processes of the release the pointer names, or of the fallback.
Serve ==
    /\ host = "start"
    /\ running' = active
    /\ marker' = TRUE
    /\ host' = "serving"
    /\ UNCHANGED <<apiFiles, hostFiles, goal, staging, history>>

StartFails ==
    /\ host = "start"
    /\ GivesUp
    /\ UNCHANGED <<apiFiles, hostFiles, marker, goal, history>>

\* The service is stopped, or a supervised process is beyond help.  In the
\* health gate the journal is left for the next start.
Stop ==
    /\ host \in {"gate", "serving"}
    /\ ProcessesEnd
    /\ marker' = FALSE
    /\ host' = "down"
    /\ UNCHANGED <<apiFiles, hostFiles, goal, history>>

\* The file the next step writes, if it writes one: without a previous release
\* the pointer is removed, not written.
WritesFile ==
    CASE host \in {"prepare", "confirm", "mark", "commit"} -> {"journal"}
      [] host = "activate" -> {"active"}
      [] host = "restoreActive" ->
            IF journal.previous = 0 THEN {} ELSE {"active"}
      [] host = "report" -> {"result"}
      [] OTHER -> {}

\* Power is lost.  The step may leave the temporary of its write, a release
\* half unpacked or a database half copied.  The code cannot go on by itself
\* from a leftover, nor from the steps between unpacking and ACTIVATED.
PowerLoss ==
    /\ host # "down"
    /\ crashes < MaxCrashes
    /\ crashes' = crashes + 1
    /\ host' = "down"
    /\ ProcessesEnd
    /\ \E left \in SUBSET WritesFile, torn \in BOOLEAN :
          /\ temps' = temps \cup left
          /\ partials' = IF torn /\ host = "extract"
                         THEN partials \cup {handoff.target} ELSE partials
          /\ snapshots' = IF torn /\ host = "snapshot"
                          THEN snapshots \cup {handoff.target} ELSE snapshots
          /\ operator' = (\/ operator \/ left # {}
                          \/ torn /\ host = "extract"
                          \/ host \in {"snapshot", "prepare", "activate",
                                       "confirm"})
    /\ UNCHANGED <<apiFiles, releases, active, journal, marker, goal, installed>>

-----------------------------------------------------------------------------
Stage == StageBegin \/ StageFetch \/ StageAccept \/ StageHandoff \/ StageEnds
Recovery ==
    \/ Start \/ Recover \/ UndoRelease \/ RestoreActive \/ Report
    \/ DropHandoff \/ DropSnapshot \/ DropJournal \/ Load \/ LoadFails
Update ==
    \/ Extract \/ ExtractRefused \/ Snapshot \/ SnapshotRefused \/ Prepare
    \/ Activate \/ Confirm \/ Spawn \/ Mark \/ Healthy \/ Unhealthy \/ Commit
Stuck ==
    \/ CannotWrite("restoreActive", "active") \/ CannotWrite("report", "result")
    \/ \E s \in {"prepare", "confirm", "mark", "commit"} :
          CannotWrite(s, "journal")
    \/ CannotWrite("activate", "active")
Next ==
    \/ Stage \/ Recovery \/ Update \/ Stuck
    \/ Reject \/ SpawnFails \/ Serve \/ StartFails \/ Stop \/ PowerLoss

\* The service control manager starts the host again, its steps are taken, the
\* health gate has a deadline, and the installed release starts now and then.
Fairness ==
    /\ WF_vars(Recovery \/ Update \/ Stuck)
    /\ SF_vars(Serve)

Spec == Init /\ [][Next]_vars /\ Fairness

-----------------------------------------------------------------------------
\* Whatever runs and is not the installed release is on trial, and the files
\* that take a restart back are there: a journal that says so, with the
\* installed release as its previous one (prepare, mark_health_checking).
RollbackReady == running \notin {Down, installed} =>
    /\ running \in releases
    /\ journal # Missing
    /\ journal.phase \in {"ACTIVATED", "HEALTH_CHECKING"}
    /\ journal.target = running
    /\ journal.previous = installed

\* The host only ever sees the handoff of a release that is completely staged
\* and not above the durable high-water mark; and while an update is open, a
\* handoff of another release was left by the API of the candidate itself -
\* the only ones that commit and rollback can throw away unread
\* (performCheckAndStage against PreparedUpdate::commit).
HandoffBacked == handoff # Missing =>
    /\ handoff.target \in stages
    /\ high >= handoff.target
    /\ journal # Missing /\ handoff.target # journal.target =>
          handoff.current = journal.target

Register == INSTANCE ReleaseRegister
    WITH mode <- CASE running = Down -> "down"
                   [] running # Down /\ host \in {"mark", "gate", "commit"} -> "trial"
                   [] running # Down /\ host \notin {"mark", "gate", "commit"}
                      -> "serving"

\* The host serves the installed release or has a newer one on trial, and a
\* release is installed only from its own trial, through every crash and
\* recovery (RuntimeInstance::start, PreparedUpdate::commit, rollback_journal).
RunsInstalled == Register!RegisterSpec

\* A host that is down serves again by itself - after a stop, a failed update,
\* a loss of power while serving, in the health gate, in a commit or in a
\* recovery - unless the pending update was refused or power was lost while it
\* was being laid down or in the middle of a write.
ComesBack == (host = "down") ~> (host = "serving" \/ operator)
=============================================================================
