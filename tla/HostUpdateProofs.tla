-------------------------- MODULE HostUpdateProofs --------------------------
(***************************************************************************)
(* What a signed update guarantees for any number of releases and losses   *)
(* of power.  The argument reads the disk off the step the host is at: the *)
(* journal and the pointer together always tell which release is the       *)
(* installed one, no process runs while they are moved, and a handoff is   *)
(* covered by the stages and the high-water mark of the release that wrote *)
(* it.                                                                     *)
(***************************************************************************)
EXTENDS HostUpdate, TLAPS

\* Steps with no process running, and the clean-up after a verdict.
Offline == {"down", "recover", "undoRelease", "restoreActive", "load",
            "extract", "snapshot", "prepare", "activate", "confirm", "spawn",
            "start"}
CleanUp == {"report", "dropHandoff", "dropSnapshot", "dropJournal"}

\* The API's requests end with the processes.
QuietInv ==
    /\ running = Down => stager = "idle"
    /\ host \in Offline => running = Down
    /\ host \in CleanUp => (running = Down <=> goal # "serving")
    /\ host \in {"mark", "gate", "commit", "serving"} => running # Down

\* What a staging request has on disk; a handoff is below the high-water mark.
StageInv ==
    /\ stager \in {"staged", "accepted"} => target \in stages
    /\ stager = "staged" => target > high
    /\ stager = "accepted" => high = target
    /\ handoff # Missing => handoff.target \in stages /\ high >= handoff.target

\* An open update knows the installed release and where the pointer is.
JournalInv == journal # Missing =>
    /\ journal.previous < journal.target
    /\ journal.phase = "COMMITTED" =>
          installed = journal.target /\ active = journal.target
    /\ journal.phase # "COMMITTED" =>
          installed = journal.previous /\ active \in {journal.previous, journal.target}
    /\ journal.phase \in {"ACTIVATED", "HEALTH_CHECKING"} =>
          journal.target \in releases

\* Without an update the pointer is right, or names a release that is gone.
PointerInv == journal = Missing =>
    active = installed \/ (active # 0 /\ active \notin releases)

\* What the host has done when it is at a step.
JournalAt ==
    /\ host \in {"load", "extract", "snapshot", "prepare", "start", "serving"} =>
          journal = Missing
    /\ host \in {"activate", "confirm", "spawn", "mark", "gate", "commit",
                 "undoRelease", "restoreActive"} \cup CleanUp =>
          journal # Missing
    /\ host \in {"activate", "confirm", "undoRelease"} =>
          journal.phase = "PREPARED"
    /\ host \in {"spawn", "mark"} => journal.phase = "ACTIVATED"
    /\ host \in {"gate", "commit"} => journal.phase = "HEALTH_CHECKING"
    /\ host = "restoreActive" =>
          journal.phase \in {"ACTIVATED", "HEALTH_CHECKING"}
    /\ host \in CleanUp =>
          \/ journal.phase = "COMMITTED" /\ goal # "start"
          \/ /\ journal.phase \in {"ACTIVATED", "HEALTH_CHECKING"}
             /\ active = journal.previous /\ goal # "serving"
          \/ /\ journal.phase = "PREPARED" /\ host = "dropJournal"
             /\ journal.target \notin releases /\ goal = "load"

PointerAt ==
    /\ host \in {"extract", "snapshot", "prepare", "start", "serving"} =>
          active = installed
    /\ host = "restoreActive" => goal # "serving"
    /\ host = "undoRelease" => goal = "load"
    /\ host \in {"activate", "confirm"} => journal.target \in releases
    /\ host = "activate" => active = journal.previous
    /\ host \in {"confirm", "spawn", "mark", "gate", "commit"} =>
          active = journal.target
    /\ host \in {"extract", "snapshot", "prepare"} => handoff # Missing
    /\ host \in {"snapshot", "prepare"} =>
          handoff.target > active /\ handoff.target \in releases

\* What runs, and on whose behalf a handoff of another release was left.
RunningInv == running # Down =>
    /\ host \in {"mark", "gate", "commit"} => running = journal.target
    /\ host \notin {"mark", "gate", "commit"} => running = installed
    /\ host \in CleanUp => journal.phase = "COMMITTED"

ReadInv == handoff # Missing /\ journal # Missing =>
    (handoff.target # journal.target => handoff.current = journal.target)

\* The type invariant in two parts: Boolean variables need another prover.
FlagsOK ==
    /\ lock \in BOOLEAN
    /\ marker \in BOOLEAN
    /\ operator \in BOOLEAN

DataOK ==
    /\ high \in Versions
    /\ handoff \in Handoff \cup {Missing}
    /\ stages \in SUBSET Releases
    /\ releases \in SUBSET Releases
    /\ partials \in SUBSET Releases
    /\ snapshots \in SUBSET Releases
    /\ active \in Versions
    /\ journal \in Journal \cup {Missing}
    /\ temps \in SUBSET {"journal", "active", "result"}
    /\ host \in Step
    /\ goal \in Goal
    /\ running \in Versions \cup {Down}
    /\ stager \in {"idle", "checking", "staged", "accepted"}
    /\ target \in Versions
    /\ installed \in Versions
    /\ crashes \in 0..MaxCrashes

IInv ==
    /\ FlagsOK /\ DataOK /\ QuietInv /\ StageInv /\ JournalInv /\ PointerInv
    /\ JournalAt /\ PointerAt /\ RunningInv /\ ReadInv

-----------------------------------------------------------------------------
LEMMA InitIInv == Init => IInv
<1> SUFFICES ASSUME Init PROVE IInv
  OBVIOUS
<1> USE ConstantsAssumption DEF Init
<1>1. FlagsOK
  BY Zenon DEF FlagsOK
<1>2. DataOK
  <2>1. 0 \in Versions /\ 0 \in 0..MaxCrashes
    BY DEF Versions
  <2> QED BY <2>1 DEF DataOK, Step, Goal
<1>3. QuietInv /\ StageInv /\ JournalInv /\ PointerInv
  BY DEF QuietInv, StageInv, JournalInv, PointerInv, Offline, CleanUp
<1>4. JournalAt /\ PointerAt /\ RunningInv /\ ReadInv
  BY DEF JournalAt, PointerAt, RunningInv, ReadInv, CleanUp
<1> QED
  BY <1>1, <1>2, <1>3, <1>4 DEF IInv

-----------------------------------------------------------------------------
\* The flags
LEMMA FlagsStep == ASSUME FlagsOK, [Next]_vars PROVE FlagsOK'
<1> USE DEF FlagsOK, hostFiles, trees, apiFiles, staging, history
<1>1. CASE Stage
  BY <1>1, Zenon DEF Stage, StageBegin, StageFetch, StageAccept, StageHandoff, StageEnds
<1>2. CASE Recovery
  BY <1>2, Zenon DEF Recovery, Start, Recover, UndoRelease, RestoreActive, Report,
     DropHandoff, DropSnapshot, DropJournal, Load, LoadFails, GivesUp
<1>3. CASE Extract \/ ExtractRefused \/ Snapshot \/ SnapshotRefused
  BY <1>3, Zenon DEF Extract, ExtractRefused, Snapshot, SnapshotRefused, GivesUp
<1>4. CASE Prepare \/ Activate \/ Confirm \/ Spawn \/ Mark \/ Healthy \/ Unhealthy \/ Commit
  BY <1>4, Zenon DEF Prepare, Activate, Confirm, Spawn, Mark, Healthy, Unhealthy, Commit,
     ProcessesEnd
<1>5. CASE Stuck
  BY <1>5, Zenon DEF Stuck, CannotWrite, ProcessesEnd
<1>6. CASE Reject \/ SpawnFails \/ Serve \/ StartFails \/ Stop
  BY <1>6, Zenon DEF Reject, SpawnFails, Serve, StartFails, Stop, ProcessesEnd, GivesUp
<1>7. CASE PowerLoss
  BY <1>7, Zenon DEF PowerLoss, ProcessesEnd
<1>8. CASE UNCHANGED vars
  BY <1>8, Zenon DEF vars
<1> QED
  BY <1>1, <1>2, <1>3, <1>4, <1>5, <1>6, <1>7, <1>8 DEF Next, Update

\* The other types: journal and handoff are read only where they are there.
LEMMA DataStep == ASSUME IInv, [Next]_vars PROVE DataOK'
<1> USE ConstantsAssumption DEF IInv, DataOK, hostFiles, trees, apiFiles, staging, history
<1>1. CASE Stage
  <2>1. CASE StageBegin
    BY <2>1 DEF StageBegin
  <2>2. CASE StageFetch
    BY <2>2 DEF StageFetch, Releases, Versions
  <2>3. CASE StageAccept
    BY <2>3 DEF StageAccept
  <2>4. CASE StageHandoff
    <3>1. target \in Releases /\ running \in Versions
      BY <2>4 DEF StageHandoff, StageInv, QuietInv
    <3>2. handoff' \in Handoff
      BY <2>4, <3>1 DEF StageHandoff, Handoff
    <3> QED BY <2>4, <3>2 DEF StageHandoff, Versions
  <2>5. CASE StageEnds
    BY <2>5 DEF StageEnds, Versions
  <2> QED BY <1>1, <2>1, <2>2, <2>3, <2>4, <2>5 DEF Stage
<1>2. CASE Recovery
  <2>1. CASE Start \/ Report \/ DropHandoff \/ Load \/ LoadFails
    BY <2>1 DEF Start, Report, DropHandoff, Load, LoadFails, GivesUp, Step
  <2>2. CASE Recover
    <3>1. journal # Missing => journal.phase \in Phase
      BY DEF Journal
    <3>2. host' \in {"load", "dropHandoff", "undoRelease", "restoreActive"}
      BY <2>2, <3>1 DEF Recover, Phase
    <3> QED BY <2>2, <3>2 DEF Recover, Step, Goal
  <2>3. CASE UndoRelease \/ DropSnapshot \/ DropJournal
    BY <2>3 DEF UndoRelease, DropSnapshot, DropJournal, Step, Goal
  <2>4. CASE RestoreActive
    <3>1. journal.previous \in Versions
      BY <2>4 DEF RestoreActive, JournalAt, Journal
    <3> QED BY <2>4, <3>1 DEF RestoreActive, Step
  <2> QED BY <1>2, <2>1, <2>2, <2>3, <2>4 DEF Recovery
<1>3. CASE Extract \/ ExtractRefused \/ Snapshot \/ SnapshotRefused \/ Prepare
  <2>1. host \in {"extract", "snapshot", "prepare"}
    BY <1>3 DEF Extract, ExtractRefused, Snapshot, SnapshotRefused, Prepare
  <2>2. handoff.target \in Releases
    BY <2>1 DEF PointerAt, Handoff
  <2>3. CASE Extract
    BY <2>2, <2>3 DEF Extract, GivesUp, Step
  <2>4. CASE ExtractRefused \/ Snapshot \/ SnapshotRefused
    BY <2>2, <2>4 DEF ExtractRefused, Snapshot, SnapshotRefused, GivesUp, Step
  <2>5. CASE Prepare
    <3>1. journal' \in Journal
      BY <2>2, <2>5 DEF Prepare, Journal, Phase
    <3> QED BY <2>5, <3>1 DEF Prepare, Step
  <2> QED BY <1>3, <2>3, <2>4, <2>5
<1>4. CASE Activate \/ Confirm \/ Spawn \/ Mark \/ Healthy \/ Unhealthy \/ Commit
  <2>1. host \in {"activate", "confirm", "spawn", "mark", "gate", "commit"}
    BY <1>4 DEF Activate, Confirm, Spawn, Mark, Healthy, Unhealthy, Commit
  <2>2. journal \in Journal
    BY <2>1 DEF JournalAt
  <2>3. journal.target \in Versions
    BY <2>2 DEF Journal, Releases, Versions
  <2>4. CASE Activate \/ Spawn \/ Healthy
    BY <2>3, <2>4 DEF Activate, Spawn, Healthy, Step
  <2>5. CASE Confirm \/ Mark \/ Commit
    <3>1. journal' \in Journal
      BY <2>2, <2>5 DEF Confirm, Mark, Commit, Journal, Phase
    <3> QED BY <2>3, <2>5, <3>1 DEF Confirm, Mark, Commit, Step, Goal
  <2>6. CASE Unhealthy
    BY <2>6 DEF Unhealthy, ProcessesEnd, Step, Goal, Versions
  <2> QED BY <1>4, <2>4, <2>5, <2>6
<1>5. CASE Stuck
  <2>1. host' = "down" /\ ProcessesEnd /\ UNCHANGED <<apiFiles, hostFiles, goal, history>>
    BY <1>5, Zenon DEF Stuck, CannotWrite
  <2> QED BY <2>1 DEF ProcessesEnd, Step, Versions
<1>6. CASE Reject \/ SpawnFails \/ Serve \/ StartFails \/ Stop
  <2>1. CASE Reject \/ StartFails
    BY <2>1 DEF Reject, StartFails, GivesUp, Step
  <2>2. CASE SpawnFails \/ Serve
    BY <2>2 DEF SpawnFails, Serve, Step, Goal
  <2>3. CASE Stop
    BY <2>3 DEF Stop, ProcessesEnd, Step, Versions
  <2> QED BY <1>6, <2>1, <2>2, <2>3
<1>7. CASE PowerLoss
  <2>1. host \in {"extract", "snapshot"} => handoff.target \in Releases
    BY DEF PointerAt, Handoff
  <2>2. PICK left \in SUBSET WritesFile, torn \in BOOLEAN :
          /\ temps' = temps \cup left
          /\ partials' = IF torn /\ host = "extract"
                         THEN partials \cup {handoff.target} ELSE partials
          /\ snapshots' = IF torn /\ host = "snapshot"
                          THEN snapshots \cup {handoff.target} ELSE snapshots
    BY <1>7 DEF PowerLoss
  <2>3. WritesFile \subseteq {"journal", "active", "result"}
    BY DEF WritesFile
  <2>4. temps' \in SUBSET {"journal", "active", "result"}
    BY <2>2, <2>3
  <2>5. partials' \in SUBSET Releases /\ snapshots' \in SUBSET Releases
    BY <2>1, <2>2
  <2>6. crashes' \in 0..MaxCrashes
    BY <1>7 DEF PowerLoss
  <2> QED BY <1>7, <2>4, <2>5, <2>6 DEF PowerLoss, ProcessesEnd, Step, Versions
<1>8. CASE UNCHANGED vars
  BY <1>8 DEF vars
<1> QED
  BY <1>1, <1>2, <1>3, <1>4, <1>5, <1>6, <1>7, <1>8 DEF Next, Update

-----------------------------------------------------------------------------
\* No process outlives the steps that need the installation to itself.
LEMMA QuietStep == ASSUME IInv, [Next]_vars PROVE QuietInv'
<1> USE DEF IInv, QuietInv, Offline, CleanUp, hostFiles, trees, apiFiles, staging, history
<1>1. CASE Stage
  BY <1>1 DEF Stage, StageBegin, StageFetch, StageAccept, StageHandoff, StageEnds, DataOK
<1>2. CASE Start \/ Report \/ DropHandoff \/ Load \/ LoadFails \/ UndoRelease \/ DropSnapshot
  BY <1>2 DEF Start, Report, DropHandoff, Load, LoadFails, UndoRelease, DropSnapshot, GivesUp, PointerAt
<1>3. CASE Recover
  <2>1. host' \in {"load", "dropHandoff", "undoRelease", "restoreActive"}
    BY <1>3 DEF Recover, DataOK, Journal, Phase
  <2> QED BY <1>3, <2>1 DEF Recover
<1>4. CASE RestoreActive
  BY <1>4 DEF RestoreActive, PointerAt
<1>5. CASE DropJournal
  BY <1>5 DEF DropJournal, DataOK, Goal
<1>6. CASE Extract \/ ExtractRefused \/ Snapshot \/ SnapshotRefused \/ Prepare
  BY <1>6 DEF Extract, ExtractRefused, Snapshot, SnapshotRefused, Prepare, GivesUp
<1>7. CASE Activate \/ Confirm \/ Mark \/ Healthy \/ Commit
  BY <1>7 DEF Activate, Confirm, Mark, Healthy, Commit
<1>8. CASE Spawn
  <2>1. journal.target # Down
    BY <1>8, ConstantsAssumption DEF Spawn, JournalAt, DataOK, Journal, Releases
  <2> QED BY <1>8, <2>1 DEF Spawn
<1>9. CASE Stuck \/ Unhealthy \/ Stop \/ PowerLoss
  <2>1. ProcessesEnd /\ host' \in {"down", "restoreActive"}
    BY <1>9 DEF Stuck, CannotWrite, Unhealthy, Stop, PowerLoss
  <2> QED BY <2>1 DEF ProcessesEnd
<1>10. CASE Reject \/ SpawnFails \/ StartFails
  BY <1>10 DEF Reject, SpawnFails, StartFails, GivesUp
<1>11. CASE Serve
  BY <1>11, ConstantsAssumption DEF Serve, DataOK, Versions
<1>12. CASE UNCHANGED vars
  BY <1>12 DEF vars
<1> QED
  BY <1>1, <1>2, <1>3, <1>4, <1>5, <1>6, <1>7, <1>8, <1>9, <1>10, <1>11, <1>12
     DEF Next, Recovery, Update

\* A handoff and a request in progress are covered by the stages.
LEMMA StageStep == ASSUME IInv, [Next]_vars PROVE StageInv'
<1> USE DEF IInv, StageInv, hostFiles, trees, apiFiles, staging, history
<1>1. CASE Stage
  <2>1. high \in Nat /\ target \in Nat
    BY ConstantsAssumption DEF DataOK, Versions
  <2>2. CASE StageBegin
    BY <2>2 DEF StageBegin
  <2>3. CASE StageFetch
    BY <2>1, <2>3 DEF StageFetch, Acceptable
  <2>4. CASE StageAccept
    <3>1. handoff # Missing => handoff.target \in Nat
      BY ConstantsAssumption DEF DataOK, Handoff, Releases
    <3> QED BY <2>1, <2>4, <3>1 DEF StageAccept
  <2>5. CASE StageHandoff
    BY <2>1, <2>5 DEF StageHandoff
  <2>6. CASE StageEnds
    BY <2>6 DEF StageEnds
  <2> QED BY <1>1, <2>2, <2>3, <2>4, <2>5, <2>6 DEF Stage
<1>2. CASE UNCHANGED <<high, handoff, stages, stager, target>>
  BY <1>2
<1>3. CASE UNCHANGED <<high, handoff, stages>> /\ ProcessesEnd
  BY <1>3 DEF ProcessesEnd
<1>4. CASE DropHandoff
  BY <1>4 DEF DropHandoff
<1>5. CASE Start \/ Recover \/ UndoRelease \/ RestoreActive \/ Report \/ DropSnapshot
            \/ DropJournal \/ Load \/ LoadFails
  <2>1. UNCHANGED <<high, handoff, stages, stager, target>>
    BY <1>5 DEF Start, Recover, UndoRelease, RestoreActive, Report, DropSnapshot,
       DropJournal, Load, LoadFails, GivesUp
  <2> QED BY <1>2, <2>1
<1>6. CASE Extract \/ ExtractRefused \/ Snapshot \/ SnapshotRefused \/ Prepare \/ Activate
            \/ Confirm \/ Spawn \/ Mark \/ Healthy \/ Commit
  <2>1. UNCHANGED <<high, handoff, stages, stager, target>>
    BY <1>6 DEF Extract, ExtractRefused, Snapshot, SnapshotRefused, Prepare, Activate,
       Confirm, Spawn, Mark, Healthy, Commit, GivesUp
  <2> QED BY <1>2, <2>1
<1>7. CASE Reject \/ SpawnFails \/ Serve \/ StartFails \/ UNCHANGED vars
  <2>1. UNCHANGED <<high, handoff, stages, stager, target>>
    BY <1>7 DEF Reject, SpawnFails, Serve, StartFails, GivesUp, vars
  <2> QED BY <1>2, <2>1
<1>8. CASE Stuck \/ Unhealthy \/ Stop \/ PowerLoss
  <2>1. UNCHANGED <<high, handoff, stages>> /\ ProcessesEnd
    BY <1>8 DEF Stuck, CannotWrite, Unhealthy, Stop, PowerLoss
  <2> QED BY <1>3, <2>1
<1> QED
  BY <1>1, <1>4, <1>5, <1>6, <1>7, <1>8 DEF Next, Recovery, Update

-----------------------------------------------------------------------------
\* The journal moves before and after the pointer, never with it.
LEMMA JournalStep == ASSUME IInv, [Next]_vars PROVE JournalInv' /\ PointerInv'
<1> USE DEF IInv, JournalInv, PointerInv, hostFiles, trees
<1>1. CASE UNCHANGED <<journal, active, releases, installed>>
  BY <1>1
<1>2. CASE Stage \/ Stuck
  <2>1. UNCHANGED <<journal, active, releases, installed>>
    BY <1>2 DEF Stage, StageBegin, StageFetch, StageAccept, StageHandoff, StageEnds, Stuck,
       CannotWrite, history
  <2> QED BY <1>1, <2>1
<1>3. CASE Start \/ Recover \/ Report \/ DropHandoff \/ DropSnapshot \/ Load \/ LoadFails
  <2>1. UNCHANGED <<journal, active, releases, installed>>
    BY <1>3 DEF Start, Recover, Report, DropHandoff, DropSnapshot, Load, LoadFails, history
  <2> QED BY <1>1, <2>1
<1>4. CASE ExtractRefused \/ Snapshot \/ SnapshotRefused \/ Spawn \/ Healthy \/ Unhealthy
  <2>1. UNCHANGED <<journal, active, releases, installed>>
    BY <1>4 DEF ExtractRefused, Snapshot, SnapshotRefused, Spawn, Healthy, Unhealthy, history
  <2> QED BY <1>1, <2>1
<1>5. CASE Reject \/ SpawnFails \/ Serve \/ StartFails \/ Stop \/ PowerLoss \/ UNCHANGED vars
  <2>1. UNCHANGED <<journal, active, releases, installed>>
    BY <1>5 DEF Reject, SpawnFails, Serve, StartFails, Stop, PowerLoss, vars, history
  <2> QED BY <1>1, <2>1
<1>6. CASE UndoRelease
  <2>1. journal \in Journal /\ journal.phase = "PREPARED"
    BY <1>6 DEF UndoRelease, JournalAt, DataOK
  <2> QED BY <1>6, <2>1, MissingAssumption DEF UndoRelease, history
<1>7. CASE RestoreActive
  BY <1>7 DEF RestoreActive, history, JournalAt
<1>8. CASE DropJournal
  <2>1. /\ journal \in Journal
        /\ journal.target \in Nat /\ journal.previous \in Nat
    BY <1>8, ConstantsAssumption DEF DropJournal, JournalAt, DataOK, Journal, CleanUp,
       Releases, Versions
  <2>2. CASE journal.phase = "COMMITTED"
    BY <1>8, <2>1, <2>2 DEF DropJournal, history
  <2>3. CASE journal.phase # "COMMITTED" /\ active = journal.previous
    BY <1>8, <2>1, <2>3 DEF DropJournal, history
  <2>4. CASE journal.phase # "COMMITTED" /\ active # journal.previous
    BY <1>8, <2>1, <2>4 DEF DropJournal, history, JournalAt, CleanUp
  <2> QED BY <2>2, <2>3, <2>4
<1>9. CASE Extract
  BY <1>9 DEF Extract, JournalAt, PointerAt
<1>10. CASE Prepare
  <2>1. /\ handoff \in Handoff /\ handoff.target > active
        /\ active = installed
    BY <1>10 DEF Prepare, PointerAt, DataOK
  <2>2. handoff.target \in Nat /\ active \in Nat
    BY <2>1, ConstantsAssumption DEF Handoff, Releases, Versions, DataOK
  <2>3. /\ journal'.phase = "PREPARED" /\ journal'.target = handoff.target
        /\ journal'.previous = active /\ journal' \in Journal
    BY <1>10, <2>1 DEF Prepare, Journal, Handoff, DataOK, Phase
  <2> QED BY <1>10, <2>1, <2>2, <2>3, MissingAssumption DEF Prepare, history
<1>11. CASE Activate
  BY <1>11 DEF Activate, JournalAt, PointerAt, history
<1>12. CASE Confirm \/ Mark \/ Commit
  <2>1. journal \in Journal /\ journal.phase # "COMMITTED" /\ journal.target \in releases
    BY <1>12 DEF Confirm, Mark, Commit, JournalAt, PointerAt, DataOK
  <2>2. /\ journal' \in Journal
        /\ journal'.target = journal.target /\ journal'.previous = journal.previous
    BY <1>12, <2>1 DEF Confirm, Mark, Commit, Journal, Phase
  <2>3. CASE Confirm \/ Mark
    <3>1. journal'.phase # "COMMITTED"
      BY <2>1, <2>3 DEF Confirm, Mark, Journal
    <3> QED BY <2>1, <2>2, <2>3, <3>1, MissingAssumption DEF Confirm, Mark, history
  <2>4. CASE Commit
    <3>1. journal'.phase = "COMMITTED" /\ active = journal.target
      BY <2>1, <2>4 DEF Commit, Journal, PointerAt
    <3> QED BY <2>1, <2>2, <2>4, <3>1, MissingAssumption DEF Commit
  <2> QED BY <1>12, <2>3, <2>4
<1> QED
  BY <1>2, <1>3, <1>4, <1>5, <1>6, <1>7, <1>8, <1>9, <1>10, <1>11, <1>12
     DEF Next, Recovery, Update

\* The step the host is at tells what the journal says.
LEMMA JournalAtStep == ASSUME IInv, [Next]_vars PROVE JournalAt'
<1> USE DEF IInv, JournalAt, CleanUp, hostFiles, trees, history
<1>1. CASE UNCHANGED <<journal, active, releases, host, goal>>
  BY <1>1
<1>2. CASE Stage \/ UNCHANGED vars
  <2>1. UNCHANGED <<journal, active, releases, host, goal>>
    BY <1>2 DEF Stage, StageBegin, StageFetch, StageAccept, StageHandoff, StageEnds, vars
  <2> QED BY <1>1, <2>1
<1>3. CASE host' \in {"down", "recover"}
  BY <1>3
<1>4. CASE Stuck \/ Stop \/ PowerLoss \/ Reject \/ StartFails \/ Start
  <2>1. host' \in {"down", "recover"}
    BY <1>4 DEF Stuck, CannotWrite, Stop, PowerLoss, Reject, StartFails, Start, GivesUp
  <2> QED BY <1>3, <2>1
<1>5. CASE LoadFails \/ ExtractRefused \/ SnapshotRefused
  <2>1. host' \in {"down", "recover"}
    BY <1>5 DEF LoadFails, ExtractRefused, SnapshotRefused, GivesUp
  <2> QED BY <1>3, <2>1
<1>6. CASE Recover
  <2>1. CASE journal = Missing
    BY <1>6, <2>1 DEF Recover
  <2>2. CASE journal # Missing
    <3>1. journal.phase \in Phase
      BY <2>2 DEF DataOK, Journal
    <3> QED BY <1>6, <2>2, <3>1 DEF Recover, Phase
  <2> QED BY <2>1, <2>2
<1>7. CASE UndoRelease
  BY <1>7 DEF UndoRelease, DataOK, PointerAt
<1>8. CASE RestoreActive
  BY <1>8 DEF RestoreActive, PointerAt
<1>9. CASE Report \/ DropHandoff \/ DropSnapshot
  BY <1>9 DEF Report, DropHandoff, DropSnapshot
<1>10. CASE DropJournal
  BY <1>10 DEF DropJournal, DataOK, Goal
<1>11. CASE Load \/ Extract \/ Snapshot \/ Serve
  BY <1>11 DEF Load, Extract, Snapshot, Serve, GivesUp
<1>12. CASE Prepare
  <2>1. handoff \in Handoff
    BY <1>12 DEF Prepare, PointerAt, DataOK
  <2>2. journal' \in Journal /\ journal'.phase = "PREPARED"
    BY <1>12, <2>1 DEF Prepare, Journal, Handoff, DataOK, Phase
  <2> QED BY <1>12, <2>2, MissingAssumption DEF Prepare
<1>13. CASE Activate \/ Spawn \/ SpawnFails \/ Healthy \/ Unhealthy
  BY <1>13 DEF Activate, Spawn, SpawnFails, Healthy, Unhealthy
<1>14. CASE Confirm \/ Mark \/ Commit
  <2>1. journal \in Journal
    BY <1>14 DEF Confirm, Mark, Commit, DataOK
  <2>2. CASE Confirm
    <3>1. journal' \in Journal /\ journal'.phase = "ACTIVATED"
      BY <2>1, <2>2 DEF Confirm, Journal, Phase
    <3> QED BY <2>2, <3>1, MissingAssumption DEF Confirm
  <2>3. CASE Mark
    <3>1. journal' \in Journal /\ journal'.phase = "HEALTH_CHECKING"
      BY <2>1, <2>3 DEF Mark, Journal, Phase
    <3> QED BY <2>3, <3>1, MissingAssumption DEF Mark
  <2>4. CASE Commit
    <3>1. journal' \in Journal /\ journal'.phase = "COMMITTED"
      BY <2>1, <2>4 DEF Commit, Journal, Phase
    <3> QED BY <2>4, <3>1, MissingAssumption DEF Commit
  <2> QED BY <1>14, <2>2, <2>3, <2>4
<1> QED
  BY <1>2, <1>4, <1>5, <1>6, <1>7, <1>8, <1>9, <1>10, <1>11, <1>12, <1>13, <1>14
     DEF Next, Recovery, Update

\* ... and where the pointer is.
LEMMA PointerAtStep == ASSUME IInv, [Next]_vars PROVE PointerAt'
<1> USE DEF IInv, PointerAt, hostFiles, trees, apiFiles, history
<1>1. CASE host' \in {"down", "recover"} \cup CleanUp
  BY <1>1 DEF CleanUp
<1>2. CASE Stage
  <2>1. UNCHANGED <<journal, active, releases, installed, host, goal>>
    BY <1>2 DEF Stage, StageBegin, StageFetch, StageAccept, StageHandoff, StageEnds
  <2>2. running # Down
    BY <1>2 DEF Stage, StageBegin, StageFetch, StageAccept, StageHandoff, StageEnds, QuietInv
  <2>3. host \notin Offline
    BY <2>2 DEF QuietInv
  <2> QED BY <2>1, <2>3 DEF Offline
<1>3. CASE Stuck \/ Stop \/ PowerLoss \/ Reject \/ StartFails \/ Start
  <2>1. host' \in {"down", "recover"}
    BY <1>3 DEF Stuck, CannotWrite, Stop, PowerLoss, Reject, StartFails, Start, GivesUp
  <2> QED BY <1>1, <2>1
<1>4. CASE LoadFails \/ ExtractRefused \/ SnapshotRefused
  <2>1. host' \in {"down", "recover"}
    BY <1>4 DEF LoadFails, ExtractRefused, SnapshotRefused, GivesUp
  <2> QED BY <1>1, <2>1
<1>5. CASE UndoRelease \/ RestoreActive \/ Report \/ DropHandoff \/ DropSnapshot \/ Commit
  <2>1. host' \in CleanUp
    BY <1>5 DEF UndoRelease, RestoreActive, Report, DropHandoff, DropSnapshot, Commit, CleanUp
  <2> QED BY <1>1, <2>1
<1>6. CASE Recover
  <2>1. host' \in {"load", "dropHandoff", "undoRelease", "restoreActive"} /\ goal' = "load"
    BY <1>6 DEF Recover, DataOK, Journal, Phase
  <2> QED BY <1>6, <2>1
<1>7. CASE DropJournal
  <2>1. goal \in Goal
    BY DEF DataOK
  <2>2. goal \in {"start", "serving"} => active = installed
    BY <1>7 DEF DropJournal, JournalAt, JournalInv, CleanUp
  <2> QED BY <1>7, <2>1, <2>2 DEF DropJournal, Goal
<1>8. CASE Load
  <2>1. active = installed
    BY <1>8 DEF Load, Loadable, PointerInv, JournalAt
  <2> QED BY <1>8, <2>1 DEF Load
<1>9. CASE Extract
  BY <1>9 DEF Extract, GivesUp
<1>10. CASE Snapshot \/ Serve
  BY <1>10 DEF Snapshot, Serve
<1>11. CASE Prepare
  <2>1. handoff \in Handoff
    BY <1>11 DEF Prepare, DataOK
  <2>2. journal'.target = handoff.target /\ journal'.previous = active
    BY <1>11 DEF Prepare
  <2> QED BY <1>11, <2>2 DEF Prepare
<1>12. CASE Activate \/ Spawn \/ SpawnFails \/ Healthy \/ Unhealthy
  BY <1>12 DEF Activate, Spawn, SpawnFails, Healthy, Unhealthy
<1>13. CASE Confirm \/ Mark
  <2>1. journal \in Journal
    BY <1>13 DEF Confirm, Mark, DataOK, JournalAt
  <2>2. journal'.target = journal.target
    BY <1>13, <2>1 DEF Confirm, Mark, Journal
  <2> QED BY <1>13, <2>2 DEF Confirm, Mark
<1>14. CASE UNCHANGED vars
  BY <1>14 DEF vars
<1> QED
  BY <1>2, <1>3, <1>4, <1>5, <1>6, <1>7, <1>8, <1>9, <1>10, <1>11, <1>12, <1>13, <1>14
     DEF Next, Recovery, Update

\* What runs is the installed release, or the one the journal has on trial.
LEMMA RunningStep == ASSUME IInv, [Next]_vars PROVE RunningInv'
<1> USE DEF IInv, RunningInv, hostFiles, trees, apiFiles, staging, history
<1>1. CASE running' = Down
  BY <1>1
<1>2. CASE Stuck \/ Unhealthy \/ Stop \/ PowerLoss
  <2>1. running' = Down
    BY <1>2 DEF Stuck, CannotWrite, Unhealthy, Stop, PowerLoss, ProcessesEnd
  <2> QED BY <1>1, <2>1
<1>3. CASE host \in Offline /\ UNCHANGED running
  <2>1. running' = Down
    BY <1>3 DEF QuietInv
  <2> QED BY <1>1, <2>1
<1>4. CASE Recovery /\ host \notin CleanUp
  <2>1. host \in Offline /\ UNCHANGED running
    BY <1>4 DEF Recovery, Start, Recover, UndoRelease, RestoreActive, Report, DropHandoff,
       DropSnapshot, DropJournal, Load, LoadFails, GivesUp, Offline, CleanUp
  <2> QED BY <1>3, <2>1
<1>5. CASE Extract \/ ExtractRefused \/ Snapshot \/ SnapshotRefused \/ Prepare \/ Activate
            \/ Confirm \/ Reject \/ SpawnFails \/ StartFails
  <2>1. host \in Offline /\ UNCHANGED running
    BY <1>5 DEF Extract, ExtractRefused, Snapshot, SnapshotRefused, Prepare, Activate,
       Confirm, Reject, SpawnFails, StartFails, GivesUp, Offline
  <2> QED BY <1>3, <2>1
<1>6. CASE Stage
  <2>1. UNCHANGED <<journal, installed, host, running>>
    BY <1>6 DEF Stage, StageBegin, StageFetch, StageAccept, StageHandoff, StageEnds
  <2> QED BY <2>1 DEF CleanUp
<1>7. CASE Report \/ DropHandoff \/ DropSnapshot
  BY <1>7 DEF Report, DropHandoff, DropSnapshot, CleanUp
<1>8. CASE DropJournal
  BY <1>8 DEF DropJournal, CleanUp, DataOK, Goal
<1>9. CASE Spawn
  BY <1>9 DEF Spawn, CleanUp
<1>10. CASE Mark
  <2>1. journal'.target = journal.target
    BY <1>10 DEF Mark, DataOK, JournalAt, Journal
  <2> QED BY <1>10, <2>1 DEF Mark, CleanUp
<1>11. CASE Healthy
  BY <1>11 DEF Healthy, CleanUp
<1>12. CASE Commit
  <2>1. journal'.phase = "COMMITTED"
    BY <1>12 DEF Commit, DataOK, JournalAt, Journal
  <2> QED BY <1>12, <2>1 DEF Commit, CleanUp
<1>13. CASE Serve
  BY <1>13 DEF Serve, PointerAt, CleanUp
<1>14. CASE UNCHANGED vars
  BY <1>14 DEF vars, CleanUp
<1>15. host \in CleanUp /\ Recovery =>
          Report \/ DropHandoff \/ DropSnapshot \/ DropJournal
  BY DEF CleanUp, Recovery, Start, Recover, UndoRelease, RestoreActive, Load, LoadFails
<1> QED
  BY <1>2, <1>4, <1>5, <1>6, <1>7, <1>8, <1>9, <1>10, <1>11, <1>12, <1>13, <1>14, <1>15
     DEF Next, Update

\* Only the candidate on trial leaves a handoff that is not its own.
LEMMA ReadStep == ASSUME IInv, [Next]_vars PROVE ReadInv'
<1> USE DEF IInv, ReadInv, hostFiles, trees, apiFiles, history
<1>1. CASE UNCHANGED <<journal, handoff>>
  BY <1>1
<1>2. CASE StageHandoff
  <2>1. running # Down /\ host \notin Offline
    BY <1>2 DEF StageHandoff, QuietInv
  <2>2. journal # Missing => running = journal.target
    BY <2>1 DEF RunningInv, JournalInv, JournalAt, DataOK, Step, Offline, CleanUp
  <2> QED BY <1>2, <2>2 DEF StageHandoff
<1>3. CASE DropHandoff
  BY <1>3 DEF DropHandoff
<1>4. CASE Prepare
  BY <1>4 DEF Prepare
<1>5. CASE Confirm \/ Mark \/ Commit
  <2>1. journal'.target = journal.target /\ journal # Missing /\ UNCHANGED handoff
    BY <1>5 DEF Confirm, Mark, Commit, DataOK, JournalAt, Journal
  <2> QED BY <2>1
<1>6. CASE DropJournal
  BY <1>6 DEF DropJournal
<1>7. CASE StageBegin \/ StageFetch \/ StageAccept \/ StageEnds \/ Stuck \/ Reject
            \/ SpawnFails \/ Serve \/ StartFails \/ Stop \/ PowerLoss \/ UNCHANGED vars
  <2>1. UNCHANGED <<journal, handoff>>
    BY <1>7 DEF StageBegin, StageFetch, StageAccept, StageEnds, Stuck, CannotWrite, Reject,
       SpawnFails, Serve, StartFails, Stop, PowerLoss, vars
  <2> QED BY <1>1, <2>1
<1>8. CASE Start \/ Recover \/ UndoRelease \/ RestoreActive \/ Report \/ DropSnapshot
            \/ Load \/ LoadFails
  <2>1. UNCHANGED <<journal, handoff>>
    BY <1>8 DEF Start, Recover, UndoRelease, RestoreActive, Report, DropSnapshot, Load, LoadFails
  <2> QED BY <1>1, <2>1
<1>9. CASE Extract \/ ExtractRefused \/ Snapshot \/ SnapshotRefused \/ Activate \/ Spawn
            \/ Healthy \/ Unhealthy
  <2>1. UNCHANGED <<journal, handoff>>
    BY <1>9 DEF Extract, ExtractRefused, Snapshot, SnapshotRefused, Activate, Spawn,
       Healthy, Unhealthy
  <2> QED BY <1>1, <2>1
<1> QED
  BY <1>2, <1>3, <1>4, <1>5, <1>6, <1>7, <1>8, <1>9 DEF Next, Stage, Recovery, Update

THEOREM Invariance == Spec => []IInv
<1>1. IInv /\ [Next]_vars => IInv'
  BY FlagsStep, DataStep, QuietStep, StageStep, JournalStep, JournalAtStep, PointerAtStep,
     RunningStep, ReadStep DEF IInv
<1> QED
  BY InitIInv, <1>1, PTL DEF Spec

-----------------------------------------------------------------------------
\* The variables of the installation keep their types.
THEOREM HostTypeCorrect == Spec => []TypeOK
<1>1. IInv => TypeOK
  BY DEF IInv, FlagsOK, DataOK, TypeOK
<1> QED
  BY Invariance, <1>1, PTL

\* A release on trial always has behind it the journal that takes a restart
\* back to the installed one (PreparedUpdate, recover_interrupted).
THEOREM HostRollbackReady == Spec => []RollbackReady
<1>1. IInv => RollbackReady
  BY DEF IInv, RunningInv, JournalInv, JournalAt, RollbackReady
<1> QED
  BY Invariance, <1>1, PTL

\* A handoff is completely staged, below the high-water mark, and can be
\* dropped unread only when the candidate on trial left it
\* (performCheckAndStage, PreparedUpdate::commit).
THEOREM HostHandoffBacked == Spec => []HandoffBacked
<1>1. IInv => HandoffBacked
  BY DEF IInv, StageInv, ReadInv, HandoffBacked
<1> QED
  BY Invariance, <1>1, PTL

-----------------------------------------------------------------------------
\* The mode the refinement mapping reads off the host's step.
Trial == {"mark", "gate", "commit"}
Mode ==
    CASE running = Down -> "down"
      [] running # Down /\ host \in Trial -> "trial"
      [] running # Down /\ host \notin Trial -> "serving"

\* While processes run, they keep running the same release in the same mode.
Steady == UNCHANGED <<installed, running, Mode>>

LEMMA OfflineSteady ==
    ASSUME IInv, running = Down, running' = Down, UNCHANGED installed
    PROVE  Steady
  BY DEF Steady, Mode

LEMMA ServingSteady ==
    ASSUME UNCHANGED <<installed, running>>, host \in Trial <=> host' \in Trial
    PROVE  Steady
  BY DEF Steady, Mode

LEMMA EndsStop ==
    ASSUME ProcessesEnd, UNCHANGED installed
    PROVE  Register!Stop
  BY DEF ProcessesEnd, Register!Stop

LEMMA RegisterStep ==
    ASSUME IInv, [Next]_vars
    PROVE  \/ Register!Serve \/ Register!Try \/ Register!Accept \/ Register!Stop
           \/ Steady
<1> USE DEF IInv, hostFiles, trees, apiFiles, staging, history
<1>1. CASE Stuck \/ Unhealthy \/ Stop \/ PowerLoss
  <2>1. ProcessesEnd /\ UNCHANGED installed
    BY <1>1 DEF Stuck, CannotWrite, Unhealthy, Stop, PowerLoss
  <2> QED BY <2>1, EndsStop
<1>2. CASE Stage \/ UNCHANGED vars
  <2>1. UNCHANGED <<installed, running, host>>
    BY <1>2 DEF Stage, StageBegin, StageFetch, StageAccept, StageHandoff, StageEnds, vars
  <2> QED BY <2>1, ServingSteady
<1>3. CASE host \in Offline /\ UNCHANGED <<installed, running>>
  BY <1>3, OfflineSteady DEF QuietInv
<1>4. CASE Start \/ Recover \/ UndoRelease \/ RestoreActive \/ Load \/ LoadFails
  <2>1. host \in Offline /\ UNCHANGED <<installed, running>>
    BY <1>4 DEF Start, Recover, UndoRelease, RestoreActive, Load, LoadFails, GivesUp, Offline
  <2> QED BY <1>3, <2>1
<1>5. CASE Extract \/ ExtractRefused \/ Snapshot \/ SnapshotRefused \/ Prepare \/ Activate
            \/ Confirm \/ Reject \/ SpawnFails \/ StartFails
  <2>1. host \in Offline /\ UNCHANGED <<installed, running>>
    BY <1>5 DEF Extract, ExtractRefused, Snapshot, SnapshotRefused, Prepare, Activate,
       Confirm, Reject, SpawnFails, StartFails, GivesUp, Offline
  <2> QED BY <1>3, <2>1
<1>6. CASE Report \/ DropHandoff \/ DropSnapshot
  BY <1>6, ServingSteady DEF Report, DropHandoff, DropSnapshot, Trial
<1>7. CASE DropJournal
  <2>1. host \notin Trial /\ host' \notin Trial /\ UNCHANGED <<installed, running>>
    BY <1>7 DEF DropJournal, Trial, DataOK, Goal
  <2> QED BY <2>1, ServingSteady
<1>8. CASE Mark \/ Healthy
  BY <1>8, ServingSteady DEF Mark, Healthy, Trial
<1>9. CASE Spawn
  <2>1. /\ journal.target \in Releases /\ journal.target > journal.previous
        /\ installed = journal.previous
    <3>1. journal \in Journal /\ journal.phase = "ACTIVATED"
      BY <1>9 DEF Spawn, JournalAt, DataOK
    <3>2. journal.target \in Nat /\ journal.previous \in Nat
      BY <3>1, ConstantsAssumption DEF Journal, Releases, Versions
    <3> QED BY <1>9, <3>1, <3>2 DEF Spawn, JournalInv, JournalAt, Journal
  <2>2. running = Down /\ running' = journal.target /\ host' = "mark" /\ UNCHANGED installed
    BY <1>9 DEF Spawn, QuietInv, Offline
  <2>3. running' # Down
    BY <2>1, <2>2, ConstantsAssumption DEF Releases
  <2> QED BY <2>1, <2>2, <2>3 DEF Register!Try
<1>10. CASE Commit
  <2>1. /\ host = "commit" /\ host' = "report" /\ installed' = journal.target
        /\ UNCHANGED running
    BY <1>10 DEF Commit
  <2>2. running # Down /\ running = journal.target
    BY <2>1 DEF QuietInv, RunningInv
  <2> QED BY <2>1, <2>2 DEF Register!Accept
<1>11. CASE Serve
  <2>1. /\ running = Down /\ running' = installed /\ host' = "serving"
        /\ UNCHANGED installed
    BY <1>11 DEF Serve, QuietInv, Offline, PointerAt
  <2>2. running' # Down
    BY <2>1, ConstantsAssumption DEF DataOK, Versions
  <2> QED BY <2>1, <2>2 DEF Register!Serve
<1> QED
  BY <1>1, <1>2, <1>4, <1>5, <1>6, <1>7, <1>8, <1>9, <1>10, <1>11 DEF Next, Recovery, Update

\* Through every crash and recovery the host serves the installed release or
\* has a newer one on trial, and a release is installed only from its own
\* trial (RuntimeInstance::start, PreparedUpdate::commit, rollback_journal).
THEOREM HostRunsInstalled == Spec => RunsInstalled
<1>1. Init => Register!RegisterInit
  BY DEF Init, Register!RegisterInit
<1>2. IInv /\ [Next]_vars =>
        [\/ Register!Serve \/ Register!Try \/ Register!Accept
         \/ Register!Stop]_<<installed, running, Mode>>
  BY RegisterStep DEF Steady
<1> QED
  BY <1>1, <1>2, Invariance, PTL DEF Spec, RunsInstalled, Register!RegisterSpec, Mode, Trial
=============================================================================
