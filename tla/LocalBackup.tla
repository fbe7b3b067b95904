---------------------------- MODULE LocalBackup ----------------------------
(***************************************************************************)
(* The backups of a restaurant's database (LocalBackupRuntime).  A backup  *)
(* is two files, the encrypted dump and a manifest that is renamed last;   *)
(* it is listed when both are there.  Every backup is copied to an         *)
(* external disk and to the cloud, at once or by the retries of the        *)
(* scheduler, and old ones are removed by the retention of each place.     *)
(*                                                                         *)
(* Two actors share the runtime: the export request of the owner, and the  *)
(* maintenance tick, which takes the scheduled backup, retries the copies  *)
(* and runs the restore drill.  A step is what the code does between two   *)
(* awaits that another actor, or a crash, can tell apart.  Both copies are *)
(* configured, as in every production profile; manifests of version 1 are  *)
(* left out, and one class of periods stands for days, weeks and months.   *)
(***************************************************************************)
EXTENDS Naturals, FiniteSets

CONSTANTS
    MaxBackups,     \* bound: calls of createBackup that are not refused
    LocalKeep,      \* periods the local retention keeps
    ExternalKeep,   \* periods the external retention keeps, strictly longer
    MaxFaults       \* bound: ends of the process, lost writes of the queues
                    \* and files that cannot be removed, together

ASSUME ConstantsAssumption ==
    /\ MaxBackups \in Nat /\ MaxFaults \in Nat
    /\ LocalKeep \in Nat \ {0} /\ ExternalKeep \in Nat
    /\ LocalKeep < ExternalKeep

Backups == 1..MaxBackups
Actors == {"export", "tick"}
Files == Backups \X {"cipher", "manifest"}

VARIABLES
    \* files: the backup directory, the external disk, the bucket
    local, external, cloud,
    \* replicationState in memory, and the copy of it that was last written
    pending, cloudPending, completed, saved,
    \* the process; whose createBackup runs; the lock file: its owner, or what
    \* a dead process left, which is stale after lockStaleMs
    up, maker, lock,
    \* what each actor does next, to which backup, which files its retention
    \* still removes; which backups the retry loop of the tick still visits
    step, item, doomed, todo,
    \* the backups begun, the day of each; history: the ones that were ever
    \* complete on the external disk; faults so far
    made, born, copied, faults

files == <<local, external, cloud>>
queues == <<pending, cloudPending, completed, saved>>
locks == <<up, maker, lock>>
works == <<step, item, doomed, todo>>
history == <<made, born, copied, faults>>
vars == <<files, queues, locks, works, history>>

\* scanBackupsAt
Whole(b) == {<<b, "cipher">>, <<b, "manifest">>}
Listed(dir) == {b \in Backups : Whole(b) \subseteq dir}

Vault == INSTANCE BackupVault
    WITH listed <- Listed(local),
         safe <- {b \in copied : Whole(b) \subseteq cloud},
         tested <- IF step["tick"] = "drilling" THEN item["tick"] ELSE 0,
         period <- born

Kept(dir, n) == Vault!Keep(Listed(dir), born, n)

\* loadAndReconcileReplicationState works on what was last written.
State == [pending : SUBSET Backups, cloudPending : SUBSET Backups,
          completed : SUBSET Backups]
Step == {"idle", "cipher", "manifest", "enqueue", "copyCipher", "copyManifest",
         "extScan", "extDrop", "cloudEnqueue", "upload", "retain", "drop",
         "finish", "retry", "nextCopy", "cloudRetry", "nextUpload",
         "drillDue", "drilling"}
\* Steps that work on one backup
OnItem == {"cipher", "manifest", "enqueue", "copyCipher", "copyManifest", "upload",
           "drilling"}

TypeOK ==
    /\ local \in SUBSET Files /\ external \in SUBSET Files
    /\ cloud \in SUBSET Files
    /\ pending \in SUBSET Backups /\ cloudPending \in SUBSET Backups
    /\ completed \in SUBSET Backups /\ saved \in State
    /\ up \in BOOLEAN /\ maker \in Actors \cup {"none"}
    /\ lock \in Actors \cup {"free", "orphan", "stale"}
    /\ step \in [Actors -> Step] /\ item \in [Actors -> 0..MaxBackups]
    /\ \A a \in Actors : step[a] \in OnItem => item[a] \in Backups
    /\ doomed \in [Actors -> SUBSET Files] /\ todo \in SUBSET Backups
    /\ made \in 0..MaxBackups /\ born \in [Backups -> 0..MaxBackups]
    /\ copied \in SUBSET Backups /\ faults \in 0..MaxFaults

Init ==
    /\ local = {} /\ external = {} /\ cloud = {}
    /\ pending = {} /\ cloudPending = {} /\ completed = {}
    /\ saved = [pending |-> {}, cloudPending |-> {}, completed |-> {}]
    /\ up = TRUE /\ maker = "none" /\ lock = "free"
    /\ step = [a \in Actors |-> "idle"] /\ item = [a \in Actors |-> 0]
    /\ doomed = [a \in Actors |-> {}] /\ todo = {}
    /\ made = 0 /\ born = [b \in Backups |-> 0] /\ copied = {} /\ faults = 0

-----------------------------------------------------------------------------
Fault == faults < MaxFaults /\ faults' = faults + 1

\* persistReplicationStateBestEffort writes the whole state; the write may
\* fail, come too late for a crash, or be overtaken by an older one.
Persist ==
    \/ /\ saved' = [pending |-> pending', cloudPending |-> cloudPending',
                    completed |-> completed']
       /\ UNCHANGED faults
    \/ Fault /\ UNCHANGED saved

\* unlink(f).catch(() => undefined) in a loop over a retention's files
Unlink(dir, f) == (dir' = dir \ {f} /\ UNCHANGED faults) \/ (UNCHANGED dir /\ Fault)

Goes(a, from, to) == step[a] = from /\ step' = [step EXCEPT ![a] = to]
TakesNothing == UNCHANGED <<item, doomed, todo>>

\* What follows a copy, the external retention and an upload, in createBackup
\* and in the retry loops.
AfterCopy(a) == IF maker = a THEN "extScan" ELSE "nextCopy"
AfterCopyFailed(a) == IF maker = a THEN "cloudEnqueue" ELSE "nextCopy"
AfterExternal(a) == IF maker = a THEN "cloudEnqueue" ELSE "cloudRetry"
AfterUpload(a) == IF maker = a THEN "retain" ELSE "nextUpload"

\* acquireLock: a lock that a dead process left is taken over once it is stale.
TakeLock(a) == lock \in {"free", "stale"} /\ lock' = a
ReleaseLock(a) == lock' = IF lock = a THEN "free" ELSE lock

-----------------------------------------------------------------------------
\* createBackup

\* running and restoreVerificationRunning are tested and set before the first
\* await; a refused call changes nothing.  The clock gives the backup its day
\* and may have passed midnight.
Begin(a) ==
    /\ up /\ made < MaxBackups
    /\ maker = "none" /\ step["tick"] # "drilling"
    /\ Goes(a, "idle", "cipher")
    /\ maker' = a
    /\ TakeLock(a)
    /\ made' = made + 1
    /\ item' = [item EXCEPT ![a] = made + 1]
    /\ \E midnight \in {0, 1} :
          born' = [born EXCEPT ![made + 1] =
                      IF made = 0 THEN 0 ELSE born[made] + midnight]
    /\ UNCHANGED <<files, queues, up, doomed, todo, copied, faults>>

\* pg_dump, the encryption or a write fails; partial files are removed.
DumpFails(a) ==
    /\ Goes(a, "cipher", "finish")
    /\ UNCHANGED <<files, queues, locks, history>> /\ TakesNothing

\* The encrypted dump is renamed to its name.
PublishCipher(a) ==
    /\ Goes(a, "cipher", "manifest")
    /\ local' = local \cup {<<item[a], "cipher">>}
    /\ UNCHANGED <<external, cloud, queues, locks, history>> /\ TakesNothing

\* The manifest cannot be renamed; the dump is removed if that works.
ManifestFails(a) ==
    /\ Goes(a, "manifest", "finish")
    /\ Unlink(local, <<item[a], "cipher">>)
    /\ UNCHANGED <<external, cloud, queues, locks, made, born, copied>>
    /\ TakesNothing

Publish(a) ==
    /\ Goes(a, "manifest", "enqueue")
    /\ local' = local \cup {<<item[a], "manifest">>}
    /\ UNCHANGED <<external, cloud, queues, locks, history>> /\ TakesNothing

\* enqueueAndReplicate
Enqueue(a) ==
    /\ Goes(a, "enqueue", "copyCipher")
    /\ pending' = pending \cup {item[a]}
    /\ UNCHANGED <<cloudPending, completed>> /\ Persist
    /\ UNCHANGED <<files, locks, made, born, copied>> /\ TakesNothing

\* enqueueAndUploadCloud
CloudEnqueue(a) ==
    /\ Goes(a, "cloudEnqueue", "upload")
    /\ cloudPending' = cloudPending \cup {item[a]}
    /\ UNCHANGED <<pending, completed>> /\ Persist
    /\ UNCHANGED <<files, locks, made, born, copied>> /\ TakesNothing

\* applyRetention reads the directory and chooses; the scan may fail.
Retain(a) ==
    /\ Goes(a, "retain", "drop")
    /\ doomed' = [doomed EXCEPT ![a] =
                     UNION {Whole(b) : b \in Listed(local) \ Kept(local, LocalKeep)}]
       \/ UNCHANGED doomed
    /\ UNCHANGED <<files, queues, locks, item, todo, history>>

\* Mutation: the retention does not look at the queues.
DropAny(a) ==
    /\ Goes(a, "drop", "drop")
    /\ \E b \in {f[1] : f \in doomed[a]} :
          LET f == IF <<b, "manifest">> \in doomed[a]
                   THEN <<b, "manifest">> ELSE <<b, "cipher">>
          IN  doomed' = [doomed EXCEPT ![a] = @ \ {f}] /\ Unlink(local, f)
    /\ UNCHANGED <<external, cloud, queues, locks, item, todo, made, born, copied>>

\* One turn of the loop: a backup in a queue is passed over; of another one the
\* manifest goes first, then the dump, and either may be impossible to remove.
Drop(a) ==
    /\ Goes(a, "drop", "drop")
    /\ \E b \in {f[1] : f \in doomed[a]} :
          LET first == <<b, "manifest">> \in doomed[a]
              f == IF first THEN <<b, "manifest">> ELSE <<b, "cipher">>
              passed == first /\ b \in pending \cup cloudPending
          IN  \/ /\ passed
                 /\ doomed' = [doomed EXCEPT ![a] = @ \ Whole(b)]
                 /\ UNCHANGED <<local, faults>>
              \/ /\ ~passed
                 /\ doomed' = [doomed EXCEPT ![a] = @ \ {f}]
                 /\ Unlink(local, f)
    /\ UNCHANGED <<external, cloud, queues, locks, item, todo, made, born, copied>>

DropDone(a) ==
    /\ doomed[a] = {}
    /\ Goes(a, "drop", "finish")
    /\ UNCHANGED <<files, queues, locks, history>> /\ TakesNothing

Finish(a) ==
    /\ Goes(a, "finish", IF a = "export" THEN "idle" ELSE "retry")
    /\ maker' = "none"
    /\ ReleaseLock(a)
    /\ item' = [item EXCEPT ![a] = 0]
    /\ UNCHANGED <<files, queues, up, doomed, todo, history>>

-----------------------------------------------------------------------------
\* replicateManifest and applyExternalRetention, of either actor

\* The local files are verified and the dump is copied, or the one that is
\* there verified.
CopyCipher(a) ==
    /\ Goes(a, "copyCipher", "copyManifest")
    /\ item[a] \in Listed(local)
    /\ external' = external \cup {<<item[a], "cipher">>}
    /\ UNCHANGED <<local, cloud, queues, locks, history>> /\ TakesNothing

\* The manifest, and recordReplicationSuccess.
CopyManifest(a) ==
    /\ Goes(a, "copyManifest", AfterCopy(a))
    /\ external' = external \cup {<<item[a], "manifest">>}
    /\ copied' = copied \cup Listed(external')
    /\ pending' = pending \ {item[a]}
    /\ UNCHANGED <<cloudPending, completed>> /\ Persist
    /\ UNCHANGED <<local, cloud, locks, made, born>> /\ TakesNothing

\* Mutation: a failed copy is not tried again.
CopyGivesUp(a) ==
    /\ \E s \in {"copyCipher", "copyManifest"} : Goes(a, s, AfterCopyFailed(a))
    /\ pending' = pending \ {item[a]}
    /\ UNCHANGED <<cloudPending, completed>> /\ Persist
    /\ UNCHANGED <<files, locks, made, born, copied>> /\ TakesNothing

\* The disk is not there, or full, or holds something else; the local files are
\* gone or damaged.  The backup stays in the queue.
CopyFails(a) ==
    /\ \E s \in {"copyCipher", "copyManifest"} : Goes(a, s, AfterCopyFailed(a))
    /\ UNCHANGED <<files, queues, locks, history>> /\ TakesNothing

ExternalScan(a) ==
    /\ Goes(a, "extScan", "extDrop")
    /\ doomed' = [doomed EXCEPT ![a] =
                     UNION {Whole(b) : b \in Listed(external)
                                             \ Kept(external, ExternalKeep)}]
       \/ UNCHANGED doomed
    /\ UNCHANGED <<files, queues, locks, item, todo, history>>

ExternalDrop(a) ==
    /\ Goes(a, "extDrop", "extDrop")
    /\ \E b \in {f[1] : f \in doomed[a]} :
          LET f == IF <<b, "manifest">> \in doomed[a]
                   THEN <<b, "manifest">> ELSE <<b, "cipher">>
          IN  doomed' = [doomed EXCEPT ![a] = @ \ {f}] /\ Unlink(external, f)
    /\ UNCHANGED <<local, cloud, queues, locks, item, todo, made, born, copied>>

ExternalDropDone(a) ==
    /\ doomed[a] = {}
    /\ Goes(a, "extDrop", AfterExternal(a))
    /\ UNCHANGED <<files, queues, locks, history>> /\ TakesNothing

-----------------------------------------------------------------------------
\* ControlPlaneCloudBackupAdapter.upload, of either actor: presigned PUT of the
\* dump, of the manifest, and a completion that finds both in the bucket.
Upload(a) ==
    /\ Goes(a, "upload", AfterUpload(a))
    /\ item[a] \in Listed(local)
    /\ cloud' = cloud \cup Whole(item[a])
    /\ cloudPending' = cloudPending \ {item[a]}
    /\ completed' = completed \cup {item[a]}
    /\ UNCHANGED pending /\ Persist
    /\ UNCHANGED <<local, external, locks, made, born, copied>> /\ TakesNothing

\* Refused or cut off: nothing there that counts, or all of it and the answer
\* lost.  The backup stays in the queue.
UploadFails(a) ==
    /\ Goes(a, "upload", AfterUpload(a))
    /\ \/ UNCHANGED cloud
       \/ /\ item[a] \in Listed(local)
          /\ cloud' = cloud \cup Whole(item[a])
    /\ UNCHANGED <<local, external, queues, locks, history>> /\ TakesNothing

-----------------------------------------------------------------------------
\* runMaintenanceTick: the scheduled backup (Begin), the retries, the drill

\* The newest backup is young enough, or the runtime or the lock is busy.
NotDue ==
    /\ up
    /\ Goes("tick", "idle", "retry")
    /\ UNCHANGED <<files, queues, locks, history>> /\ TakesNothing

\* retryExternalReplication; only the tick retries, so replicationRunning is
\* never set here unless running is.
RetryCopies ==
    /\ maker = "none"
    /\ Goes("tick", "retry", "nextCopy")
    /\ todo' = pending
    /\ UNCHANGED <<files, queues, locks, item, doomed, history>>

NextCopy ==
    /\ \E b \in todo :
          /\ todo' = todo \ {b}
          /\ item' = [item EXCEPT !["tick"] = b]
    /\ Goes("tick", "nextCopy", "copyCipher")
    /\ UNCHANGED <<files, queues, locks, doomed, history>>

NoMoreCopies ==
    /\ todo = {}
    /\ Goes("tick", "nextCopy", "extScan")
    /\ UNCHANGED <<files, queues, locks, history>> /\ TakesNothing

\* retryCloudReplication
RetryUploads ==
    /\ maker = "none"
    /\ Goes("tick", "cloudRetry", "nextUpload")
    /\ todo' = cloudPending
    /\ UNCHANGED <<files, queues, locks, item, doomed, history>>

NextUpload ==
    /\ \E b \in todo :
          /\ todo' = todo \ {b}
          /\ item' = [item EXCEPT !["tick"] = b]
    /\ Goes("tick", "nextUpload", "upload")
    /\ UNCHANGED <<files, queues, locks, doomed, history>>

NoMoreUploads ==
    /\ todo = {}
    /\ Goes("tick", "nextUpload", "drillDue")
    /\ UNCHANGED <<files, queues, locks, history>> /\ TakesNothing

\* A retry that finds createBackup running does nothing.
RetrySkipped ==
    /\ maker # "none"
    /\ \/ Goes("tick", "retry", "cloudRetry")
       \/ Goes("tick", "cloudRetry", "drillDue")
    /\ UNCHANGED <<files, queues, locks, history>> /\ TakesNothing

\* Mutation: the drill does not look whether there is a backup.
DrillAnyway ==
    /\ maker = "none"
    /\ Goes("tick", "drillDue", "drilling")
    /\ TakeLock("tick")
    /\ \E b \in Listed(local) \cup {0} :
          /\ \A c \in Listed(local) : c <= b
          /\ item' = [item EXCEPT !["tick"] = b]
    /\ UNCHANGED <<files, queues, up, maker, doomed, todo, history>>

\* runRestoreVerificationIfDue on the newest backup
Drill ==
    /\ maker = "none"
    /\ Goes("tick", "drillDue", "drilling")
    /\ TakeLock("tick")
    /\ \E b \in Listed(local) :
          /\ \A c \in Listed(local) : c <= b
          /\ item' = [item EXCEPT !["tick"] = b]
    /\ UNCHANGED <<files, queues, up, maker, doomed, todo, history>>

DrillSkipped ==
    /\ Goes("tick", "drillDue", "idle")
    /\ UNCHANGED <<files, queues, locks, history>> /\ TakesNothing

\* The verdict is recorded; it removes nothing.
DrillEnds ==
    /\ Goes("tick", "drilling", "idle")
    /\ ReleaseLock("tick")
    /\ item' = [item EXCEPT !["tick"] = 0]
    /\ UNCHANGED <<files, queues, up, maker, doomed, todo, history>>

-----------------------------------------------------------------------------
\* (The lock of a live process ages too, and its flags keep it from being taken.)
LockAges ==
    /\ lock = "orphan"
    /\ lock' = "stale"
    /\ UNCHANGED <<files, queues, up, maker, works, history>>

\* The process ends anywhere; its lock file stays.
Crash ==
    /\ up /\ Fault
    /\ up' = FALSE /\ maker' = "none"
    /\ lock' = IF lock \in Actors THEN "orphan" ELSE lock
    /\ step' = [a \in Actors |-> "idle"] /\ item' = [a \in Actors |-> 0]
    /\ doomed' = [a \in Actors |-> {}] /\ todo' = {}
    /\ pending' = {} /\ cloudPending' = {} /\ completed' = {}
    /\ UNCHANGED <<files, saved, made, born, copied>>

\* Mutation: only the queues that were written come back.
StartFromSaved ==
    /\ ~up
    /\ up' = TRUE
    /\ pending' = saved.pending \cap Listed(local)
    /\ completed' = saved.completed \cap Listed(local)
    /\ cloudPending' = saved.cloudPending \cap Listed(local)
    /\ Persist
    /\ UNCHANGED <<files, maker, lock, works, made, born, copied>>

\* initialize, loadAndReconcileReplicationState: what was written, and every
\* local backup that the disk does not list or the cloud did not confirm.  (It
\* fails, and the API with it, as long as the external disk is not there.)
Start ==
    /\ ~up
    /\ up' = TRUE
    /\ pending' = (saved.pending \cap Listed(local))
                     \cup (Listed(local) \ Listed(external))
    /\ completed' = saved.completed \cap Listed(local)
    /\ cloudPending' = (saved.cloudPending \cap Listed(local))
                          \cup (Listed(local) \ completed')
    /\ Persist
    /\ UNCHANGED <<files, maker, lock, works, made, born, copied>>

-----------------------------------------------------------------------------
Create(a) ==
    \/ Begin(a) \/ DumpFails(a) \/ PublishCipher(a) \/ ManifestFails(a)
    \/ Publish(a) \/ Enqueue(a) \/ CloudEnqueue(a) \/ Retain(a) \/ Drop(a)
    \/ DropDone(a) \/ Finish(a)
Copy(a) ==
    \/ CopyCipher(a) \/ CopyManifest(a) \/ CopyFails(a) \/ ExternalScan(a)
    \/ ExternalDrop(a) \/ ExternalDropDone(a) \/ Upload(a) \/ UploadFails(a)
Tick ==
    \/ NotDue \/ RetryCopies \/ NextCopy \/ NoMoreCopies
    \/ RetryUploads \/ NextUpload \/ NoMoreUploads \/ RetrySkipped
    \/ Drill \/ DrillSkipped \/ DrillEnds

Next ==
    \/ \E a \in Actors : Create(a) \/ Copy(a)
    \/ Tick \/ LockAges \/ Crash \/ Start

\* The tick comes again (setInterval) and gets on, an export gets on, the
\* service is started again, and now and then the disk is there and an upload
\* goes through.  (Exports are few: the router admits six an hour.)
Fairness ==
    /\ WF_vars(Tick \/ Create("tick") \/ Copy("tick"))
    /\ WF_vars((Create("export") /\ step["export"] # "idle") \/ Copy("export"))
    /\ SF_vars(CopyCipher("tick")) /\ SF_vars(CopyManifest("tick"))
    /\ SF_vars(Upload("tick")) /\ WF_vars(Start)

Spec == Init /\ [][Next]_vars /\ Fairness

-----------------------------------------------------------------------------
\* A backup of a running runtime whose copy is not there is remembered, through
\* lost writes of the queues, crashes and both retentions: it is in the queue,
\* or its createBackup is about to put it there, or the external retention
\* would remove the copy at once (enqueueAndReplicate, enqueueAndUploadCloud,
\* loadAndReconcileReplicationState).
CopiesTracked == up => \A b \in Listed(local) :
    /\ \/ b \in pending \cup Listed(external)
       \/ \E a \in Actors : step[a] = "enqueue" /\ item[a] = b
       \/ b \notin Vault!Keep(Listed(external) \cup {b}, born, ExternalKeep)
    /\ \/ b \in cloudPending \/ Whole(b) \subseteq cloud
       \/ \E a \in Actors :
             /\ maker = a /\ item[a] = b
             /\ step[a] \in {"enqueue", "copyCipher", "copyManifest", "extScan",
                             "extDrop", "cloudEnqueue"}

\* A backup leaves the list only after both its copies were made, only when
\* newer ones supersede it, and never under a drill (applyRetention).
KeepsPromise == Vault!VaultSpec

\* Again and again everything that is listed has been copied to the disk and to
\* the cloud: no backup stays uncopied for ever, whatever failed in between
\* (retryExternalReplication, retryCloudReplication).
Copied == []<>(Listed(local) \subseteq
    {b \in copied : Whole(b) \subseteq cloud})
=============================================================================
