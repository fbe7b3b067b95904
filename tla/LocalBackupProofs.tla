------------------------- MODULE LocalBackupProofs -------------------------
(***************************************************************************)
(* What the backups promise for any number of backups, retention periods   *)
(* and faults.  Two facts carry the argument.  A backup that newer ones    *)
(* supersede stays superseded while a retention removes superseded ones,   *)
(* in whatever order, so a choice made before an await is still right      *)
(* after it.  And what is confirmed - by the external disk or by the cloud *)
(* - was there, so a queue that is lost with the process is rebuilt from   *)
(* the files.                                                              *)
(***************************************************************************)
EXTENDS LocalBackup, FiniteSetTheorems, TLAPS

Days == 0..MaxBackups

\* The periods of S that are newer than the one of b; b is superseded in S by
\* a newer backup of its period, or by n newer periods.
Later(S, d, b) == {p \in {d[c] : c \in S} : p > d[b]}
Superseded(S, d, n, b) ==
    (\E c \in S : d[c] = d[b] /\ c > b) \/ ~(Cardinality(Later(S, d, b)) < n)

-----------------------------------------------------------------------------
LEMMA ListedIff ==
    ASSUME NEW dir, NEW b
    PROVE  b \in Listed(dir) <=>
             b \in Backups /\ <<b, "cipher">> \in dir /\ <<b, "manifest">> \in dir
  BY DEF Listed, Whole

LEMMA LaterFinite ==
    ASSUME NEW S \in SUBSET Backups, NEW d \in [Backups -> Days], NEW b \in Backups
    PROVE  IsFiniteSet(Later(S, d, b)) /\ Cardinality(Later(S, d, b)) \in Nat
<1>1. Later(S, d, b) \in SUBSET Days
  BY DEF Later
<1>2. IsFiniteSet(Days)
  BY FS_Interval, ConstantsAssumption DEF Days
<1> QED
  BY <1>1, <1>2, FS_Subset, FS_CardinalityType

LEMMA VaultCardinality == \A S : Vault!Cardinality(S) = Cardinality(S)
  BY DEF Vault!Cardinality, Cardinality

\* The retention keeps exactly what is not superseded.
LEMMA KeepIff ==
    ASSUME NEW S \in SUBSET Backups, NEW d \in [Backups -> Days], NEW n \in Nat, NEW b \in S
    PROVE  b \notin Vault!Keep(S, d, n) <=> Superseded(S, d, n, b)
<1>1. \A c \in S : c \in Nat
  BY DEF Backups
<1>2. Vault!Keep(S, d, n) =
        {x \in S : /\ \A c \in S : d[c] = d[x] => c <= x
                   /\ Cardinality(Later(S, d, x)) < n}
  BY VaultCardinality, Zenon DEF Vault!Keep, Later
<1> QED
  BY <1>1, <1>2 DEF Superseded

LEMMA SupersededGrows ==
    ASSUME NEW S \in SUBSET Backups, NEW T \in SUBSET Backups, S \subseteq T,
           NEW d \in [Backups -> Days], NEW n \in Nat, NEW b \in Backups,
           Superseded(S, d, n, b)
    PROVE  Superseded(T, d, n, b)
<1>1. Later(S, d, b) \in SUBSET Later(T, d, b)
  BY DEF Later
<1>2. Cardinality(Later(S, d, b)) <= Cardinality(Later(T, d, b))
  BY <1>1, LaterFinite, FS_Subset
<1> QED
  BY <1>2, LaterFinite DEF Superseded

\* To be superseded is not a matter of being there oneself ...
LEMMA SupersededSelf ==
    ASSUME NEW S \in SUBSET Backups, NEW d \in [Backups -> Days], NEW n \in Nat,
           NEW b \in Backups
    PROVE  Superseded(S \cup {b}, d, n, b) <=> Superseded(S, d, n, b)
<1>1. d[b] \in Nat /\ b \in Nat /\ \A c \in S : d[c] \in Nat /\ c \in Nat
  BY DEF Days, Backups
<1>2. Later(S \cup {b}, d, b) = Later(S, d, b)
  <2>1. \A p : p \in {d[c] : c \in S \cup {b}} <=> p \in {d[c] : c \in S} \/ p = d[b]
    OBVIOUS
  <2>2. ~(d[b] > d[b])
    BY <1>1
  <2> QED BY <2>1, <2>2 DEF Later
<1> QED
  BY <1>1, <1>2 DEF Superseded

\* ... nor of a superseded one being there.
LEMMA SupersededDrop ==
    ASSUME NEW S \in SUBSET Backups, NEW d \in [Backups -> Days], NEW n \in Nat,
           NEW b \in Backups, NEW c \in Backups,
           Superseded(S, d, n, b), Superseded(S, d, n, c)
    PROVE  Superseded(S \ {c}, d, n, b)
<1>1. d[b] \in Nat /\ b \in Nat /\ \A e \in S : d[e] \in Nat /\ e \in Nat
  BY DEF Days, Backups
<1>2. d[c] \in Nat /\ c \in Nat /\ S \ {c} \in SUBSET Backups
  BY DEF Days, Backups
<1>3. CASE \E e \in S \ {c} : d[e] = d[b] /\ e > b
  BY <1>3 DEF Superseded
<1>4. CASE d[c] = d[b] /\ c > b
  <2>1. CASE \E e \in S : d[e] = d[c] /\ e > c
    BY <1>1, <1>2, <1>3, <1>4, <2>1
  <2>2. CASE ~(Cardinality(Later(S, d, c)) < n)
    <3>1. Later(S \ {c}, d, b) = Later(S, d, c)
      BY <1>1, <1>2, <1>4 DEF Later
    <3> QED BY <2>2, <3>1 DEF Superseded
  <2> QED BY <2>1, <2>2 DEF Superseded
<1>5. CASE ~(Cardinality(Later(S, d, b)) < n)
  <2>1. CASE Later(S \ {c}, d, b) = Later(S, d, b)
    BY <1>5, <2>1 DEF Superseded
  <2>2. CASE Later(S \ {c}, d, b) # Later(S, d, b)
    <3>1. c \in S /\ d[c] > d[b] /\ \A e \in S \ {c} : d[e] # d[c]
      BY <1>1, <1>2, <2>2 DEF Later
    <3>2. ~(Cardinality(Later(S, d, c)) < n)
      BY <1>2, <3>1 DEF Superseded
    <3>3. Later(S, d, c) \in SUBSET Later(S \ {c}, d, b)
      BY <1>1, <1>2, <3>1 DEF Later
    <3>4. Cardinality(Later(S, d, c)) <= Cardinality(Later(S \ {c}, d, b))
      BY <1>2, <3>3, LaterFinite, FS_Subset
    <3>5. Cardinality(Later(S, d, c)) \in Nat /\ Cardinality(Later(S \ {c}, d, b)) \in Nat
      BY <1>2, LaterFinite
    <3> QED BY <3>2, <3>4, <3>5 DEF Superseded
  <2> QED BY <2>1, <2>2
<1> QED
  BY <1>3, <1>4, <1>5 DEF Superseded

\* The day of a new backup changes nothing for the others.
LEMMA SupersededDated ==
    ASSUME NEW S \in SUBSET Backups, NEW d \in [Backups -> Days], NEW e \in [Backups -> Days],
           NEW n \in Nat, NEW b \in Backups, \A c \in S \cup {b} : e[c] = d[c],
           Superseded(S, d, n, b)
    PROVE  Superseded(S, e, n, b)
<1>1. Later(S, e, b) = Later(S, d, b)
  BY DEF Later
<1> QED
  BY <1>1 DEF Superseded

-----------------------------------------------------------------------------
\* The type invariant; the Boolean needs another prover.
DataOK ==
    /\ local \in SUBSET Files /\ external \in SUBSET Files
    /\ cloud \in SUBSET Files
    /\ pending \in SUBSET Backups /\ cloudPending \in SUBSET Backups
    /\ completed \in SUBSET Backups /\ saved \in State
    /\ maker \in Actors \cup {"none"}
    /\ lock \in Actors \cup {"free", "orphan", "stale"}
    /\ step \in [Actors -> Step] /\ item \in [Actors -> 0..MaxBackups]
    /\ doomed \in [Actors -> SUBSET Files] /\ todo \in SUBSET Backups
    /\ made \in 0..MaxBackups /\ born \in [Backups -> Days]
    /\ copied \in SUBSET Backups /\ faults \in 0..MaxFaults
FlagOK == up \in BOOLEAN
ItemOK == \A a \in Actors : step[a] \in OnItem => item[a] \in Backups

\* Steps of createBackup, and steps of the tick outside of it.
CreateOnly == {"cipher", "manifest", "enqueue", "cloudEnqueue", "retain", "drop", "finish"}
TickOnly == {"retry", "nextCopy", "cloudRetry", "nextUpload", "drillDue", "drilling"}

\* Who is in createBackup, and with which backup.
WorkInv ==
    /\ \A a \in Actors :
          /\ step[a] \in CreateOnly => maker = a
          /\ step[a] \in TickOnly => a = "tick" /\ maker # a
          /\ step[a] = "idle" => maker # a
          /\ maker = a => item[a] = made /\ made \in Backups
          /\ ~up => step[a] = "idle"
    /\ step["export"] # "idle" => maker = "export"
    /\ step["tick"] = "drilling" => maker = "none"

\* A backup is begun before anything is done with it; it gets its manifest last.
KnownInv ==
    /\ \A b \in Backups, k \in {"cipher", "manifest"} :
          <<b, k>> \in local \cup external => b <= made
    /\ \A b \in pending \cup cloudPending \cup todo \cup copied : b <= made
    /\ \A b \in Backups : b <= made => born[b] < b
    /\ \A a \in Actors :
          /\ item[a] <= made
          /\ step[a] \in {"cipher", "manifest"} => <<made, "manifest">> \notin local

\* What a retention has chosen is superseded when it is removed, and of a
\* backup it has begun to remove both copies were made.
DoomedBy(a) ==
    /\ step[a] \notin {"drop", "extDrop"} => doomed[a] = {}
    /\ \A f \in doomed[a] :
          /\ step[a] = "drop" =>
                /\ Superseded(Listed(local), born, LocalKeep, f[1])
                /\ \/ <<f[1], "manifest">> \in doomed[a]
                   \/ f[1] \in copied /\ f[1] \in Listed(cloud)
                   \/ f[1] \notin Listed(local)
          /\ step[a] = "extDrop" =>
                Superseded(Listed(external), born, ExternalKeep, f[1]) /\ f[1] \in copied
DoomedInv == \A a \in Actors : DoomedBy(a)

\* What is confirmed was there; what is not there is in a queue, or on its way
\* into one, or superseded on the disk.
Enqueuing(b) == \E a \in Actors : step[a] = "enqueue" /\ item[a] = b
OnTheWay == {"enqueue", "copyCipher", "copyManifest", "extScan", "extDrop", "cloudEnqueue"}
CopyInv ==
    /\ \A b \in Backups : <<b, "manifest">> \in external => b \in copied
    /\ \A a \in Actors : step[a] = "copyManifest" =>
          \/ <<item[a], "cipher">> \in external
          \/ /\ item[a] \in copied
             /\ Superseded(Listed(external), born, ExternalKeep, item[a])
    /\ \A b \in completed \cup saved.completed : b \in Listed(cloud)
    /\ up => \A b \in Listed(local) :
          /\ b \in pending \/ b \in copied \/ Enqueuing(b)
          /\ \/ b \in pending \/ b \in Listed(external) \/ Enqueuing(b)
             \/ Superseded(Listed(external), born, ExternalKeep, b)
          /\ \/ b \in cloudPending \/ b \in Listed(cloud)
             \/ \E a \in Actors : maker = a /\ item[a] = b /\ step[a] \in OnTheWay

IInv == DataOK /\ FlagOK /\ ItemOK /\ WorkInv /\ KnownInv /\ DoomedInv /\ CopyInv

-----------------------------------------------------------------------------
LEMMA InitIInv == Init => IInv
<1> SUFFICES ASSUME Init PROVE IInv
  OBVIOUS
<1> USE ConstantsAssumption DEF Init
<1>1. DataOK
  BY DEF DataOK, Files, State, Step, Days, Actors
<1>2. FlagOK
  BY Zenon DEF FlagOK
<1>3. ItemOK /\ WorkInv /\ KnownInv
  BY DEF ItemOK, OnItem, WorkInv, CreateOnly, TickOnly, KnownInv, Actors, Backups
<1>4. Listed(local) = {} /\ Listed(external) = {}
  <2>1. Listed({}) = {}
    BY DEF Listed, Whole
  <2> QED BY <2>1
<1>5. DoomedInv
  BY DEF DoomedInv, DoomedBy
<1>6. CopyInv
  BY <1>4 DEF CopyInv
<1> QED
  BY <1>1, <1>2, <1>3, <1>5, <1>6 DEF IInv

LEMMA PersistTypes ==
    ASSUME DataOK, Persist, pending' \in SUBSET Backups, cloudPending' \in SUBSET Backups,
           completed' \in SUBSET Backups
    PROVE  saved' \in State /\ faults' \in 0..MaxFaults
  BY ConstantsAssumption DEF DataOK, Persist, Fault, State

LEMMA UnlinkTypes ==
    ASSUME DataOK, NEW dir, NEW dir2, NEW f, dir \in SUBSET Files,
           (dir2 = dir \ {f} /\ UNCHANGED faults) \/ (dir2 = dir /\ Fault)
    PROVE  dir2 \in SUBSET Files /\ faults' \in 0..MaxFaults
  BY ConstantsAssumption DEF DataOK, Fault

\* Each actor takes the steps that are written for it.
LEMMA AfterSteps ==
    \A a \in Actors : /\ AfterCopy(a) \in Step /\ AfterCopyFailed(a) \in Step
                      /\ AfterExternal(a) \in Step /\ AfterUpload(a) \in Step
  BY DEF AfterCopy, AfterCopyFailed, AfterExternal, AfterUpload, Step

LEMMA CreateTypes == ASSUME IInv, NEW a \in Actors, Create(a) PROVE DataOK'
<1> USE ConstantsAssumption
    DEF IInv, DataOK, files, queues, locks, works, history, TakesNothing, Goes
<1>1. CASE Begin(a)
  <2>1. made + 1 \in Backups
    BY <1>1 DEF Begin, Backups
  <2>2. born' \in [Backups -> Days]
    <3>1. PICK midnight \in {0, 1} :
             born' = [born EXCEPT ![made + 1] = IF made = 0 THEN 0 ELSE born[made] + midnight]
      BY <1>1 DEF Begin
    <3>2. CASE made = 0
      BY <3>1, <3>2 DEF Days
    <3>3. CASE made # 0
      <4>1. made \in Backups /\ born[made] < made
        BY <3>3 DEF Backups, KnownInv
      <4>2. born[made] + midnight \in Days
        BY <4>1, <2>1 DEF Days, Backups
      <4> QED BY <3>1, <3>3, <4>2
    <3> QED BY <3>2, <3>3
  <2> QED BY <1>1, <2>1, <2>2 DEF Begin, TakeLock, Step, Backups
<1>2. CASE DumpFails(a) \/ DropDone(a)
  BY <1>2 DEF DumpFails, DropDone, Step
<1>3. CASE PublishCipher(a)
  <2>1. <<item[a], "cipher">> \in Files
    BY <1>3 DEF PublishCipher, ItemOK, OnItem, Files
  <2> QED BY <1>3, <2>1 DEF PublishCipher, Step
<1>4. CASE ManifestFails(a)
  <2>1. local' \in SUBSET Files /\ faults' \in 0..MaxFaults
    BY <1>4 DEF ManifestFails, Unlink, Fault
  <2> QED BY <1>4, <2>1 DEF ManifestFails, Step
<1>5. CASE Publish(a)
  <2>1. <<item[a], "manifest">> \in Files
    BY <1>5 DEF Publish, ItemOK, OnItem, Files
  <2> QED BY <1>5, <2>1 DEF Publish, Step
<1>6. CASE Enqueue(a)
  <2>1. item[a] \in Backups
    BY <1>6 DEF Enqueue, ItemOK, OnItem
  <2>2. pending' \in SUBSET Backups /\ cloudPending' \in SUBSET Backups
        /\ completed' \in SUBSET Backups
    BY <1>6, <2>1 DEF Enqueue
  <2>3. saved' \in State /\ faults' \in 0..MaxFaults
    BY <1>6, <2>2, PersistTypes DEF Enqueue
  <2> QED BY <1>6, <2>2, <2>3 DEF Enqueue, Step
<1>7. CASE CloudEnqueue(a)
  <2>1. item[a] \in Backups
    BY <1>7 DEF CloudEnqueue, WorkInv, CreateOnly
  <2>2. pending' \in SUBSET Backups /\ cloudPending' \in SUBSET Backups
        /\ completed' \in SUBSET Backups
    BY <1>7, <2>1 DEF CloudEnqueue
  <2>3. saved' \in State /\ faults' \in 0..MaxFaults
    BY <1>7, <2>2, PersistTypes DEF CloudEnqueue
  <2> QED BY <1>7, <2>2, <2>3 DEF CloudEnqueue, Step
<1>8. CASE Retain(a)
  <2>1. UNION {Whole(b) : b \in Listed(local) \ Kept(local, LocalKeep)} \in SUBSET Files
    <3>1. \A b \in Listed(local) : Whole(b) \in SUBSET Files
      BY DEF Whole, Listed, Files
    <3> QED BY <3>1
  <2> QED BY <1>8, <2>1 DEF Retain, Step
<1>9. CASE Drop(a)
  <2>1. local' \in SUBSET Files /\ faults' \in 0..MaxFaults
    BY <1>9 DEF Drop, Unlink, Fault
  <2>2. doomed' \in [Actors -> SUBSET Files]
    BY <1>9 DEF Drop
  <2> QED BY <1>9, <2>1, <2>2 DEF Drop, Step
<1>10. CASE Finish(a)
  BY <1>10 DEF Finish, ReleaseLock, Step
<1> QED
  BY <1>1, <1>2, <1>3, <1>4, <1>5, <1>6, <1>7, <1>8, <1>9, <1>10 DEF Create

LEMMA CopyTypes == ASSUME IInv, NEW a \in Actors, Copy(a) PROVE DataOK'
<1> USE ConstantsAssumption
    DEF IInv, DataOK, files, queues, locks, works, history, TakesNothing, Goes
<1>1. CASE CopyCipher(a)
  <2>1. <<item[a], "cipher">> \in Files
    BY <1>1 DEF CopyCipher, ItemOK, OnItem, Files
  <2> QED BY <1>1, <2>1 DEF CopyCipher, Step
<1>2. CASE CopyManifest(a)
  <2>1. <<item[a], "manifest">> \in Files
    BY <1>2 DEF CopyManifest, ItemOK, OnItem, Files
  <2>2. pending' \in SUBSET Backups /\ cloudPending' \in SUBSET Backups
        /\ completed' \in SUBSET Backups
    BY <1>2 DEF CopyManifest
  <2>3. saved' \in State /\ faults' \in 0..MaxFaults
    BY <1>2, <2>2, PersistTypes DEF CopyManifest
  <2>4. copied' \in SUBSET Backups
    BY <1>2 DEF CopyManifest, Listed
  <2> QED BY <1>2, <2>1, <2>2, <2>3, <2>4, AfterSteps DEF CopyManifest
<1>3. CASE CopyFails(a)
  BY <1>3, AfterSteps DEF CopyFails
<1>4. CASE ExternalScan(a)
  <2>1. UNION {Whole(b) : b \in Listed(external) \ Kept(external, ExternalKeep)} \in SUBSET Files
    <3>1. \A b \in Listed(external) : Whole(b) \in SUBSET Files
      BY DEF Whole, Listed, Files
    <3> QED BY <3>1
  <2> QED BY <1>4, <2>1 DEF ExternalScan, Step
<1>5. CASE ExternalDrop(a)
  <2>1. external' \in SUBSET Files /\ faults' \in 0..MaxFaults
    BY <1>5 DEF ExternalDrop, Unlink, Fault
  <2>2. doomed' \in [Actors -> SUBSET Files]
    BY <1>5 DEF ExternalDrop
  <2> QED BY <1>5, <2>1, <2>2 DEF ExternalDrop, Step
<1>6. CASE ExternalDropDone(a)
  BY <1>6, AfterSteps DEF ExternalDropDone
<1>7. CASE Upload(a)
  <2>1. Whole(item[a]) \in SUBSET Files /\ item[a] \in Backups
    BY <1>7 DEF Upload, ItemOK, OnItem, Whole, Files
  <2>2. pending' \in SUBSET Backups /\ cloudPending' \in SUBSET Backups
        /\ completed' \in SUBSET Backups
    BY <1>7, <2>1 DEF Upload
  <2>3. saved' \in State /\ faults' \in 0..MaxFaults
    BY <1>7, <2>2, PersistTypes DEF Upload
  <2> QED BY <1>7, <2>1, <2>2, <2>3, AfterSteps DEF Upload
<1>8. CASE UploadFails(a)
  <2>1. Whole(item[a]) \in SUBSET Files
    BY <1>8 DEF UploadFails, ItemOK, OnItem, Whole, Files
  <2> QED BY <1>8, <2>1, AfterSteps DEF UploadFails
<1> QED
  BY <1>1, <1>2, <1>3, <1>4, <1>5, <1>6, <1>7, <1>8 DEF Copy

LEMMA DataStep == ASSUME IInv, [Next]_vars PROVE DataOK'
<1> USE ConstantsAssumption
    DEF IInv, DataOK, files, queues, locks, works, history, TakesNothing, Goes
<1>1. CASE NotDue \/ NoMoreCopies \/ NoMoreUploads \/ RetrySkipped \/ DrillSkipped
  BY <1>1 DEF NotDue, NoMoreCopies, NoMoreUploads, RetrySkipped, DrillSkipped, Step, Actors
<1>2. CASE RetryCopies \/ RetryUploads
  BY <1>2 DEF RetryCopies, RetryUploads, Step, Actors
<1>3. CASE NextCopy \/ NextUpload
  <2>1. PICK b \in todo : todo' = todo \ {b} /\ item' = [item EXCEPT !["tick"] = b]
    BY <1>3 DEF NextCopy, NextUpload
  <2>2. b \in 0..MaxBackups
    BY <2>1 DEF Backups
  <2>3. item' \in [Actors -> 0..MaxBackups] /\ todo' \in SUBSET Backups
    BY <2>1, <2>2 DEF Actors
  <2>4. CASE NextCopy
    BY <2>3, <2>4 DEF NextCopy, Step
  <2>5. CASE NextUpload
    BY <2>3, <2>5 DEF NextUpload, Step
  <2> QED BY <1>3, <2>4, <2>5
<1>4. CASE Drill
  <2>1. PICK b \in Listed(local) : item' = [item EXCEPT !["tick"] = b]
    BY <1>4 DEF Drill
  <2>2. b \in 0..MaxBackups
    BY <2>1 DEF Listed, Backups
  <2> QED BY <1>4, <2>1, <2>2 DEF Drill, TakeLock, Step, Actors
<1>5. CASE DrillEnds
  BY <1>5 DEF DrillEnds, ReleaseLock, Step, Actors
<1>6. CASE LockAges
  BY <1>6 DEF LockAges
<1>7. CASE Crash
  BY <1>7 DEF Crash, Fault, Step
<1>8. CASE Start
  <2>1. pending' \in SUBSET Backups /\ cloudPending' \in SUBSET Backups
        /\ completed' \in SUBSET Backups
    BY <1>8 DEF Start, State, Listed
  <2>2. saved' \in State /\ faults' \in 0..MaxFaults
    BY <1>8, <2>1, PersistTypes DEF Start
  <2> QED BY <1>8, <2>1, <2>2 DEF Start
<1>9. CASE UNCHANGED vars
  BY <1>9 DEF vars
<1> QED
  BY <1>1, <1>2, <1>3, <1>4, <1>5, <1>6, <1>7, <1>8, <1>9, CreateTypes, CopyTypes
     DEF Next, Tick

LEMMA FlagStep == ASSUME FlagOK, [Next]_vars PROVE FlagOK'
<1> USE DEF FlagOK, locks
<1>1. ASSUME NEW a \in Actors, Create(a) PROVE FlagOK'
  BY <1>1, Zenon DEF Create, Begin, DumpFails, PublishCipher, ManifestFails, Publish, Enqueue,
     CloudEnqueue, Retain, Drop, DropDone, Finish
<1>2. ASSUME NEW a \in Actors, Copy(a) PROVE FlagOK'
  BY <1>2, Zenon DEF Copy, CopyCipher, CopyManifest, CopyFails, ExternalScan, ExternalDrop,
     ExternalDropDone, Upload, UploadFails
<1>3. CASE Tick
  BY <1>3, Zenon DEF Tick, NotDue, RetryCopies, NextCopy, NoMoreCopies, RetryUploads,
     NextUpload, NoMoreUploads, RetrySkipped, Drill, DrillSkipped, DrillEnds
<1>4. CASE LockAges \/ Crash \/ Start \/ UNCHANGED vars
  BY <1>4, Zenon DEF LockAges, Crash, Start, vars
<1> QED
  BY <1>1, <1>2, <1>3, <1>4 DEF Next

\* A step works on the backup its actor has taken up.
LEMMA ItemStep == ASSUME IInv, [Next]_vars PROVE ItemOK'
<1> USE DEF IInv, ItemOK, OnItem, works, Goes, TakesNothing
<1>1. ASSUME NEW a \in Actors, NEW to, step' = [step EXCEPT ![a] = to], item' = item,
             to \in OnItem => item[a] \in Backups
      PROVE  ItemOK'
  BY <1>1 DEF DataOK
<1>2. ASSUME NEW a \in Actors, Begin(a) PROVE ItemOK'
  <2>1. made + 1 \in Backups
    BY <1>2, ConstantsAssumption DEF Begin, DataOK, Backups
  <2> QED BY <1>2, <2>1 DEF Begin, DataOK
<1>3. ASSUME NEW a \in Actors, PublishCipher(a) \/ Publish(a) \/ Enqueue(a) PROVE ItemOK'
  BY <1>1, <1>3 DEF PublishCipher, Publish, Enqueue
<1>4. ASSUME NEW a \in Actors, DumpFails(a) \/ ManifestFails(a) \/ DropDone(a) PROVE ItemOK'
  BY <1>1, <1>4 DEF DumpFails, ManifestFails, DropDone
<1>5. ASSUME NEW a \in Actors, CloudEnqueue(a) PROVE ItemOK'
  BY <1>1, <1>5 DEF CloudEnqueue, WorkInv, CreateOnly
<1>6. ASSUME NEW a \in Actors, Retain(a) \/ Drop(a) PROVE ItemOK'
  BY <1>1, <1>6 DEF Retain, Drop
<1>7. ASSUME NEW a \in Actors, Finish(a) PROVE ItemOK'
  BY <1>7 DEF Finish, DataOK
<1>8. ASSUME NEW a \in Actors, Copy(a) PROVE ItemOK'
  <2>1. CASE CopyCipher(a)
    BY <1>1, <2>1 DEF CopyCipher
  <2>2. CASE CopyManifest(a) \/ CopyFails(a)
    BY <1>1, <2>2 DEF CopyManifest, CopyFails, AfterCopy, AfterCopyFailed
  <2>3. CASE ExternalScan(a) \/ ExternalDrop(a) \/ ExternalDropDone(a)
    BY <1>1, <2>3 DEF ExternalScan, ExternalDrop, ExternalDropDone, AfterExternal
  <2>4. CASE Upload(a) \/ UploadFails(a)
    BY <1>1, <2>4 DEF Upload, UploadFails, AfterUpload
  <2> QED BY <1>8, <2>1, <2>2, <2>3, <2>4 DEF Copy
<1>9. CASE NotDue \/ RetryCopies \/ NoMoreCopies \/ RetryUploads \/ NoMoreUploads
           \/ RetrySkipped \/ DrillSkipped
  BY <1>1, <1>9 DEF NotDue, RetryCopies, NoMoreCopies, RetryUploads, NoMoreUploads,
     RetrySkipped, DrillSkipped, Actors
<1>10. CASE NextCopy \/ NextUpload
  BY <1>10 DEF NextCopy, NextUpload, DataOK, Actors
<1>11. CASE Drill
  BY <1>11 DEF Drill, DataOK, Actors, Listed
<1>12. CASE DrillEnds
  BY <1>12 DEF DrillEnds, DataOK, Actors
<1>13. CASE Crash
  BY <1>13 DEF Crash
<1>14. CASE LockAges \/ Start \/ UNCHANGED vars
  BY <1>14 DEF LockAges, Start, vars
<1> QED
  BY <1>2, <1>3, <1>4, <1>5, <1>6, <1>7, <1>8, <1>9, <1>10, <1>11, <1>12, <1>13, <1>14
     DEF Next, Create, Tick

\* One createBackup at a time, and the drill never beside it.
LEMMA WorkStep == ASSUME IInv, [Next]_vars PROVE WorkInv'
<1> USE DEF IInv, WorkInv, CreateOnly, TickOnly, works, locks, history, Goes, TakesNothing
<1>1. ASSUME NEW a \in Actors, NEW to, step' = [step EXCEPT ![a] = to], step[a] # "idle",
             UNCHANGED <<item, maker, made, up>>,
             to \in CreateOnly => maker = a,
             to \in TickOnly => a = "tick" /\ maker # a,
             to = "idle" => maker # a,
             to = "drilling" => maker = "none"
      PROVE  WorkInv'
  BY <1>1 DEF DataOK, Actors
<1>2. ASSUME NEW a \in Actors, Begin(a) PROVE WorkInv'
  <2>1. made + 1 \in Backups
    BY <1>2, ConstantsAssumption DEF Begin, DataOK, Backups
  <2> QED BY <1>2, <2>1 DEF Begin, DataOK, Actors
<1>3. ASSUME NEW a \in Actors, DumpFails(a) \/ PublishCipher(a) \/ ManifestFails(a)
             \/ Publish(a) \/ Enqueue(a)
      PROVE  WorkInv'
  BY <1>1, <1>3 DEF DumpFails, PublishCipher, ManifestFails, Publish, Enqueue
<1>4. ASSUME NEW a \in Actors, CloudEnqueue(a) \/ Retain(a) \/ Drop(a) \/ DropDone(a)
      PROVE  WorkInv'
  BY <1>1, <1>4 DEF CloudEnqueue, Retain, Drop, DropDone
<1>5. ASSUME NEW a \in Actors, Finish(a) PROVE WorkInv'
  BY <1>5 DEF Finish, DataOK, Actors
<1>6. ASSUME NEW a \in Actors, Copy(a) PROVE WorkInv'
  <2>1. step[a] # "idle" /\ UNCHANGED <<item, maker, made, up>>
    BY <1>6 DEF Copy, CopyCipher, CopyManifest, CopyFails, ExternalScan, ExternalDrop,
       ExternalDropDone, Upload, UploadFails
  <2>2. a = "tick" \/ maker = a
    BY <2>1 DEF Actors
  <2>3. CASE CopyCipher(a) \/ ExternalScan(a) \/ ExternalDrop(a)
    BY <1>1, <2>1, <2>3 DEF CopyCipher, ExternalScan, ExternalDrop
  <2>4. CASE CopyManifest(a)
    BY <1>1, <2>1, <2>2, <2>4 DEF CopyManifest, AfterCopy
  <2>5. CASE CopyFails(a)
    BY <1>1, <2>1, <2>2, <2>5 DEF CopyFails, AfterCopyFailed
  <2>6. CASE ExternalDropDone(a)
    BY <1>1, <2>1, <2>2, <2>6 DEF ExternalDropDone, AfterExternal
  <2>7. CASE Upload(a) \/ UploadFails(a)
    BY <1>1, <2>1, <2>2, <2>7 DEF Upload, UploadFails, AfterUpload
  <2> QED BY <1>6, <2>3, <2>4, <2>5, <2>6, <2>7 DEF Copy
<1>7. CASE NotDue
  BY <1>7 DEF NotDue, DataOK, Actors
<1>8. CASE RetryCopies \/ RetryUploads \/ NoMoreCopies \/ NoMoreUploads
  BY <1>1, <1>8 DEF RetryCopies, RetryUploads, NoMoreCopies, NoMoreUploads, Actors
<1>9. CASE RetrySkipped \/ DrillSkipped
  BY <1>1, <1>9 DEF RetrySkipped, DrillSkipped, Actors
<1>10. CASE NextCopy \/ NextUpload
  BY <1>10 DEF NextCopy, NextUpload, DataOK, Actors
<1>11. CASE Drill
  BY <1>11 DEF Drill, DataOK, Actors
<1>12. CASE DrillEnds
  BY <1>12 DEF DrillEnds, DataOK, Actors
<1>13. CASE Crash
  BY <1>13 DEF Crash, Actors
<1>14. CASE Start
  BY <1>14 DEF Start
<1>15. CASE LockAges \/ UNCHANGED vars
  BY <1>15 DEF LockAges, vars
<1> QED
  BY <1>2, <1>3, <1>4, <1>5, <1>6, <1>7, <1>8, <1>9, <1>10, <1>11, <1>12, <1>13, <1>14, <1>15
     DEF Next, Create, Tick

\* Nothing is known of a backup that was not begun.
LEMMA KnownStep == ASSUME IInv, [Next]_vars PROVE KnownInv'
<1> USE DEF IInv, KnownInv, files, queues, locks, works, history, Goes, TakesNothing
<1>1. /\ made \in Nat /\ \A b \in Backups : b \in Nat
      /\ \A a \in Actors : item[a] \in Nat
  BY ConstantsAssumption DEF DataOK, Backups
<1>2. ASSUME NEW a \in Actors, NEW to, step' = [step EXCEPT ![a] = to],
             UNCHANGED <<local, external, pending, cloudPending, todo, copied, item, made, born>>,
             to \in {"cipher", "manifest"} => step[a] \in {"cipher", "manifest"}
      PROVE  KnownInv'
  BY <1>2 DEF DataOK
<1>3. ASSUME NEW a \in Actors, Begin(a) PROVE KnownInv'
  <2>1. made + 1 \in Backups
    BY <1>3, ConstantsAssumption DEF Begin, DataOK, Backups
  <2>2. /\ made' = made + 1 /\ item' = [item EXCEPT ![a] = made + 1]
        /\ step' = [step EXCEPT ![a] = "cipher"]
        /\ UNCHANGED <<local, external, pending, cloudPending, todo, copied>>
    BY <1>3 DEF Begin
  <2>3. \A b \in Backups : b <= made' => born'[b] < b
    <3>1. PICK midnight \in {0, 1} :
             born' = [born EXCEPT ![made + 1] = IF made = 0 THEN 0 ELSE born[made] + midnight]
      BY <1>3 DEF Begin
    <3>2. \A b \in Backups : b # made + 1 => born'[b] = born[b]
      BY <3>1 DEF DataOK
    <3>3. born'[made + 1] < made + 1
      <4>1. CASE made = 0
        BY <2>1, <3>1, <4>1 DEF DataOK
      <4>2. CASE made # 0
        <5>1. made \in Backups /\ born[made] < made /\ born[made] \in Nat
          BY <1>1, <4>2 DEF DataOK, Backups, Days
        <5> QED BY <1>1, <2>1, <3>1, <4>2, <5>1 DEF DataOK
      <4> QED BY <4>1, <4>2
    <3>4. \A b \in Backups : b <= made + 1 => b <= made \/ b = made + 1
      BY <1>1
    <3> QED BY <2>2, <3>2, <3>3, <3>4
  <2>4. <<made + 1, "manifest">> \notin local
    <3>1. PICK n \in Backups : n = made + 1
      BY <2>1
    <3>2. ~(n <= made)
      BY <1>1, <3>1
    <3>3. <<n, "manifest">> \notin local
      BY <3>2
    <3> QED BY <3>1, <3>3
  <2>5. \A b \in Backups : b <= made => b <= made + 1
    BY <1>1
  <2> QED BY <1>1, <2>1, <2>2, <2>3, <2>4, <2>5 DEF DataOK, WorkInv, CreateOnly
<1>4. ASSUME NEW a \in Actors, PublishCipher(a) PROVE KnownInv'
  BY <1>4 DEF PublishCipher, DataOK
<1>5. ASSUME NEW a \in Actors, DumpFails(a) \/ DropDone(a) \/ Retain(a) PROVE KnownInv'
  BY <1>2, <1>5 DEF DumpFails, DropDone, Retain
<1>6. ASSUME NEW a \in Actors, ManifestFails(a) \/ Drop(a)
      PROVE  KnownInv'
  <2>1. /\ local' \subseteq local /\ step'[a] \notin {"cipher", "manifest"}
        /\ \A x \in Actors : x # a => step'[x] = step[x]
        /\ UNCHANGED <<external, pending, cloudPending, todo, copied, item, made, born>>
    BY <1>6 DEF ManifestFails, Drop, Unlink, DataOK
  <2> QED BY <2>1
<1>7. ASSUME NEW a \in Actors, Publish(a) PROVE KnownInv'
  <2>1. \A x \in Actors : x # a => step[x] \notin {"cipher", "manifest"}
    BY <1>7 DEF Publish, WorkInv, CreateOnly
  <2> QED BY <1>7, <2>1 DEF Publish, DataOK
<1>8. ASSUME NEW a \in Actors, Enqueue(a) \/ CloudEnqueue(a) PROVE KnownInv'
  BY <1>8 DEF Enqueue, CloudEnqueue, DataOK
<1>9. ASSUME NEW a \in Actors, Finish(a) PROVE KnownInv'
  BY <1>1, <1>9 DEF Finish, DataOK
<1>10. ASSUME NEW a \in Actors, CopyCipher(a) PROVE KnownInv'
  BY <1>10 DEF CopyCipher, DataOK
<1>11. ASSUME NEW a \in Actors, CopyManifest(a) PROVE KnownInv'
  <2>1. /\ external' = external \cup {<<item[a], "manifest">>}
        /\ copied' = copied \cup Listed(external')
        /\ pending' \subseteq pending /\ step'[a] \notin {"cipher", "manifest"}
        /\ \A x \in Actors : x # a => step'[x] = step[x]
        /\ UNCHANGED <<local, cloudPending, todo, item, made, born>>
    BY <1>11 DEF CopyManifest, DataOK, AfterCopy
  <2>2. \A b \in Backups, k \in {"cipher", "manifest"} :
           <<b, k>> \in local' \cup external' => b <= made
    BY <2>1
  <2>3. \A b \in Listed(external') : b <= made
    BY <2>2, ListedIff
  <2> QED BY <2>1, <2>2, <2>3
<1>12. ASSUME NEW a \in Actors, CopyFails(a) \/ ExternalScan(a) \/ ExternalDropDone(a)
       PROVE  KnownInv'
  BY <1>2, <1>12 DEF CopyFails, ExternalScan, ExternalDropDone, AfterCopyFailed, AfterExternal
<1>13. ASSUME NEW a \in Actors, ExternalDrop(a) PROVE KnownInv'
  <2>1. external' \subseteq external
    BY <1>13 DEF ExternalDrop, Unlink
  <2> QED BY <1>13, <2>1 DEF ExternalDrop, DataOK
<1>14. ASSUME NEW a \in Actors, Upload(a) \/ UploadFails(a) PROVE KnownInv'
  BY <1>14 DEF Upload, UploadFails, AfterUpload, DataOK
<1>15. CASE NotDue \/ NoMoreCopies \/ NoMoreUploads \/ RetrySkipped \/ DrillSkipped
  BY <1>2, <1>15 DEF NotDue, NoMoreCopies, NoMoreUploads, RetrySkipped, DrillSkipped, Actors
<1>16. CASE RetryCopies \/ RetryUploads
  BY <1>16 DEF RetryCopies, RetryUploads, DataOK, Actors
<1>17. CASE NextCopy \/ NextUpload
  BY <1>17 DEF NextCopy, NextUpload, DataOK, Actors
<1>18. CASE Drill
  <2>1. \A b \in Listed(local) : b <= made
    BY ListedIff
  <2> QED BY <1>18, <2>1 DEF Drill, DataOK, Actors
<1>19. CASE DrillEnds
  BY <1>1, <1>19 DEF DrillEnds, DataOK, Actors
<1>20. CASE LockAges \/ UNCHANGED vars
  BY <1>20 DEF LockAges, vars
<1>21. CASE Crash
  BY <1>1, <1>21 DEF Crash, DataOK
<1>22. CASE Start
  <2>1. \A b \in Listed(local) : b <= made
    BY ListedIff
  <2>2. pending' \subseteq Listed(local) /\ cloudPending' \subseteq Listed(local)
        /\ UNCHANGED <<local, external, todo, copied, item, step, made, born>>
    BY <1>22 DEF Start
  <2> QED BY <2>1, <2>2
<1> QED
  BY <1>3, <1>4, <1>5, <1>6, <1>7, <1>8, <1>9, <1>10, <1>11, <1>12, <1>13, <1>14, <1>15, <1>16,
     <1>17, <1>18, <1>19, <1>20, <1>21, <1>22 DEF Next, Create, Copy, Tick

-----------------------------------------------------------------------------
\* What the steps do to the three places.
LEMMA ListedGrows ==
    ASSUME NEW dir, NEW dir2, dir \subseteq dir2
    PROVE  Listed(dir) \subseteq Listed(dir2)
  BY DEF Listed

LEMMA ListedDrops ==
    ASSUME NEW dir, NEW f \in Files
    PROVE  Listed(dir \ {f}) \in {Listed(dir), Listed(dir) \ {f[1]}}
<1>1. PICK b \in Backups, k \in {"cipher", "manifest"} : f = <<b, k>>
  BY DEF Files
<1>2. f[1] = b
  BY <1>1
<1>3. \A c \in Backups : c \in Listed(dir \ {f}) <=> c \in Listed(dir) /\ c # b
  BY <1>1 DEF Listed, Whole
<1>4. \A c : c \in Listed(dir \ {f}) \/ c \in Listed(dir) => c \in Backups
  BY DEF Listed
<1> QED
  BY <1>2, <1>3, <1>4

LEMMA ConfirmedStays ==
    ASSUME IInv, [Next]_vars
    PROVE  copied \subseteq copied' /\ Listed(cloud) \subseteq Listed(cloud')
<1> USE DEF files, history
<1>1. CASE copied \subseteq copied' /\ cloud \subseteq cloud'
  BY <1>1, ListedGrows
<1>2. ASSUME NEW a \in Actors, Create(a) PROVE copied \subseteq copied' /\ cloud \subseteq cloud'
  BY <1>2 DEF Create, Begin, DumpFails, PublishCipher, ManifestFails, Publish, Enqueue,
     CloudEnqueue, Retain, Drop, DropDone, Finish
<1>3. ASSUME NEW a \in Actors, Copy(a) PROVE copied \subseteq copied' /\ cloud \subseteq cloud'
  BY <1>3 DEF Copy, CopyCipher, CopyManifest, CopyFails, ExternalScan, ExternalDrop,
     ExternalDropDone, Upload, UploadFails
<1>4. CASE Tick
  <2>1. copied \subseteq copied' /\ cloud \subseteq cloud'
    BY <1>4 DEF Tick, NotDue, RetryCopies, NextCopy, NoMoreCopies, RetryUploads, NextUpload,
       NoMoreUploads, RetrySkipped, Drill, DrillSkipped, DrillEnds
  <2> QED BY <1>1, <2>1
<1>5. CASE LockAges \/ Crash \/ Start \/ UNCHANGED vars
  <2>1. copied \subseteq copied' /\ cloud \subseteq cloud'
    BY <1>5 DEF LockAges, Crash, Start, vars
  <2> QED BY <1>1, <2>1
<1> QED
  BY <1>1, <1>2, <1>3, <1>4, <1>5 DEF Next

\* What a retention removes from the external disk is superseded there.
LEMMA ExternalDropped ==
    ASSUME IInv, NEW a \in Actors, ExternalDrop(a)
    PROVE  \E f \in doomed[a] :
              /\ f \in Files /\ f[1] \in Backups
              /\ Superseded(Listed(external), born, ExternalKeep, f[1]) /\ f[1] \in copied
              /\ external' \in {external, external \ {f}}
              /\ doomed' = [doomed EXCEPT ![a] = @ \ {f}]
<1> USE DEF IInv, DataOK
<1>1. PICK b \in {f[1] : f \in doomed[a]} :
          LET f == IF <<b, "manifest">> \in doomed[a]
                   THEN <<b, "manifest">> ELSE <<b, "cipher">>
          IN  doomed' = [doomed EXCEPT ![a] = @ \ {f}] /\ Unlink(external, f)
  BY DEF ExternalDrop
<1>2. PICK g \in doomed[a] : b = g[1]
  BY <1>1
<1>3. g \in Files /\ step[a] = "extDrop"
  BY DEF ExternalDrop, Goes
<1>4. PICK c \in Backups, k \in {"cipher", "manifest"} : g = <<c, k>>
  BY <1>3 DEF Files
<1>5. b = c /\ b \in Backups
  BY <1>2, <1>4
<1> DEFINE f == IF <<b, "manifest">> \in doomed[a] THEN <<b, "manifest">> ELSE <<b, "cipher">>
<1>6. f \in doomed[a] /\ f[1] = b
  BY <1>4, <1>5
<1>7. Superseded(Listed(external), born, ExternalKeep, b) /\ b \in copied
  BY <1>2, <1>3 DEF DoomedInv, DoomedBy
<1>8. external' \in {external, external \ {f}} /\ doomed' = [doomed EXCEPT ![a] = @ \ {f}]
  BY <1>1 DEF Unlink
<1>9. f \in Files
  BY <1>6
<1> QED
  BY <1>5, <1>6, <1>7, <1>8, <1>9

\* What is superseded on the external disk stays superseded.
LEMMA ExternalStays ==
    ASSUME IInv, [Next]_vars, NEW b \in Backups, b <= made,
           Superseded(Listed(external), born, ExternalKeep, b)
    PROVE  Superseded(Listed(external'), born', ExternalKeep, b)
<1> USE DEF IInv, files, history
<1>1. /\ Listed(external) \in SUBSET Backups /\ born \in [Backups -> Days]
      /\ Listed(external') \in SUBSET Backups /\ ExternalKeep \in Nat
  BY ConstantsAssumption DEF DataOK, Listed
<1>2. CASE external \subseteq external' /\ UNCHANGED born
  <2>1. Listed(external) \subseteq Listed(external')
    BY <1>2, ListedGrows
  <2> QED BY <1>1, <1>2, <2>1, SupersededGrows
<1>3. ASSUME NEW a \in Actors, Begin(a)
      PROVE  Superseded(Listed(external'), born', ExternalKeep, b)
  <2>1. born' \in [Backups -> Days]
    BY <1>3, DataStep DEF DataOK, Next, Create
  <2>2. made \in Nat /\ UNCHANGED external
    BY <1>3 DEF Begin, DataOK
  <2>3. \A c \in Listed(external) \cup {b} : c \in Backups /\ c <= made
    BY ListedIff DEF KnownInv
  <2>4. \A c \in Backups : c <= made => born'[c] = born[c]
    <3>1. \A c \in Backups : c <= made => c # made + 1
      BY <2>2 DEF Backups
    <3> QED BY <1>3, <3>1 DEF Begin, DataOK
  <2> QED BY <1>1, <2>1, <2>2, <2>3, <2>4, SupersededDated
<1>4. ASSUME NEW a \in Actors, ExternalDrop(a)
      PROVE  Superseded(Listed(external'), born', ExternalKeep, b)
  <2>1. PICK f \in Files :
              /\ f[1] \in Backups /\ Superseded(Listed(external), born, ExternalKeep, f[1])
              /\ external' \in {external, external \ {f}}
    BY <1>4, ExternalDropped
  <2>2. UNCHANGED born
    BY <1>4 DEF ExternalDrop
  <2>3. Listed(external') \in {Listed(external), Listed(external) \ {f[1]}}
    BY <2>1, ListedDrops
  <2> QED BY <1>1, <2>1, <2>2, <2>3, SupersededDrop
<1>5. ASSUME NEW a \in Actors, Create(a), ~Begin(a)
      PROVE  external \subseteq external' /\ UNCHANGED born
  BY <1>5 DEF Create, DumpFails, PublishCipher, ManifestFails, Publish, Enqueue,
     CloudEnqueue, Retain, Drop, DropDone, Finish
<1>6. ASSUME NEW a \in Actors, Copy(a), ~ExternalDrop(a)
      PROVE  external \subseteq external' /\ UNCHANGED born
  BY <1>6 DEF Copy, CopyCipher, CopyManifest, CopyFails, ExternalScan,
     ExternalDropDone, Upload, UploadFails
<1>7. CASE Tick
  <2>1. external \subseteq external' /\ UNCHANGED born
    BY <1>7 DEF Tick, NotDue, RetryCopies, NextCopy, NoMoreCopies, RetryUploads, NextUpload,
       NoMoreUploads, RetrySkipped, Drill, DrillSkipped, DrillEnds
  <2> QED BY <1>2, <2>1
<1>8. CASE LockAges \/ Crash \/ Start \/ UNCHANGED vars
  <2>1. external \subseteq external' /\ UNCHANGED born
    BY <1>8 DEF LockAges, Crash, Start, vars
  <2> QED BY <1>2, <2>1
<1> QED
  BY <1>2, <1>3, <1>4, <1>5, <1>6, <1>7, <1>8 DEF Next

\* One turn of the local retention: what it removes is superseded, and if that
\* takes a backup off the list, both copies were made.
LEMMA LocalDropped ==
    ASSUME IInv, NEW a \in Actors, Drop(a)
    PROVE  \/ UNCHANGED local /\ doomed'[a] \subseteq doomed[a]
              /\ \E b : doomed' = [doomed EXCEPT ![a] = @ \ Whole(b)]
           \/ \E f \in doomed[a] :
              /\ f \in Files /\ f[1] \in Backups
              /\ Superseded(Listed(local), born, LocalKeep, f[1])
              /\ f[1] \in Listed(local) => f[1] \in copied /\ f[1] \in Listed(cloud)
              /\ local' \in {local, local \ {f}}
              /\ doomed' = [doomed EXCEPT ![a] = @ \ {f}]
<1> USE DEF IInv, DataOK
<1>1. PICK b \in {f[1] : f \in doomed[a]} :
          LET first == <<b, "manifest">> \in doomed[a]
              f == IF first THEN <<b, "manifest">> ELSE <<b, "cipher">>
              passed == first /\ b \in pending \cup cloudPending
          IN  \/ /\ passed
                 /\ doomed' = [doomed EXCEPT ![a] = @ \ Whole(b)]
                 /\ UNCHANGED <<local, faults>>
              \/ /\ ~passed
                 /\ doomed' = [doomed EXCEPT ![a] = @ \ {f}]
                 /\ Unlink(local, f)
  BY DEF Drop
<1>2. PICK g \in doomed[a] : b = g[1]
  BY <1>1
<1>3. g \in Files /\ step[a] = "drop"
  BY DEF Drop, Goes
<1>4. PICK c \in Backups, k \in {"cipher", "manifest"} : g = <<c, k>>
  BY <1>3 DEF Files
<1>5. b = c /\ b \in Backups
  BY <1>2, <1>4
<1> DEFINE f == IF <<b, "manifest">> \in doomed[a] THEN <<b, "manifest">> ELSE <<b, "cipher">>
           passed == <<b, "manifest">> \in doomed[a] /\ b \in pending \cup cloudPending
<1>6. f \in doomed[a] /\ f[1] = b
  BY <1>4, <1>5
<1>7. /\ Superseded(Listed(local), born, LocalKeep, b)
      /\ \/ <<b, "manifest">> \in doomed[a]
         \/ b \in copied /\ b \in Listed(cloud)
         \/ b \notin Listed(local)
  BY <1>2, <1>3 DEF DoomedInv, DoomedBy
<1>8. CASE passed
  BY <1>1, <1>8
<1>9. CASE ~passed
  <2>1. local' \in {local, local \ {f}} /\ doomed' = [doomed EXCEPT ![a] = @ \ {f}]
    BY <1>1, <1>9 DEF Unlink
  <2>2. b \in Listed(local) => b \in copied /\ b \in Listed(cloud)
    <3>1. CASE <<b, "manifest">> \in doomed[a] /\ b \in Listed(local)
      <4>1. b \notin pending \cup cloudPending
        BY <1>9, <3>1
      <4>2. maker = a /\ \A x \in Actors : maker = x => x = a
        BY <1>3 DEF WorkInv, CreateOnly
      <4>3. up
        BY <1>3, Zenon DEF WorkInv
      <4>4. ~Enqueuing(b)
        BY <1>3, <4>2 DEF Enqueuing, WorkInv, CreateOnly
      <4>5. ~\E x \in Actors : maker = x /\ item[x] = b /\ step[x] \in OnTheWay
        BY <1>3, <4>2 DEF OnTheWay
      <4> QED BY <3>1, <4>1, <4>3, <4>4, <4>5 DEF CopyInv
    <3> QED BY <1>7, <3>1
  <2>3. f \in Files /\ f[1] \in Backups
    BY <1>5, <1>6
  <2> QED BY <1>6, <1>7, <2>1, <2>2, <2>3
<1> QED
  BY <1>8, <1>9

-----------------------------------------------------------------------------
\* The state changes of one actor, and of a step that is of no actor.
LEMMA OthersKeep ==
    ASSUME IInv, NEW x \in Actors, Create(x) \/ Copy(x), NEW a \in Actors, a # x
    PROVE  /\ step'[a] = step[a] /\ doomed'[a] = doomed[a] /\ item'[a] = item[a]
           /\ step[a] = "drop" => UNCHANGED <<local, born>>
<1> USE DEF IInv, DataOK, files, queues, locks, works, history, Goes, TakesNothing
<1>1. CASE Create(x)
  <2>1. step'[a] = step[a] /\ doomed'[a] = doomed[a] /\ item'[a] = item[a]
    BY <1>1 DEF Create, Begin, DumpFails, PublishCipher, ManifestFails, Publish, Enqueue,
       CloudEnqueue, Retain, Drop, DropDone, Finish
  <2>2. ASSUME step[a] = "drop" PROVE FALSE
    <3>1. maker = a
      BY <2>2 DEF WorkInv, CreateOnly
    <3>2. step[x] \in CreateOnly \/ maker = "none"
      BY <1>1 DEF Create, Begin, DumpFails, PublishCipher, ManifestFails, Publish, Enqueue,
         CloudEnqueue, Retain, Drop, DropDone, Finish, CreateOnly
    <3> QED BY <3>1, <3>2 DEF WorkInv, Actors
  <2> QED BY <2>1, <2>2
<1>2. CASE Copy(x)
  BY <1>2 DEF Copy, CopyCipher, CopyManifest, CopyFails, ExternalScan, ExternalDrop,
     ExternalDropDone, Upload, UploadFails
<1> QED BY <1>1, <1>2

LEMMA DoomedStep == IInv /\ [Next]_vars => DoomedInv'
<1> SUFFICES ASSUME IInv, [Next]_vars, NEW a \in Actors PROVE DoomedBy(a)'
  BY DEF DoomedInv
<1> USE DEF IInv, files, queues, locks, works, history, Goes, TakesNothing
<1>1. DoomedBy(a)
  BY DEF DoomedInv
<1>2. ASSUME step'[a] = step[a], doomed'[a] \subseteq doomed[a],
             step[a] = "drop" => UNCHANGED <<local, born>> /\ doomed'[a] = doomed[a]
      PROVE  DoomedBy(a)'
  <2>1. ASSUME NEW f \in doomed[a], step[a] = "extDrop"
        PROVE  Superseded(Listed(external'), born', ExternalKeep, f[1]) /\ f[1] \in copied'
    <3>1. Superseded(Listed(external), born, ExternalKeep, f[1]) /\ f[1] \in copied
      BY <1>1, <2>1 DEF DoomedBy
    <3>2. f[1] \in Backups /\ f[1] <= made
      BY <3>1 DEF DataOK, KnownInv
    <3> QED BY <3>1, <3>2, ExternalStays, ConfirmedStays
  <2>2. ASSUME NEW f \in doomed[a], step[a] = "drop"
        PROVE  /\ Superseded(Listed(local'), born', LocalKeep, f[1])
               /\ \/ <<f[1], "manifest">> \in doomed'[a]
                  \/ f[1] \in copied' /\ f[1] \in Listed(cloud')
                  \/ f[1] \notin Listed(local')
    BY <1>1, <1>2, <2>2, ConfirmedStays DEF DoomedBy
  <2>3. step[a] \notin {"drop", "extDrop"} => doomed'[a] = {}
    BY <1>1, <1>2 DEF DoomedBy
  <2> QED BY <1>2, <2>1, <2>2, <2>3 DEF DoomedBy
<1>3. ASSUME step'[a] \notin {"drop", "extDrop"}, doomed'[a] = {}
      PROVE  DoomedBy(a)'
  BY <1>3 DEF DoomedBy
<1>4. ASSUME NEW x \in Actors, Create(x) \/ Copy(x), x # a
      PROVE  DoomedBy(a)'
  BY <1>2, <1>4, OthersKeep
<1>5. CASE Begin(a) \/ DumpFails(a) \/ PublishCipher(a) \/ ManifestFails(a) \/ Publish(a)
  BY <1>1, <1>3, <1>5 DEF Begin, DumpFails, PublishCipher, ManifestFails, Publish, DataOK, DoomedBy
<1>6. CASE Enqueue(a) \/ CloudEnqueue(a) \/ DropDone(a) \/ Finish(a)
  BY <1>1, <1>3, <1>6 DEF Enqueue, CloudEnqueue, DropDone, Finish, DataOK, DoomedBy
<1>7. CASE CopyCipher(a) \/ CopyManifest(a) \/ CopyFails(a)
  BY <1>1, <1>3, <1>7 DEF CopyCipher, CopyManifest, CopyFails, DataOK, DoomedBy, AfterCopy,
     AfterCopyFailed
<1>8. CASE ExternalDropDone(a) \/ Upload(a) \/ UploadFails(a)
  BY <1>1, <1>3, <1>8 DEF ExternalDropDone, Upload, UploadFails, DataOK, DoomedBy, AfterExternal,
     AfterUpload
<1>9. CASE Retain(a)
  <2>1. step' = [step EXCEPT ![a] = "drop"] /\ step[a] = "retain"
        /\ UNCHANGED <<files, made, born, copied>>
    BY <1>9 DEF Retain
  <2>2. Listed(local) \in SUBSET Backups /\ born \in [Backups -> Days] /\ LocalKeep \in Nat
    BY ConstantsAssumption DEF DataOK, Listed
  <2>3. ASSUME NEW f \in doomed'[a]
        PROVE  Superseded(Listed(local), born, LocalKeep, f[1])
               /\ <<f[1], "manifest">> \in doomed'[a]
    <3>1. doomed[a] = {}
      BY <1>1, <2>1 DEF DoomedBy
    <3>2. doomed'[a] = UNION {Whole(b) : b \in Listed(local) \ Kept(local, LocalKeep)}
      BY <1>9, <2>3, <3>1 DEF Retain, DataOK
    <3>3. PICK b \in Listed(local) \ Kept(local, LocalKeep) : f \in Whole(b)
      BY <2>3, <3>2
    <3>4. f[1] = b /\ <<b, "manifest">> \in Whole(b)
      BY <3>3 DEF Whole
    <3>5. Superseded(Listed(local), born, LocalKeep, b)
      BY <2>2, <3>3, KeepIff DEF Kept
    <3> QED BY <3>2, <3>3, <3>4, <3>5
  <2> QED BY <2>1, <2>3 DEF DoomedBy, DataOK
<1>10. CASE ExternalScan(a)
  <2>1. step' = [step EXCEPT ![a] = "extDrop"] /\ step[a] = "extScan"
        /\ UNCHANGED <<files, made, born, copied>>
    BY <1>10 DEF ExternalScan
  <2>2. Listed(external) \in SUBSET Backups /\ born \in [Backups -> Days] /\ ExternalKeep \in Nat
    BY ConstantsAssumption DEF DataOK, Listed
  <2>3. ASSUME NEW f \in doomed'[a]
        PROVE  Superseded(Listed(external), born, ExternalKeep, f[1]) /\ f[1] \in copied
    <3>1. doomed[a] = {}
      BY <1>1, <2>1 DEF DoomedBy
    <3>2. doomed'[a] = UNION {Whole(b) : b \in Listed(external) \ Kept(external, ExternalKeep)}
      BY <1>10, <2>3, <3>1 DEF ExternalScan, DataOK
    <3>3. PICK b \in Listed(external) \ Kept(external, ExternalKeep) : f \in Whole(b)
      BY <2>3, <3>2
    <3>4. f[1] = b
      BY <3>3 DEF Whole
    <3>5. Superseded(Listed(external), born, ExternalKeep, b)
      BY <2>2, <3>3, KeepIff DEF Kept
    <3> QED BY <3>3, <3>4, <3>5, ListedIff DEF CopyInv
  <2> QED BY <2>1, <2>3 DEF DoomedBy, DataOK
<1>11. CASE ExternalDrop(a)
  <2>1. step' = step /\ step[a] = "extDrop"
    BY <1>11 DEF ExternalDrop, DataOK
  <2>2. doomed'[a] \subseteq doomed[a]
    BY <1>11, ExternalDropped DEF DataOK
  <2> QED BY <1>2, <2>1, <2>2
<1>12. CASE Drop(a)
  <2>1. step' = step /\ step[a] = "drop" /\ UNCHANGED <<born, copied, cloud>>
    BY <1>12 DEF Drop, DataOK
  <2>2. CASE UNCHANGED local /\ doomed'[a] \subseteq doomed[a]
             /\ \E b : doomed' = [doomed EXCEPT ![a] = @ \ Whole(b)]
    <3>1. PICK b : doomed' = [doomed EXCEPT ![a] = @ \ Whole(b)]
      BY <2>2
    <3>2. ASSUME NEW f \in doomed'[a], <<f[1], "manifest">> \in doomed[a]
          PROVE  <<f[1], "manifest">> \in doomed'[a]
      <4>1. f \in Files /\ f \notin Whole(b) /\ doomed'[a] = doomed[a] \ Whole(b)
        BY <3>1 DEF DataOK
      <4>2. PICK c \in Backups, k \in {"cipher", "manifest"} : f = <<c, k>>
        BY <4>1 DEF Files
      <4>3. c # b
        BY <4>1, <4>2 DEF Whole
      <4>4. <<c, "manifest">> \notin Whole(b)
        BY <4>3 DEF Whole
      <4> QED BY <3>2, <4>1, <4>2, <4>4
    <3> QED BY <1>1, <2>1, <2>2, <3>2 DEF DoomedBy
  <2>3. CASE \E f \in doomed[a] :
              /\ f \in Files /\ f[1] \in Backups
              /\ Superseded(Listed(local), born, LocalKeep, f[1])
              /\ f[1] \in Listed(local) => f[1] \in copied /\ f[1] \in Listed(cloud)
              /\ local' \in {local, local \ {f}}
              /\ doomed' = [doomed EXCEPT ![a] = @ \ {f}]
    <3>1. PICK f \in doomed[a] :
              /\ f \in Files /\ f[1] \in Backups
              /\ Superseded(Listed(local), born, LocalKeep, f[1])
              /\ f[1] \in Listed(local) => f[1] \in copied /\ f[1] \in Listed(cloud)
              /\ local' \in {local, local \ {f}}
              /\ doomed' = [doomed EXCEPT ![a] = @ \ {f}]
      BY <2>3
    <3>2. /\ Listed(local) \in SUBSET Backups /\ born \in [Backups -> Days] /\ LocalKeep \in Nat
          /\ Listed(local') \in {Listed(local), Listed(local) \ {f[1]}}
      BY <3>1, ListedDrops, ConstantsAssumption DEF DataOK, Listed
    <3>3. doomed'[a] = doomed[a] \ {f}
      BY <3>1 DEF DataOK
    <3>4. ASSUME NEW g \in doomed'[a]
          PROVE  /\ Superseded(Listed(local'), born, LocalKeep, g[1])
                 /\ \/ <<g[1], "manifest">> \in doomed'[a]
                    \/ g[1] \in copied /\ g[1] \in Listed(cloud)
                    \/ g[1] \notin Listed(local')
      <4>1. g \in doomed[a] /\ g \in Files
        BY <3>3 DEF DataOK
      <4>2. /\ Superseded(Listed(local), born, LocalKeep, g[1])
            /\ \/ <<g[1], "manifest">> \in doomed[a]
               \/ g[1] \in copied /\ g[1] \in Listed(cloud)
               \/ g[1] \notin Listed(local)
        BY <1>1, <2>1, <4>1 DEF DoomedBy
      <4>3. g[1] \in Backups
        BY <4>1 DEF Files
      <4>4. Superseded(Listed(local'), born, LocalKeep, g[1])
        BY <3>1, <3>2, <4>2, <4>3, SupersededDrop
      <4>5. CASE <<g[1], "manifest">> = f
        BY <3>1, <3>2, <4>4, <4>5
      <4>6. CASE <<g[1], "manifest">> # f
        BY <3>2, <3>3, <4>2, <4>4, <4>6
      <4> QED BY <4>5, <4>6
    <3> QED BY <2>1, <3>4 DEF DoomedBy
  <2> QED BY <1>12, <2>2, <2>3, LocalDropped
<1>13. CASE Tick
  <2>1. CASE a = "tick"
    <3>1. step[a] \notin {"drop", "extDrop"} /\ UNCHANGED doomed
      BY <1>13, <2>1 DEF Tick, NotDue, RetryCopies, NextCopy, NoMoreCopies, RetryUploads,
         NextUpload, NoMoreUploads, RetrySkipped, Drill, DrillSkipped, DrillEnds
    <3>2. step'[a] \notin {"drop", "extDrop"}
      BY <1>13, <2>1 DEF Tick, NotDue, RetryCopies, NextCopy, NoMoreCopies, RetryUploads,
         NextUpload, NoMoreUploads, RetrySkipped, Drill, DrillSkipped, DrillEnds, DataOK
    <3> QED BY <1>1, <1>3, <3>1, <3>2 DEF DoomedBy
  <2>2. CASE a # "tick"
    <3>1. step'[a] = step[a] /\ UNCHANGED <<doomed, local, born>>
      BY <1>13, <2>2 DEF Tick, NotDue, RetryCopies, NextCopy, NoMoreCopies, RetryUploads,
         NextUpload, NoMoreUploads, RetrySkipped, Drill, DrillSkipped, DrillEnds, DataOK
    <3> QED BY <1>2, <3>1
  <2> QED BY <2>1, <2>2
<1>14. CASE LockAges \/ Start \/ UNCHANGED vars
  <2>1. UNCHANGED <<step, doomed, local, born>>
    BY <1>14 DEF LockAges, Start, vars
  <2> QED BY <1>2, <2>1
<1>15. CASE Crash
  BY <1>3, <1>15 DEF Crash
<1> QED
  BY <1>4, <1>5, <1>6, <1>7, <1>8, <1>9, <1>10, <1>11, <1>12, <1>13, <1>14, <1>15
     DEF Next, Create, Copy

-----------------------------------------------------------------------------
\* Whose manifest is on the external disk was recorded, and a manifest is only
\* copied beside its dump, or for a backup that was copied before.
LEMMA ManifestStep ==
    ASSUME IInv, [Next]_vars
    PROVE  /\ \A b \in Backups : <<b, "manifest">> \in external' => b \in copied'
           /\ \A a \in Actors : step'[a] = "copyManifest" =>
                 \/ <<item'[a], "cipher">> \in external'
                 \/ /\ item'[a] \in copied'
                    /\ Superseded(Listed(external'), born', ExternalKeep, item'[a])
<1> USE DEF IInv, files, queues, locks, works, history, Goes, TakesNothing
<1>1. /\ \A b \in Backups : <<b, "manifest">> \in external => b \in copied
      /\ \A a \in Actors : step[a] = "copyManifest" =>
             \/ <<item[a], "cipher">> \in external
             \/ /\ item[a] \in copied
                /\ Superseded(Listed(external), born, ExternalKeep, item[a])
  BY DEF CopyInv
<1>2. \A a \in Actors : step[a] = "copyManifest" => item[a] \in Backups /\ item[a] <= made
  BY DEF ItemOK, OnItem, KnownInv
<1> DEFINE Kept1(a) ==
      \/ <<item'[a], "cipher">> \in external'
      \/ /\ item'[a] \in copied'
         /\ Superseded(Listed(external'), born', ExternalKeep, item'[a])
    Goal == /\ \A b \in Backups : <<b, "manifest">> \in external' => b \in copied'
            /\ \A a \in Actors : step'[a] = "copyManifest" => Kept1(a)
<1>3. ASSUME NEW a \in Actors, step[a] = "copyManifest", item'[a] = item[a],
             <<item[a], "cipher">> \in external =>
                \/ <<item[a], "cipher">> \in external'
                \/ /\ item[a] \in copied
                   /\ Superseded(Listed(external), born, ExternalKeep, item[a])
      PROVE  Kept1(a)
  BY <1>1, <1>2, <1>3, ExternalStays, ConfirmedStays
<1>4. ASSUME UNCHANGED external,
             \A a \in Actors : step'[a] = "copyManifest" =>
                step[a] = "copyManifest" /\ item'[a] = item[a]
      PROVE  Goal
  BY <1>1, <1>3, <1>4, ConfirmedStays
<1>5. ASSUME NEW a \in Actors, Create(a) PROVE Goal
  <2>1. UNCHANGED external
    BY <1>5 DEF Create, Begin, DumpFails, PublishCipher, ManifestFails, Publish, Enqueue,
       CloudEnqueue, Retain, Drop, DropDone, Finish
  <2>2. step'[a] # "copyManifest"
    BY <1>5 DEF Create, Begin, DumpFails, PublishCipher, ManifestFails, Publish, Enqueue,
       CloudEnqueue, Retain, Drop, DropDone, Finish, DataOK
  <2> QED BY <1>4, <1>5, <2>1, <2>2, OthersKeep
<1>6. ASSUME NEW a \in Actors, CopyCipher(a) PROVE Goal
  <2>1. external' = external \cup {<<item[a], "cipher">>} /\ UNCHANGED item
    BY <1>6 DEF CopyCipher
  <2>2. \A x \in Actors : x # a => step'[x] = step[x]
    BY <1>6 DEF CopyCipher, DataOK
  <2>3. \A b : <<b, "manifest">> \in external' => <<b, "manifest">> \in external
    BY <2>1
  <2>4. \A x \in Actors : step'[x] = "copyManifest" => Kept1(x)
    BY <1>3, <2>1, <2>2
  <2> QED BY <1>1, <2>3, <2>4, ConfirmedStays
<1>7. ASSUME NEW a \in Actors, CopyManifest(a) PROVE Goal
  <2>1. /\ external' = external \cup {<<item[a], "manifest">>} /\ UNCHANGED item
        /\ copied' = copied \cup Listed(external') /\ step[a] = "copyManifest"
    BY <1>7 DEF CopyManifest
  <2>2. \A x \in Actors : step'[x] = "copyManifest" => step[x] = "copyManifest"
    BY <1>7 DEF CopyManifest, DataOK, AfterCopy
  <2>3. item[a] \in copied'
    BY <1>1, <1>2, <2>1, ListedIff
  <2>4. \A b \in Backups : <<b, "manifest">> \in external' =>
           <<b, "manifest">> \in external \/ b = item[a]
    BY <2>1
  <2>5. \A x \in Actors : step'[x] = "copyManifest" => Kept1(x)
    BY <1>3, <2>1, <2>2
  <2> QED BY <1>1, <2>3, <2>4, <2>5, ConfirmedStays
<1>8. ASSUME NEW a \in Actors, ExternalDrop(a) PROVE Goal
  <2>1. PICK f \in Files :
              /\ f[1] \in Backups /\ Superseded(Listed(external), born, ExternalKeep, f[1])
              /\ f[1] \in copied /\ external' \in {external, external \ {f}}
    BY <1>8, ExternalDropped
  <2>2. UNCHANGED <<step, item>>
    BY <1>8 DEF ExternalDrop, DataOK
  <2>3. \A x \in Actors : step'[x] = "copyManifest" => Kept1(x)
    <3> SUFFICES ASSUME NEW x \in Actors, step[x] = "copyManifest" PROVE Kept1(x)
      BY <2>2
    <3>1. CASE <<item[x], "cipher">> = f
      BY <1>3, <2>1, <2>2, <3>1
    <3>2. CASE <<item[x], "cipher">> # f
      BY <1>3, <2>1, <2>2, <3>2
    <3> QED BY <3>1, <3>2
  <2> QED BY <1>1, <2>1, <2>3, ConfirmedStays
<1>9. ASSUME NEW a \in Actors, Copy(a), ~CopyCipher(a), ~CopyManifest(a), ~ExternalDrop(a)
      PROVE  Goal
  <2>1. UNCHANGED external
    BY <1>9 DEF Copy, CopyFails, ExternalScan, ExternalDropDone, Upload, UploadFails
  <2>2. step'[a] # "copyManifest"
    BY <1>9 DEF Copy, CopyFails, ExternalScan, ExternalDropDone, Upload, UploadFails, DataOK,
       AfterCopyFailed, AfterExternal, AfterUpload
  <2> QED BY <1>4, <1>9, <2>1, <2>2, OthersKeep
<1>10. CASE Tick
  <2>1. UNCHANGED external
    BY <1>10 DEF Tick, NotDue, RetryCopies, NextCopy, NoMoreCopies, RetryUploads, NextUpload,
       NoMoreUploads, RetrySkipped, Drill, DrillSkipped, DrillEnds
  <2>2. step'["tick"] # "copyManifest"
    BY <1>10 DEF Tick, NotDue, RetryCopies, NextCopy, NoMoreCopies, RetryUploads, NextUpload,
       NoMoreUploads, RetrySkipped, Drill, DrillSkipped, DrillEnds, DataOK, Actors
  <2>3. \A a \in Actors : a # "tick" => step'[a] = step[a] /\ item'[a] = item[a]
    BY <1>10 DEF Tick, NotDue, RetryCopies, NextCopy, NoMoreCopies, RetryUploads, NextUpload,
       NoMoreUploads, RetrySkipped, Drill, DrillSkipped, DrillEnds, DataOK, Actors
  <2> QED BY <1>4, <2>1, <2>2, <2>3
<1>11. CASE LockAges \/ Start \/ UNCHANGED vars
  <2>1. UNCHANGED <<external, step, item>>
    BY <1>11 DEF LockAges, Start, vars
  <2> QED BY <1>4, <2>1
<1>12. CASE Crash
  BY <1>4, <1>12 DEF Crash
<1>13. Goal
  BY <1>5, <1>6, <1>7, <1>8, <1>9, <1>10, <1>11, <1>12 DEF Next
<1> QED BY <1>13

\* What is recorded as uploaded is in the bucket.
LEMMA UploadedStep ==
    ASSUME IInv, [Next]_vars
    PROVE  \A b \in completed' \cup saved'.completed : b \in Listed(cloud')
<1> USE DEF IInv, files, queues, locks, works, history, Goes, TakesNothing
<1>1. \A b \in completed \cup saved.completed : b \in Listed(cloud)
  BY DEF CopyInv
<1>2. ASSUME completed' \subseteq completed \cup saved.completed,
             saved' = saved \/ saved'.completed = completed'
      PROVE  \A b \in completed' \cup saved'.completed : b \in Listed(cloud')
  BY <1>1, <1>2, ConfirmedStays
<1>3. ASSUME NEW a \in Actors, Create(a)
      PROVE  UNCHANGED completed /\ (saved' = saved \/ saved'.completed = completed')
  BY <1>3 DEF Create, Begin, DumpFails, PublishCipher, ManifestFails, Publish, Enqueue,
     CloudEnqueue, Retain, Drop, DropDone, Finish, Persist
<1>4. ASSUME NEW a \in Actors, Upload(a)
      PROVE  \A b \in completed' \cup saved'.completed : b \in Listed(cloud')
  <2>1. /\ completed' = completed \cup {item[a]} /\ cloud' = cloud \cup Whole(item[a])
        /\ saved' = saved \/ saved'.completed = completed'
    BY <1>4 DEF Upload, Persist
  <2>2. item[a] \in Backups
    BY <1>4 DEF Upload, ItemOK, OnItem
  <2>3. item[a] \in Listed(cloud')
    BY <2>1, <2>2 DEF Listed
  <2> QED BY <1>1, <2>1, <2>3, ConfirmedStays
<1>5. ASSUME NEW a \in Actors, Copy(a), ~Upload(a)
      PROVE  UNCHANGED completed /\ (saved' = saved \/ saved'.completed = completed')
  BY <1>5 DEF Copy, CopyCipher, CopyManifest, CopyFails, ExternalScan, ExternalDrop,
     ExternalDropDone, UploadFails, Persist
<1>6. CASE Tick
  <2>1. UNCHANGED <<completed, saved>>
    BY <1>6 DEF Tick, NotDue, RetryCopies, NextCopy, NoMoreCopies, RetryUploads, NextUpload,
       NoMoreUploads, RetrySkipped, Drill, DrillSkipped, DrillEnds
  <2> QED BY <1>2, <2>1
<1>7. CASE LockAges \/ Crash \/ UNCHANGED vars
  <2>1. completed' \subseteq completed /\ UNCHANGED saved
    BY <1>7 DEF LockAges, Crash, vars
  <2> QED BY <1>2, <2>1
<1>8. CASE Start
  <2>1. /\ completed' \subseteq saved.completed
        /\ saved' = saved \/ saved'.completed = completed'
    BY <1>8 DEF Start, Persist
  <2> QED BY <1>2, <2>1
<1> QED
  BY <1>2, <1>3, <1>4, <1>5, <1>6, <1>7, <1>8 DEF Next

\* A backup of a running runtime that is not copied is in a queue, on its way
\* into one, or superseded on the disk.
Outdated(b) == Superseded(Listed(external), born, ExternalKeep, b)
Carried(b) == \E a \in Actors : maker = a /\ item[a] = b /\ step[a] \in OnTheWay
Tracked(b) ==
    /\ b \in pending \/ b \in copied \/ Enqueuing(b)
    /\ b \in pending \/ b \in Listed(external) \/ Enqueuing(b) \/ Outdated(b)
    /\ b \in cloudPending \/ b \in Listed(cloud) \/ Carried(b)

\* Between createBackup and its retention the list of the local backups stays.
LEMMA LocalStays ==
    ASSUME IInv, NEW a \in Actors, PublishCipher(a) \/ ManifestFails(a) \/ Drop(a),
           NEW b \in Listed(local')
    PROVE  b \in Listed(local)
<1> USE DEF IInv
<1>1. CASE PublishCipher(a)
  <2>1. maker = a /\ item[a] = made /\ <<made, "manifest">> \notin local
    BY <1>1 DEF PublishCipher, Goes, WorkInv, CreateOnly, KnownInv
  <2>2. local' = local \cup {<<made, "cipher">>}
    BY <1>1, <2>1 DEF PublishCipher
  <2> QED BY <2>1, <2>2, ListedIff
<1>2. CASE ManifestFails(a) \/ Drop(a)
  <2>1. local' \subseteq local
    BY <1>2 DEF ManifestFails, Drop, Unlink
  <2> QED BY <2>1, ListedGrows
<1> QED BY <1>1, <1>2

LEMMA TrackedStep ==
    ASSUME IInv, [Next]_vars, up' = TRUE, NEW b \in Listed(local')
    PROVE  Tracked(b)'
<1> USE DEF IInv, files, queues, locks, works, history, Goes, TakesNothing
<1>1. b \in Backups /\ (up = TRUE /\ b \in Listed(local) => Tracked(b))
  BY ListedIff, Zenon DEF CopyInv, Tracked, Outdated, Carried
<1>2. b \in Listed(local) => b <= made
  BY ListedIff DEF KnownInv
<1>3. b \in Listed(local) /\ Outdated(b) => Outdated(b)'
  BY <1>1, <1>2, ExternalStays DEF Outdated
<1>4. b \in copied => b \in copied'
  BY ConfirmedStays
<1>5. b \in Listed(cloud) => b \in Listed(cloud')
  BY ConfirmedStays
<1>7. ASSUME up = TRUE, b \in Listed(local),
             b \in pending => b \in pending' \/ (b \in copied' /\ (b \in Listed(external') \/ Outdated(b)')),
             Enqueuing(b) => b \in pending' \/ Enqueuing(b)',
             b \in Listed(external) => b \in Listed(external') \/ Outdated(b)',
             b \in cloudPending => b \in cloudPending' \/ b \in Listed(cloud'),
             Carried(b) => b \in cloudPending' \/ Carried(b)'
      PROVE  Tracked(b)'
  BY <1>1, <1>3, <1>4, <1>5, <1>7, Zenon DEF Tracked
\* Steps that leave the queues, the disk and the bucket alone
<1>8. ASSUME NEW a \in Actors, up = TRUE, b \in Listed(local),
             UNCHANGED <<pending, cloudPending, maker, item>>,
             external \subseteq external',
             step[a] # "enqueue", step[a] \in OnTheWay /\ maker = a => step'[a] \in OnTheWay,
             \A x \in Actors : x # a => step'[x] = step[x]
      PROVE  Tracked(b)'
  <2>1. Enqueuing(b) => Enqueuing(b)'
    BY <1>8 DEF Enqueuing
  <2>2. Carried(b) => Carried(b)'
    BY <1>8 DEF Carried
  <2>3. b \in Listed(external) => b \in Listed(external')
    BY <1>8, ListedGrows
  <2> QED BY <1>7, <1>8, <2>1, <2>2, <2>3
<1>9. ASSUME NEW a \in Actors, Begin(a) PROVE Tracked(b)'
  <2>1. /\ step[a] = "idle" /\ maker = "none"
        /\ UNCHANGED <<pending, cloudPending, external, local, up>>
        /\ \A x \in Actors : x # a => step'[x] = step[x] /\ item'[x] = item[x]
    BY <1>9 DEF Begin, DataOK
  <2>2. Enqueuing(b) => Enqueuing(b)'
    BY <2>1 DEF Enqueuing
  <2>3. ~Carried(b)
    BY <2>1 DEF Carried, Actors
  <2>4. up = TRUE /\ b \in Listed(local)
    BY <1>9, <2>1 DEF Begin
  <2> QED BY <1>7, <2>1, <2>2, <2>3, <2>4
<1>10. ASSUME NEW a \in Actors, step[a] # "idle" PROVE up = TRUE
  BY <1>10, Zenon DEF WorkInv
<1>11. ASSUME NEW a \in Actors,
              DumpFails(a) \/ PublishCipher(a) \/ ManifestFails(a) \/ Retain(a) \/ Drop(a)
              \/ DropDone(a)
       PROVE  Tracked(b)'
  <2>1. /\ step[a] \notin OnTheWay /\ step[a] \notin {"idle", "enqueue"}
        /\ UNCHANGED <<pending, cloudPending, maker, item, external>>
        /\ \A x \in Actors : x # a => step'[x] = step[x]
    BY <1>11 DEF DumpFails, PublishCipher, ManifestFails, Retain, Drop, DropDone, DataOK, OnTheWay
  <2>2. b \in Listed(local)
    BY <1>11, LocalStays DEF DumpFails, Retain, DropDone
  <2> QED BY <1>8, <1>10, <2>1, <2>2
<1>12. ASSUME NEW a \in Actors, Publish(a) PROVE Tracked(b)'
  <2>1. /\ step[a] = "manifest" /\ maker = a /\ step'[a] = "enqueue"
        /\ local' = local \cup {<<item[a], "manifest">>}
        /\ UNCHANGED <<pending, cloudPending, maker, item, external>>
        /\ \A x \in Actors : x # a => step'[x] = step[x]
    BY <1>12 DEF Publish, DataOK, WorkInv, CreateOnly
  <2>2. CASE b \in Listed(local)
    BY <1>8, <1>10, <2>1, <2>2 DEF OnTheWay
  <2>3. CASE b \notin Listed(local)
    <3>1. item[a] = b
      <4>1. <<b, "cipher">> \in local' /\ <<b, "manifest">> \in local'
        BY ListedIff
      <4>2. <<b, "cipher">> \notin local \/ <<b, "manifest">> \notin local
        BY <1>1, <2>3, ListedIff
      <4> QED BY <2>1, <4>1, <4>2
    <3>2. Enqueuing(b)' /\ Carried(b)'
      BY <2>1, <3>1 DEF Enqueuing, Carried, OnTheWay
    <3> QED BY <3>2 DEF Tracked
  <2> QED BY <2>2, <2>3
<1>13. ASSUME NEW a \in Actors, Enqueue(a) PROVE Tracked(b)'
  <2>1. /\ step[a] = "enqueue" /\ step'[a] = "copyCipher"
        /\ pending' = pending \cup {item[a]}
        /\ UNCHANGED <<cloudPending, maker, item, external, local, up>>
        /\ \A x \in Actors : x # a => step'[x] = step[x]
    BY <1>13 DEF Enqueue, DataOK
  <2>2. Enqueuing(b) => b \in pending' \/ Enqueuing(b)'
    BY <2>1 DEF Enqueuing
  <2>3. Carried(b) => Carried(b)'
    BY <2>1 DEF Carried, OnTheWay
  <2>4. up = TRUE
    BY <1>10, <2>1
  <2> QED BY <1>7, <2>1, <2>2, <2>3, <2>4
<1>14. ASSUME NEW a \in Actors, CloudEnqueue(a) PROVE Tracked(b)'
  <2>1. /\ step[a] = "cloudEnqueue" /\ maker = a /\ step'[a] = "upload"
        /\ cloudPending' = cloudPending \cup {item[a]}
        /\ UNCHANGED <<pending, maker, item, external, local, up>>
        /\ \A x \in Actors : x # a => step'[x] = step[x]
    BY <1>14 DEF CloudEnqueue, DataOK, WorkInv, CreateOnly
  <2>2. Enqueuing(b) => Enqueuing(b)'
    BY <2>1 DEF Enqueuing
  <2>3. Carried(b) => b \in cloudPending'
    BY <2>1 DEF Carried
  <2>4. up = TRUE
    BY <1>10, <2>1
  <2> QED BY <1>7, <2>1, <2>2, <2>3, <2>4
<1>15. ASSUME NEW a \in Actors, Finish(a) PROVE Tracked(b)'
  <2>1. /\ step[a] = "finish" /\ maker = a
        /\ UNCHANGED <<pending, cloudPending, external, local, up>>
        /\ \A x \in Actors : x # a => step'[x] = step[x] /\ item'[x] = item[x]
    BY <1>15 DEF Finish, DataOK, WorkInv, CreateOnly
  <2>2. Enqueuing(b) => Enqueuing(b)'
    BY <2>1 DEF Enqueuing
  <2>3. ~Carried(b)
    BY <2>1 DEF Carried, OnTheWay
  <2>4. up = TRUE
    BY <1>10, <2>1
  <2> QED BY <1>7, <2>1, <2>2, <2>3, <2>4
<1>16. ASSUME NEW a \in Actors, CopyCipher(a) \/ CopyFails(a) \/ ExternalScan(a) \/ ExternalDropDone(a)
       PROVE  Tracked(b)'
  <2>1. /\ step[a] \notin {"idle", "enqueue"} /\ (maker = a => step'[a] \in OnTheWay)
        /\ UNCHANGED <<pending, cloudPending, maker, item, local>> /\ external \subseteq external'
        /\ \A x \in Actors : x # a => step'[x] = step[x]
    BY <1>16 DEF CopyCipher, CopyFails, ExternalScan, ExternalDropDone, DataOK, OnTheWay,
       AfterCopyFailed, AfterExternal
  <2> QED BY <1>8, <1>10, <2>1
<1>17. ASSUME NEW a \in Actors, CopyManifest(a) PROVE Tracked(b)'
  <2>1. /\ step[a] = "copyManifest" /\ (maker = a => step'[a] \in OnTheWay)
        /\ external' = external \cup {<<item[a], "manifest">>}
        /\ copied' = copied \cup Listed(external') /\ pending' = pending \ {item[a]}
        /\ UNCHANGED <<cloudPending, maker, item, local, born>>
        /\ \A x \in Actors : x # a => step'[x] = step[x]
    BY <1>17 DEF CopyManifest, DataOK, OnTheWay, AfterCopy
  <2>2. Enqueuing(b) => Enqueuing(b)'
    BY <2>1 DEF Enqueuing
  <2>3. Carried(b) => Carried(b)'
    BY <2>1 DEF Carried
  <2>4. b \in Listed(external) => b \in Listed(external')
    BY <2>1, ListedGrows
  <2>5. b \in pending => b \in pending' \/ (b \in copied' /\ (b \in Listed(external') \/ Outdated(b)'))
    <3> SUFFICES ASSUME b = item[a] PROVE b \in copied' /\ (b \in Listed(external') \/ Outdated(b)')
      BY <2>1
    <3>1. CASE <<b, "cipher">> \in external
      BY <1>1, <2>1, <3>1, ListedIff
    <3>2. CASE b \in copied /\ Outdated(b)
      BY <1>3, <2>1, <3>2
    <3> QED BY <2>1, <3>1, <3>2 DEF CopyInv, Outdated
  <2>6. up = TRUE
    BY <1>10, <2>1
  <2> QED BY <1>7, <2>1, <2>2, <2>3, <2>4, <2>5, <2>6
<1>18. ASSUME NEW a \in Actors, ExternalDrop(a) PROVE Tracked(b)'
  <2>1. PICK f \in Files :
              /\ f[1] \in Backups /\ Superseded(Listed(external), born, ExternalKeep, f[1])
              /\ f[1] \in copied /\ external' \in {external, external \ {f}}
    BY <1>18, ExternalDropped
  <2>2. step[a] = "extDrop" /\ UNCHANGED <<step, pending, cloudPending, maker, item, local, born, up>>
    BY <1>18 DEF ExternalDrop, DataOK
  <2>3. b \in Listed(external) => b \in Listed(external') \/ Outdated(b)'
    <3>1. Listed(external') \in {Listed(external), Listed(external) \ {f[1]}}
      BY <2>1, ListedDrops
    <3>2. f[1] = b => Outdated(b)'
      BY <1>3, <2>1, <2>2 DEF Outdated
    <3> QED BY <3>1, <3>2
  <2>4. up = TRUE
    BY <1>10, <2>2
  <2>5. Enqueuing(b) => Enqueuing(b)'
    BY <2>2 DEF Enqueuing
  <2>6. Carried(b) => Carried(b)'
    BY <2>2 DEF Carried
  <2> QED BY <1>7, <2>2, <2>3, <2>4, <2>5, <2>6
<1>19. ASSUME NEW a \in Actors, Upload(a) \/ UploadFails(a) PROVE Tracked(b)'
  <2>1. /\ step[a] = "upload" /\ UNCHANGED <<pending, maker, item, local, external>>
        /\ \/ cloudPending' = cloudPending
           \/ /\ cloudPending' = cloudPending \ {item[a]}
              /\ cloud' = cloud \cup Whole(item[a])
        /\ \A x \in Actors : x # a => step'[x] = step[x]
    BY <1>19 DEF Upload, UploadFails, DataOK
  <2>2. b \in cloudPending => b \in cloudPending' \/ b \in Listed(cloud')
    BY <1>1, <2>1 DEF Listed
  <2>3. Enqueuing(b) => Enqueuing(b)'
    BY <2>1 DEF Enqueuing
  <2>4. Carried(b) => Carried(b)'
    BY <2>1 DEF Carried, OnTheWay
  <2>5. up = TRUE
    BY <1>10, <2>1
  <2> QED BY <1>7, <2>1, <2>2, <2>3, <2>4, <2>5
<1>20. CASE Tick
  <2>1. /\ UNCHANGED <<pending, cloudPending, external, local, maker, up>>
        /\ step'["export"] = step["export"] /\ item'["export"] = item["export"]
        /\ step["tick"] # "enqueue"
        /\ step["tick"] \in TickOnly \cup {"idle"}
    BY <1>20 DEF Tick, NotDue, RetryCopies, NextCopy, NoMoreCopies, RetryUploads, NextUpload,
       NoMoreUploads, RetrySkipped, Drill, DrillSkipped, DrillEnds, DataOK, Actors, TickOnly
  <2>2. Enqueuing(b) => Enqueuing(b)'
    BY <2>1 DEF Enqueuing, Actors
  <2>3. Carried(b) => Carried(b)'
    BY <2>1 DEF Carried, Actors, TickOnly, OnTheWay
  <2>4. up = TRUE
    <3>1. CASE NotDue
      BY <3>1 DEF NotDue
    <3>2. CASE step["tick"] # "idle"
      BY <1>10, <3>2 DEF Actors
    <3> QED BY <1>20, <3>1, <3>2 DEF Tick, RetryCopies, NextCopy, NoMoreCopies, RetryUploads,
            NextUpload, NoMoreUploads, RetrySkipped, Drill, DrillSkipped, DrillEnds
  <2> QED BY <1>7, <2>1, <2>2, <2>3, <2>4
<1>21. CASE LockAges \/ UNCHANGED vars
  <2>1. UNCHANGED <<pending, cloudPending, external, local, maker, item, step>>
    BY <1>21 DEF LockAges, vars
  <2>2. up = TRUE
    BY <1>21, Zenon DEF LockAges, vars
  <2>3. Enqueuing(b) => Enqueuing(b)'
    BY <2>1 DEF Enqueuing
  <2>4. Carried(b) => Carried(b)'
    BY <2>1 DEF Carried
  <2> QED BY <1>7, <2>1, <2>2, <2>3, <2>4
<1>22. CASE Crash
  <2>1. up' = FALSE
    BY <1>22 DEF Crash
  <2> QED BY <2>1
<1>23. CASE Start
  <2>1. /\ UNCHANGED <<external, local, copied, cloud>>
        /\ Listed(local) \ Listed(external) \subseteq pending'
        /\ Listed(local) \ completed' \subseteq cloudPending'
    BY <1>23 DEF Start
  <2>2. b \in completed' => b \in Listed(cloud')
    BY UploadedStep
  <2>3. b \in Listed(external) => b \in copied
    BY <1>1, ListedIff DEF CopyInv
  <2> QED BY <2>1, <2>2, <2>3 DEF Tracked
<1> QED
  BY <1>9, <1>11, <1>12, <1>13, <1>14, <1>15, <1>16, <1>17, <1>18, <1>19, <1>20, <1>21, <1>22,
     <1>23 DEF Next, Create, Copy

LEMMA CopyStep == IInv /\ [Next]_vars => CopyInv'
<1> SUFFICES ASSUME IInv, [Next]_vars PROVE CopyInv'
  OBVIOUS
<1>1. up' = TRUE => \A b \in Listed(local') : Tracked(b)'
  BY TrackedStep
<1>2. up' => up' = TRUE
  BY FlagStep, Zenon DEF FlagOK
<1> QED
  BY <1>1, <1>2, ManifestStep, UploadedStep, Zenon DEF CopyInv, Tracked, Outdated, Carried

-----------------------------------------------------------------------------
LEMMA NextIInv == IInv /\ [Next]_vars => IInv'
<1> SUFFICES ASSUME IInv, [Next]_vars PROVE IInv'
  OBVIOUS
<1> QED
  BY DataStep, FlagStep, ItemStep, WorkStep, KnownStep, DoomedStep, CopyStep DEF IInv

THEOREM Invariance == Spec => []IInv
  BY InitIInv, NextIInv, PTL DEF Spec

\* The files, the queues and the steps of the two actors keep their types.
THEOREM BackupTypeCorrect == Spec => []TypeOK
<1>1. IInv => TypeOK
  BY DEF IInv, DataOK, FlagOK, ItemOK, TypeOK, Days
<1> QED
  BY Invariance, <1>1, PTL

\* A missing copy of a listed backup is remembered whatever was lost
\* (enqueueAndReplicate, enqueueAndUploadCloud, loadAndReconcileReplicationState).
THEOREM BackupCopiesTracked == Spec => []CopiesTracked
<1>1. IInv => CopiesTracked
  <2> SUFFICES ASSUME IInv, up = TRUE, NEW b \in Listed(local)
               PROVE  /\ \/ b \in pending \cup Listed(external)
                         \/ \E a \in Actors : step[a] = "enqueue" /\ item[a] = b
                         \/ b \notin Vault!Keep(Listed(external) \cup {b}, born, ExternalKeep)
                      /\ \/ b \in cloudPending \/ Whole(b) \subseteq cloud
                         \/ \E a \in Actors :
                               /\ maker = a /\ item[a] = b
                               /\ step[a] \in {"enqueue", "copyCipher", "copyManifest",
                                               "extScan", "extDrop", "cloudEnqueue"}
    BY Zenon DEF CopiesTracked, IInv, FlagOK
  <2>1. /\ b \in pending \/ b \in Listed(external) \/ Enqueuing(b) \/ Outdated(b)
        /\ b \in cloudPending \/ b \in Listed(cloud) \/ Carried(b)
    BY Zenon DEF IInv, CopyInv, Outdated, Carried
  <2>2. Outdated(b) => b \notin Vault!Keep(Listed(external) \cup {b}, born, ExternalKeep)
    <3>1. /\ b \in Backups /\ Listed(external) \in SUBSET Backups
          /\ born \in [Backups -> Days] /\ ExternalKeep \in Nat
      BY ConstantsAssumption DEF IInv, DataOK, Listed
    <3>2. Outdated(b) => Superseded(Listed(external) \cup {b}, born, ExternalKeep, b)
      BY <3>1, SupersededSelf DEF Outdated
    <3>3. /\ Listed(external) \cup {b} \in SUBSET Backups
          /\ b \in Listed(external) \cup {b}
      BY <3>1
    <3> QED BY <3>1, <3>2, <3>3, KeepIff
  <2>3. b \in Listed(cloud) => Whole(b) \subseteq cloud
    BY DEF Listed
  <2>4. b \in pending \/ b \in Listed(external) => b \in pending \cup Listed(external)
    OBVIOUS
  <2> QED BY <2>1, <2>2, <2>3, <2>4, Zenon DEF Enqueuing, Carried, OnTheWay
<1> QED
  BY Invariance, <1>1, PTL

-----------------------------------------------------------------------------
\* What the refinement mapping shows of a state.
Safe == {b \in copied : Whole(b) \subseteq cloud}
Tested == IF step["tick"] = "drilling" THEN item["tick"] ELSE 0
Unseen == UNCHANGED <<Listed(local), Safe, Tested>>

\* Only the drill changes what is tested.
LEMMA TestedStays ==
    ASSUME IInv, NEW a \in Actors, Create(a) \/ Copy(a)
    PROVE  UNCHANGED Tested
<1> USE DEF IInv, DataOK, files, queues, locks, works, history, Goes, TakesNothing
<1>1. CASE a = "tick"
  <2>1. step[a] # "drilling"
    BY <1>1 DEF Create, Begin, DumpFails, PublishCipher, ManifestFails, Publish, Enqueue,
       CloudEnqueue, Retain, Drop, DropDone, Finish, Copy, CopyCipher, CopyManifest, CopyFails,
       ExternalScan, ExternalDrop, ExternalDropDone, Upload, UploadFails
  <2>2. CASE Create(a)
    <3>1. step'[a] # "drilling"
      BY <2>2, <1>1 DEF Create, Begin, DumpFails, PublishCipher, ManifestFails, Publish, Enqueue,
         CloudEnqueue, Retain, Drop, DropDone, Finish
    <3> QED BY <1>1, <2>1, <3>1 DEF Tested
  <2>3. CASE Copy(a)
    <3>1. step'[a] # "drilling"
      BY <2>3, <1>1 DEF Copy, CopyCipher, CopyManifest, CopyFails, ExternalScan, ExternalDrop,
         ExternalDropDone, Upload, UploadFails, AfterCopy, AfterCopyFailed, AfterExternal,
         AfterUpload
    <3> QED BY <1>1, <2>1, <3>1 DEF Tested
  <2> QED BY <2>2, <2>3
<1>2. CASE a # "tick"
  <2>1. step'["tick"] = step["tick"] /\ item'["tick"] = item["tick"]
    BY <1>2, OthersKeep DEF Actors
  <2> QED BY <2>1 DEF Tested
<1> QED BY <1>1, <1>2

LEMMA SafeStays == ASSUME UNCHANGED <<copied, cloud>> PROVE UNCHANGED Safe
  BY DEF Safe

\* Every step of the runtime is one of the vault, or not seen there.
LEMMA VaultStep ==
    ASSUME IInv, [Next]_vars
    PROVE  Vault!Publish \/ Vault!Date \/ Vault!Secure \/ Vault!Test \/ Vault!Drop
<1> USE DEF IInv, files, queues, locks, works, history, Goes, TakesNothing
<1>1. Unseen => Vault!Date
  BY DEF Unseen, Vault!Date, Safe, Tested
<1>2. ASSUME NEW b \in Backups, b \notin Listed(local), Listed(local') = Listed(local) \cup {b},
             UNCHANGED <<Safe, Tested, born>>
      PROVE  Vault!Publish
  BY <1>2 DEF Vault!Publish, Safe, Tested
<1>3. ASSUME NEW b \in Backups, Safe' = Safe \cup {b}, UNCHANGED <<Listed(local), Tested, born>>
      PROVE  Vault!Secure
  BY <1>3 DEF Vault!Secure, Safe, Tested
<1>4. ASSUME Tested' \in Listed(local) \cup {0}, UNCHANGED <<Listed(local), Safe, born>>
      PROVE  Vault!Test
  BY <1>4 DEF Vault!Test, Safe, Tested
<1>5. ASSUME NEW a \in Actors,
             Begin(a) \/ DumpFails(a) \/ Enqueue(a) \/ CloudEnqueue(a) \/ Retain(a)
             \/ DropDone(a) \/ Finish(a)
      PROVE  Unseen
  <2>1. UNCHANGED <<local, copied, cloud>>
    BY <1>5 DEF Begin, DumpFails, Enqueue, CloudEnqueue, Retain, DropDone, Finish
  <2> QED BY <1>5, <2>1, SafeStays, TestedStays DEF Unseen, Create
<1>6. ASSUME NEW a \in Actors, PublishCipher(a) \/ ManifestFails(a) PROVE Unseen
  <2>1. UNCHANGED <<copied, cloud>>
    BY <1>6 DEF PublishCipher, ManifestFails
  <2>2. Listed(local') \subseteq Listed(local)
    BY <1>6, LocalStays
  <2>3. Listed(local) \subseteq Listed(local')
    <3>1. CASE PublishCipher(a)
      BY <3>1, ListedGrows DEF PublishCipher
    <3>2. CASE ManifestFails(a)
      <4>1. item[a] = made /\ <<made, "manifest">> \notin local
        BY <3>2 DEF ManifestFails, WorkInv, CreateOnly, KnownInv
      <4>2. local' = local \/ local' = local \ {<<made, "cipher">>}
        BY <3>2, <4>1 DEF ManifestFails, Unlink
      <4> QED BY <4>1, <4>2 DEF Listed, Whole
    <3> QED BY <1>6, <3>1, <3>2
  <2> QED BY <1>6, <2>1, <2>2, <2>3, SafeStays, TestedStays DEF Unseen, Create
<1>7. ASSUME NEW a \in Actors, Publish(a) PROVE Unseen \/ Vault!Publish
  <2>1. /\ local' = local \cup {<<item[a], "manifest">>} /\ item[a] \in Backups
        /\ UNCHANGED <<copied, cloud, born>>
    BY <1>7 DEF Publish, ItemOK, OnItem
  <2>2. Listed(local') = Listed(local) \/ Listed(local') = Listed(local) \cup {item[a]}
    <3>1. \A b \in Backups : b # item[a] => (b \in Listed(local') <=> b \in Listed(local))
      BY <2>1 DEF Listed, Whole
    <3>2. Listed(local) \subseteq Listed(local') /\ Listed(local') \subseteq Backups
      BY <2>1, ListedGrows DEF Listed
    <3> QED BY <3>1, <3>2
  <2>3. UNCHANGED <<Safe, Tested>>
    BY <1>7, <2>1, SafeStays, TestedStays DEF Create
  <2> QED BY <1>2, <2>1, <2>2, <2>3 DEF Unseen
<1>8. ASSUME NEW a \in Actors, Drop(a) PROVE Unseen \/ Vault!Drop
  <2>1. UNCHANGED <<copied, cloud, born>> /\ step[a] = "drop"
    BY <1>8 DEF Drop
  <2>2. UNCHANGED <<Safe, Tested>>
    BY <1>8, <2>1, SafeStays, TestedStays DEF Create
  <2>3. CASE UNCHANGED local
    BY <2>2, <2>3 DEF Unseen
  <2>4. CASE \E f \in doomed[a] :
              /\ f \in Files /\ f[1] \in Backups
              /\ Superseded(Listed(local), born, LocalKeep, f[1])
              /\ f[1] \in Listed(local) => f[1] \in copied /\ f[1] \in Listed(cloud)
              /\ local' \in {local, local \ {f}}
              /\ doomed' = [doomed EXCEPT ![a] = @ \ {f}]
    <3>1. PICK f \in doomed[a] :
              /\ f \in Files /\ f[1] \in Backups
              /\ Superseded(Listed(local), born, LocalKeep, f[1])
              /\ f[1] \in Listed(local) => f[1] \in copied /\ f[1] \in Listed(cloud)
              /\ local' \in {local, local \ {f}}
      BY <2>4
    <3>2. PICK b \in Backups : b = f[1]
      BY <3>1
    <3>3. Listed(local') \in {Listed(local), Listed(local) \ {b}}
      BY <3>1, <3>2, ListedDrops
    <3>4. CASE Listed(local') = Listed(local)
      BY <2>2, <3>4 DEF Unseen
    <3>5. CASE b \in Listed(local) /\ Listed(local') = Listed(local) \ {b}
      <4>1. b \in Safe
        BY <3>1, <3>2, <3>5 DEF Safe, Listed
      <4>2. Tested = 0
        BY <2>1 DEF Tested, WorkInv, CreateOnly, Actors
      <4>3. b # 0
        BY DEF Backups
      <4>4. b \notin Vault!Keep(Listed(local), born, LocalKeep)
        <5>1. Listed(local) \in SUBSET Backups /\ born \in [Backups -> Days] /\ LocalKeep \in Nat
          BY ConstantsAssumption DEF DataOK, Listed
        <5> QED BY <3>1, <3>2, <3>5, <5>1, KeepIff
      <4> QED BY <2>1, <2>2, <3>5, <4>1, <4>2, <4>3, <4>4 DEF Vault!Drop, Safe, Tested
    <3> QED BY <3>3, <3>4, <3>5
  <2> QED BY <1>8, <2>3, <2>4, LocalDropped
<1>9. ASSUME NEW a \in Actors,
             CopyCipher(a) \/ CopyFails(a) \/ ExternalScan(a) \/ ExternalDrop(a)
             \/ ExternalDropDone(a)
      PROVE  Unseen
  <2>1. UNCHANGED <<local, copied, cloud>>
    BY <1>9 DEF CopyCipher, CopyFails, ExternalScan, ExternalDrop, ExternalDropDone
  <2> QED BY <1>9, <2>1, SafeStays, TestedStays DEF Unseen, Copy
<1>10. ASSUME NEW a \in Actors, CopyManifest(a) PROVE Unseen \/ Vault!Secure
  <2>1. /\ external' = external \cup {<<item[a], "manifest">>} /\ item[a] \in Backups
        /\ copied' = copied \cup Listed(external') /\ UNCHANGED <<local, cloud, born>>
    BY <1>10 DEF CopyManifest, ItemOK, OnItem
  <2>2. \A b \in Listed(external') : b \in copied \/ b = item[a]
    <3>1. \A b \in Backups : <<b, "manifest">> \in external => b \in copied
      BY DEF CopyInv
    <3> QED BY <2>1, <3>1, ListedIff
  <2>3. UNCHANGED Tested
    BY <1>10, TestedStays DEF Copy
  <2>4. Safe' = Safe \/ Safe' = Safe \cup {item[a]}
    BY <2>1, <2>2 DEF Safe
  <2> QED BY <1>3, <2>1, <2>3, <2>4 DEF Unseen
<1>11. ASSUME NEW a \in Actors, Upload(a) \/ UploadFails(a) PROVE Unseen \/ Vault!Secure
  <2>1. /\ UNCHANGED cloud \/ cloud' = cloud \cup Whole(item[a])
        /\ item[a] \in Backups /\ UNCHANGED <<local, copied, born>>
    BY <1>11 DEF Upload, UploadFails, ItemOK, OnItem
  <2>2. UNCHANGED Tested
    BY <1>11, TestedStays DEF Copy
  <2>3. Safe' = Safe \/ Safe' = Safe \cup {item[a]}
    <3>1. \A b \in Backups : b # item[a] => (Whole(b) \subseteq cloud' <=> Whole(b) \subseteq cloud)
      BY <2>1 DEF Whole
    <3>2. Whole(item[a]) \subseteq cloud => Whole(item[a]) \subseteq cloud'
      BY <2>1
    <3> QED BY <2>1, <3>1, <3>2 DEF Safe, DataOK
  <2> QED BY <1>3, <2>1, <2>2, <2>3 DEF Unseen
<1>12. CASE NotDue \/ RetryCopies \/ NextCopy \/ NoMoreCopies \/ RetryUploads \/ NextUpload
            \/ NoMoreUploads \/ RetrySkipped \/ DrillSkipped
  <2>1. UNCHANGED <<local, copied, cloud>>
    BY <1>12 DEF NotDue, RetryCopies, NextCopy, NoMoreCopies, RetryUploads, NextUpload,
       NoMoreUploads, RetrySkipped, DrillSkipped
  <2>2. step["tick"] # "drilling" /\ step'["tick"] # "drilling"
    BY <1>12 DEF NotDue, RetryCopies, NextCopy, NoMoreCopies, RetryUploads, NextUpload,
       NoMoreUploads, RetrySkipped, DrillSkipped, DataOK, Actors
  <2> QED BY <1>1, <2>1, <2>2, SafeStays DEF Unseen, Tested
<1>13. CASE Drill
  <2>1. Tested' \in Listed(local) /\ UNCHANGED <<local, copied, cloud, born>>
    BY <1>13 DEF Drill, Tested, DataOK, Actors
  <2> QED BY <1>4, <2>1, SafeStays
<1>14. CASE DrillEnds
  <2>1. Tested' = 0 /\ UNCHANGED <<local, copied, cloud, born>>
    BY <1>14 DEF DrillEnds, Tested, DataOK, Actors
  <2> QED BY <1>4, <2>1, SafeStays
<1>15. CASE Crash
  <2>1. Tested' = 0 /\ UNCHANGED <<local, copied, cloud, born>>
    BY <1>15 DEF Crash, Tested, Actors
  <2> QED BY <1>4, <2>1, SafeStays
<1>16. CASE LockAges \/ Start \/ UNCHANGED vars
  <2>1. UNCHANGED <<local, copied, cloud, step, item>>
    BY <1>16 DEF LockAges, Start, vars
  <2> QED BY <1>1, <2>1, SafeStays DEF Unseen, Tested
<1> QED
  BY <1>1, <1>5, <1>6, <1>7, <1>8, <1>9, <1>10, <1>11, <1>12, <1>13, <1>14, <1>15, <1>16
     DEF Next, Create, Copy, Tick

\* A backup leaves the list only superseded, copied to both places and not
\* under a drill, through every loss of a queue and every crash
\* (applyRetention, createBackup).
THEOREM BackupKeepsPromise == Spec => KeepsPromise
<1>1. Init => Vault!VaultInit
  BY DEF Init, Vault!VaultInit, Listed, Whole, Actors
<1>2. IInv /\ [Next]_vars =>
        [Vault!Publish \/ Vault!Date \/ Vault!Secure \/ Vault!Test
         \/ Vault!Drop]_<<Listed(local), Safe, Tested>>
  BY VaultStep
<1> QED
  BY <1>1, <1>2, Invariance, PTL DEF Spec, KeepsPromise, Vault!VaultSpec, Safe, Tested
=============================================================================
