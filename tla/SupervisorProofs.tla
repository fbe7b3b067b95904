-------------------------- MODULE SupervisorProofs --------------------------
(***************************************************************************)
(* What an end of the host guarantees for any number of processes and of   *)
(* faults.  The argument: a worker that is not watching a process has      *)
(* none, only one process at a time is started by the main thread, and a   *)
(* stop flag nobody asked for has a reason that is owed, in the channel,   *)
(* or taken by the main thread.                                            *)
(***************************************************************************)
EXTENDS Supervisor, TLAPS

\* Places with no process.
Idle == {"unborn", "spawn", "failed", "backoff", "done"}

GoneInv == \A c \in Children : at[c] \in Idle => process[c] = "dead"

\* A first start is the main thread's, and there is one at a time.
Starting(c) ==
    attempt[c] = 0 /\ at[c] \in {"spawn", "startup", "startWait", "failed"}
BootInv ==
    \A c \in Children :
        /\ Starting(c) => main = "boot" /\ c = booted + 1
        /\ at[c] = "backoff" => attempt[c] # 0

ResultInv ==
    /\ main \in {"boot", "undo", "wait", "timedOut"} => result = "none"
    /\ main = "refused" => result = "error"

EndInv ==
    main = "ended" => \A c \in Children : at[c] \in {"unborn", "done"} /\ ~owes[c]

FlagInv ==
    /\ main \in {"undo", "join", "ended"} => stop = TRUE
    /\ stop = TRUE =>
          \/ asked = TRUE \/ mail = TRUE \/ (\E c \in Children : owes[c] = TRUE)
          \/ main = "undo" \/ result = "error"

IInv == TypeOK /\ GoneInv /\ BootInv /\ ResultInv /\ EndInv /\ FlagInv

-----------------------------------------------------------------------------
\* The type invariant; the Booleans need another prover.
DataOK ==
    /\ process \in [Children -> {"dead", "closed", "open"}]
    /\ at \in [Children -> Place]
    /\ attempt \in [Children -> 0..2]
    /\ crashes \in [Children -> 0..MaxCrashes]
    /\ main \in {"boot", "undo", "wait", "timedOut", "join", "ended", "refused"}
    /\ booted \in 0..N
    /\ result \in {"none", "ok", "error"}
    /\ faults \in 0..MaxFaults
FlagsOK ==
    /\ owes \in [Children -> BOOLEAN]
    /\ stop \in BOOLEAN /\ mail \in BOOLEAN /\ asked \in BOOLEAN

\* Every step keeps the types.
LEMMA DataStep ==
    ASSUME DataOK, [Next]_vars
    PROVE  DataOK'
<1> USE ConstantsAssumption
   DEF ConstantsAssumption, Children, DataOK, Place,
       At, Goes, Becomes, Fault, Tells, GivesUp, RecordExit, Crashed, Started,
       child, signals, thread
<1>1. ASSUME NEW c \in Children, Boot(c) PROVE DataOK'
  <2>1. faults' \in 0..MaxFaults
    BY <1>1 DEF Boot
  <2>2. process' \in [Children -> {"dead", "closed", "open"}] /\ at' \in [Children -> Place]
    BY <1>1 DEF Boot
  <2>3. attempt' \in [Children -> 0..2]
    BY <1>1 DEF Boot
  <2>4. crashes' \in [Children -> 0..MaxCrashes]
    BY <1>1 DEF Boot
  <2>5. /\ booted' \in 0..N /\ result' \in {"none", "ok", "error"}
         /\ main' \in {"boot", "undo", "wait", "timedOut", "join", "ended", "refused"}
    BY <1>1 DEF Boot
  <2> QED BY <2>1, <2>2, <2>3, <2>4, <2>5
<1>2. ASSUME NEW c \in Children, Spawn(c) PROVE DataOK'
  BY <1>2, SMTT(60) DEF Spawn
<1>3. ASSUME NEW c \in Children, SpawnFails(c) PROVE DataOK'
  BY <1>3 DEF SpawnFails
<1>4. ASSUME NEW c \in Children, Ready(c) PROVE DataOK'
  <2>1. faults' \in 0..MaxFaults
    BY <1>4 DEF Ready
  <2>2. process' \in [Children -> {"dead", "closed", "open"}] /\ at' \in [Children -> Place]
    BY <1>4 DEF Ready
  <2>3. attempt' \in [Children -> 0..2]
    BY <1>4 DEF Ready
  <2>4. crashes' \in [Children -> 0..MaxCrashes]
    BY <1>4 DEF Ready
  <2>5. /\ booted' \in 0..N /\ result' \in {"none", "ok", "error"}
         /\ main' \in {"boot", "undo", "wait", "timedOut", "join", "ended", "refused"}
    BY <1>4 DEF Ready
  <2> QED BY <2>1, <2>2, <2>3, <2>4, <2>5
<1>5. ASSUME NEW c \in Children, NotReady(c) PROVE DataOK'
  <2>1. faults' \in 0..MaxFaults
    BY <1>5 DEF NotReady
  <2>2. process' \in [Children -> {"dead", "closed", "open"}] /\ at' \in [Children -> Place]
    BY <1>5 DEF NotReady
  <2>3. attempt' \in [Children -> 0..2]
    BY <1>5 DEF NotReady
  <2>4. crashes' \in [Children -> 0..MaxCrashes]
    BY <1>5 DEF NotReady
  <2>5. /\ booted' \in 0..N /\ result' \in {"none", "ok", "error"}
         /\ main' \in {"boot", "undo", "wait", "timedOut", "join", "ended", "refused"}
    BY <1>5 DEF NotReady
  <2> QED BY <2>1, <2>2, <2>3, <2>4, <2>5
<1>6. ASSUME NEW c \in Children, Failed(c) PROVE DataOK'
  <2>1. faults' \in 0..MaxFaults
    BY <1>6 DEF Failed
  <2>2. process' \in [Children -> {"dead", "closed", "open"}] /\ at' \in [Children -> Place]
    BY <1>6 DEF Failed
  <2>3. attempt' \in [Children -> 0..2]
    BY <1>6 DEF Failed
  <2>4. crashes' \in [Children -> 0..MaxCrashes]
    BY <1>6, SMTT(60) DEF Failed
  <2>5. /\ booted' \in 0..N /\ result' \in {"none", "ok", "error"}
         /\ main' \in {"boot", "undo", "wait", "timedOut", "join", "ended", "refused"}
    BY <1>6 DEF Failed
  <2> QED BY <2>1, <2>2, <2>3, <2>4, <2>5
<1>7. ASSUME NEW c \in Children, Stopping(c) PROVE DataOK'
  <2>1. faults' \in 0..MaxFaults
    <3>1. UNCHANGED faults \/ Fault
      BY <1>7, Zenon DEF Stopping
    <3> QED BY <3>1
  <2>2. process' \in [Children -> {"dead", "closed", "open"}] /\ at' \in [Children -> Place]
    BY <1>7 DEF Stopping
  <2>3. attempt' \in [Children -> 0..2]
    BY <1>7 DEF Stopping
  <2>4. crashes' \in [Children -> 0..MaxCrashes]
    BY <1>7 DEF Stopping
  <2>5. /\ booted' \in 0..N /\ result' \in {"none", "ok", "error"}
         /\ main' \in {"boot", "undo", "wait", "timedOut", "join", "ended", "refused"}
    BY <1>7 DEF Stopping
  <2> QED BY <2>1, <2>2, <2>3, <2>4, <2>5
<1>8. ASSUME NEW c \in Children, StopChild(c) PROVE DataOK'
  <2>1. faults' \in 0..MaxFaults
    <3>1. UNCHANGED faults \/ Fault
      BY <1>8, Zenon DEF StopChild
    <3> QED BY <3>1
  <2>2. process' \in [Children -> {"dead", "closed", "open"}] /\ at' \in [Children -> Place]
    BY <1>8 DEF StopChild
  <2>3. attempt' \in [Children -> 0..2]
    BY <1>8 DEF StopChild
  <2>4. crashes' \in [Children -> 0..MaxCrashes]
    BY <1>8 DEF StopChild
  <2>5. /\ booted' \in 0..N /\ result' \in {"none", "ok", "error"}
         /\ main' \in {"boot", "undo", "wait", "timedOut", "join", "ended", "refused"}
    BY <1>8 DEF StopChild
  <2> QED BY <2>1, <2>2, <2>3, <2>4, <2>5
<1>9. ASSUME NEW c \in Children, Waited(c) PROVE DataOK'
  <2>1. faults' \in 0..MaxFaults
    <3>1. UNCHANGED faults \/ Fault
      BY <1>9, Zenon DEF Waited
    <3> QED BY <3>1
  <2>2. process' \in [Children -> {"dead", "closed", "open"}] /\ at' \in [Children -> Place]
    BY <1>9 DEF Waited
  <2>3. attempt' \in [Children -> 0..2]
    BY <1>9 DEF Waited
  <2>4. crashes' \in [Children -> 0..MaxCrashes]
    BY <1>9 DEF Waited
  <2>5. /\ booted' \in 0..N /\ result' \in {"none", "ok", "error"}
         /\ main' \in {"boot", "undo", "wait", "timedOut", "join", "ended", "refused"}
    BY <1>9 DEF Waited
  <2> QED BY <2>1, <2>2, <2>3, <2>4, <2>5
<1>10. ASSUME NEW c \in Children, Poll(c) PROVE DataOK'
  BY <1>10 DEF Poll
<1>11. ASSUME NEW c \in Children, Alive(c) PROVE DataOK'
  BY <1>11 DEF Alive
<1>12. ASSUME NEW c \in Children, KillHung(c) PROVE DataOK'
  BY <1>12, SMTT(60) DEF KillHung
<1>13. ASSUME NEW c \in Children, ExitSeen(c) PROVE DataOK'
  <2>1. faults' \in 0..MaxFaults /\ UNCHANGED <<booted, result, main>>
    BY <1>13 DEF ExitSeen
  <2>2. process' \in [Children -> {"dead", "closed", "open"}] /\ at' \in [Children -> Place]
    BY <1>13 DEF ExitSeen
  <2>3. attempt' \in [Children -> 0..2]
    BY <1>13 DEF ExitSeen
  <2>4. crashes' \in [Children -> 0..MaxCrashes]
    BY <1>13 DEF ExitSeen
  <2> QED BY <2>1, <2>2, <2>3, <2>4
<1>14. ASSUME NEW c \in Children, WaitFails(c) PROVE DataOK'
  BY <1>14 DEF WaitFails
<1>15. ASSUME NEW c \in Children, BackoffEnds(c) PROVE DataOK'
  BY <1>15 DEF BackoffEnds
<1>16. ASSUME NEW c \in Children, BackoffCut(c) PROVE DataOK'
  BY <1>16 DEF BackoffCut
<1>17. ASSUME NEW c \in Children, Send(c) PROVE DataOK'
  BY <1>17 DEF Send
<1>18. ASSUME NEW c \in Children, Dies(c) PROVE DataOK'
  BY <1>18 DEF Dies, Environment
<1>19. ASSUME NEW c \in Children, Hangs(c) PROVE DataOK'
  BY <1>19 DEF Hangs, Environment
<1>20. ASSUME NEW c \in Children, Opens(c) PROVE DataOK'
  BY <1>20 DEF Opens, Environment
<1>21. CASE TakeMail
  BY <1>21 DEF TakeMail, Leaves
<1>22. CASE TimesOut
  BY <1>22 DEF TimesOut
<1>23. CASE ReadStop
  BY <1>23 DEF ReadStop, Leaves
<1>24. CASE Join
  BY <1>24 DEF Join
<1>25. CASE Ask
  BY <1>25 DEF Ask
<1>26. CASE Monitor
  BY <1>26 DEF Monitor
<1>27. CASE Restart
  BY <1>27 DEF Restart
<1>28. CASE UNCHANGED vars
  BY <1>28 DEF vars
<1> QED
  BY <1>1, <1>2, <1>3, <1>4, <1>5, <1>6, <1>7, <1>8, <1>9, <1>10, <1>11, <1>12, <1>13, <1>14,
     <1>15, <1>16, <1>17, <1>18, <1>19, <1>20, <1>21, <1>22, <1>23, <1>24, <1>25, <1>26, <1>27, <1>28
     DEF Next, Work, Start, Stop, Main

\* The Booleans stay Booleans.
LEMMA FlagsStep ==
    ASSUME FlagsOK, [Next]_vars
    PROVE  FlagsOK'
<1> USE ConstantsAssumption
   DEF ConstantsAssumption, Children, FlagsOK,
       At, Goes, Becomes, Fault, Tells, GivesUp, RecordExit, Crashed, Started,
       child, signals, thread
<1>1. ASSUME NEW c \in Children, Boot(c) PROVE FlagsOK'
  BY <1>1, Zenon DEF Boot
<1>2. ASSUME NEW c \in Children, Spawn(c) PROVE FlagsOK'
  BY <1>2, Zenon DEF Spawn
<1>3. ASSUME NEW c \in Children, SpawnFails(c) PROVE FlagsOK'
  BY <1>3, Zenon DEF SpawnFails
<1>4. ASSUME NEW c \in Children, Ready(c) PROVE FlagsOK'
  BY <1>4, Zenon DEF Ready
<1>5. ASSUME NEW c \in Children, NotReady(c) PROVE FlagsOK'
  BY <1>5, Zenon DEF NotReady
<1>6. ASSUME NEW c \in Children, Failed(c) PROVE FlagsOK'
  BY <1>6, Zenon DEF Failed
<1>7. ASSUME NEW c \in Children, Stopping(c) PROVE FlagsOK'
  BY <1>7, Zenon DEF Stopping
<1>8. ASSUME NEW c \in Children, StopChild(c) PROVE FlagsOK'
  BY <1>8, Zenon DEF StopChild
<1>9. ASSUME NEW c \in Children, Waited(c) PROVE FlagsOK'
  BY <1>9, Zenon DEF Waited
<1>10. ASSUME NEW c \in Children, Poll(c) PROVE FlagsOK'
  BY <1>10, Zenon DEF Poll
<1>11. ASSUME NEW c \in Children, Alive(c) PROVE FlagsOK'
  BY <1>11, Zenon DEF Alive
<1>12. ASSUME NEW c \in Children, KillHung(c) PROVE FlagsOK'
  BY <1>12, Zenon DEF KillHung
<1>13. ASSUME NEW c \in Children, ExitSeen(c) PROVE FlagsOK'
  BY <1>13, Zenon DEF ExitSeen
<1>14. ASSUME NEW c \in Children, WaitFails(c) PROVE FlagsOK'
  BY <1>14, Zenon DEF WaitFails
<1>15. ASSUME NEW c \in Children, BackoffEnds(c) PROVE FlagsOK'
  BY <1>15, Zenon DEF BackoffEnds
<1>16. ASSUME NEW c \in Children, BackoffCut(c) PROVE FlagsOK'
  BY <1>16, Zenon DEF BackoffCut
<1>17. ASSUME NEW c \in Children, Send(c) PROVE FlagsOK'
  BY <1>17, Zenon DEF Send
<1>18. ASSUME NEW c \in Children, Dies(c) PROVE FlagsOK'
  BY <1>18, Zenon DEF Dies, Environment
<1>19. ASSUME NEW c \in Children, Hangs(c) PROVE FlagsOK'
  BY <1>19, Zenon DEF Hangs, Environment
<1>20. ASSUME NEW c \in Children, Opens(c) PROVE FlagsOK'
  BY <1>20, Zenon DEF Opens, Environment
<1>21. CASE TakeMail
  BY <1>21, Zenon DEF TakeMail, Leaves
<1>22. CASE TimesOut
  BY <1>22, Zenon DEF TimesOut
<1>23. CASE ReadStop
  BY <1>23, Zenon DEF ReadStop, Leaves
<1>24. CASE Join
  BY <1>24, Zenon DEF Join
<1>25. CASE Ask
  BY <1>25, Zenon DEF Ask
<1>26. CASE Monitor
  BY <1>26, Zenon DEF Monitor
<1>27. CASE Restart
  BY <1>27, Zenon DEF Restart
<1>28. CASE UNCHANGED vars
  BY <1>28 DEF vars
<1> QED
  BY <1>1, <1>2, <1>3, <1>4, <1>5, <1>6, <1>7, <1>8, <1>9, <1>10, <1>11, <1>12, <1>13, <1>14,
     <1>15, <1>16, <1>17, <1>18, <1>19, <1>20, <1>21, <1>22, <1>23, <1>24, <1>25, <1>26, <1>27, <1>28
     DEF Next, Work, Start, Stop, Main

\* A process is there only while its worker starts or watches it.
LEMMA GoneStep ==
    ASSUME DataOK, GoneInv, [Next]_vars
    PROVE  GoneInv'
<1> USE ConstantsAssumption
   DEF ConstantsAssumption, Children, DataOK, GoneInv, Idle,
       At, Goes, Becomes, Fault, Tells, GivesUp, RecordExit, Crashed, Started,
       child, signals, thread
<1>1. ASSUME NEW c \in Children, Boot(c) PROVE GoneInv'
  BY <1>1 DEF Boot
<1>2. ASSUME NEW c \in Children, Spawn(c) PROVE GoneInv'
  BY <1>2 DEF Spawn
<1>3. ASSUME NEW c \in Children, SpawnFails(c) PROVE GoneInv'
  BY <1>3 DEF SpawnFails
<1>4. ASSUME NEW c \in Children, Ready(c) PROVE GoneInv'
  BY <1>4 DEF Ready
<1>5. ASSUME NEW c \in Children, NotReady(c) PROVE GoneInv'
  BY <1>5 DEF NotReady
<1>6. ASSUME NEW c \in Children, Failed(c) PROVE GoneInv'
  BY <1>6 DEF Failed
<1>7. ASSUME NEW c \in Children, Stopping(c) PROVE GoneInv'
  BY <1>7 DEF Stopping
<1>8. ASSUME NEW c \in Children, StopChild(c) PROVE GoneInv'
  BY <1>8 DEF StopChild
<1>9. ASSUME NEW c \in Children, Waited(c) PROVE GoneInv'
  BY <1>9 DEF Waited
<1>10. ASSUME NEW c \in Children, Poll(c) PROVE GoneInv'
  BY <1>10 DEF Poll
<1>11. ASSUME NEW c \in Children, Alive(c) PROVE GoneInv'
  BY <1>11 DEF Alive
<1>12. ASSUME NEW c \in Children, KillHung(c) PROVE GoneInv'
  BY <1>12 DEF KillHung
<1>13. ASSUME NEW c \in Children, ExitSeen(c) PROVE GoneInv'
  BY <1>13 DEF ExitSeen
<1>14. ASSUME NEW c \in Children, WaitFails(c) PROVE GoneInv'
  BY <1>14 DEF WaitFails
<1>15. ASSUME NEW c \in Children, BackoffEnds(c) PROVE GoneInv'
  BY <1>15 DEF BackoffEnds
<1>16. ASSUME NEW c \in Children, BackoffCut(c) PROVE GoneInv'
  BY <1>16 DEF BackoffCut
<1>17. ASSUME NEW c \in Children, Send(c) PROVE GoneInv'
  BY <1>17 DEF Send
<1>18. ASSUME NEW c \in Children, Dies(c) PROVE GoneInv'
  BY <1>18 DEF Dies, Environment
<1>19. ASSUME NEW c \in Children, Hangs(c) PROVE GoneInv'
  BY <1>19 DEF Hangs, Environment
<1>20. ASSUME NEW c \in Children, Opens(c) PROVE GoneInv'
  BY <1>20 DEF Opens, Environment
<1>21. CASE TakeMail
  BY <1>21 DEF TakeMail, Leaves
<1>22. CASE TimesOut
  BY <1>22 DEF TimesOut
<1>23. CASE ReadStop
  BY <1>23 DEF ReadStop, Leaves
<1>24. CASE Join
  BY <1>24 DEF Join
<1>25. CASE Ask
  BY <1>25 DEF Ask
<1>26. CASE Monitor
  BY <1>26 DEF Monitor
<1>27. CASE Restart
  BY <1>27 DEF Restart
<1>28. CASE UNCHANGED vars
  BY <1>28 DEF vars
<1> QED
  BY <1>1, <1>2, <1>3, <1>4, <1>5, <1>6, <1>7, <1>8, <1>9, <1>10, <1>11, <1>12, <1>13, <1>14,
     <1>15, <1>16, <1>17, <1>18, <1>19, <1>20, <1>21, <1>22, <1>23, <1>24, <1>25, <1>26, <1>27, <1>28
     DEF Next, Work, Start, Stop, Main

\* The main thread starts one process at a time.
LEMMA BootStep ==
    ASSUME DataOK, BootInv, [Next]_vars
    PROVE  BootInv'
<1> USE ConstantsAssumption
   DEF ConstantsAssumption, Children, DataOK, BootInv, Starting,
       At, Goes, Becomes, Fault, Tells, GivesUp, RecordExit, Crashed, Started,
       child, signals, thread
<1>1. ASSUME NEW c \in Children, Boot(c) PROVE BootInv'
  BY <1>1 DEF Boot
<1>2. ASSUME NEW c \in Children, Spawn(c) PROVE BootInv'
  BY <1>2 DEF Spawn
<1>3. ASSUME NEW c \in Children, SpawnFails(c) PROVE BootInv'
  BY <1>3 DEF SpawnFails
<1>4. ASSUME NEW c \in Children, Ready(c) PROVE BootInv'
  BY <1>4 DEF Ready
<1>5. ASSUME NEW c \in Children, NotReady(c) PROVE BootInv'
  BY <1>5 DEF NotReady
<1>6. ASSUME NEW c \in Children, Failed(c) PROVE BootInv'
  BY <1>6, SMTT(60) DEF Failed
<1>7. ASSUME NEW c \in Children, Stopping(c) PROVE BootInv'
  BY <1>7 DEF Stopping
<1>8. ASSUME NEW c \in Children, StopChild(c) PROVE BootInv'
  BY <1>8 DEF StopChild
<1>9. ASSUME NEW c \in Children, Waited(c) PROVE BootInv'
  BY <1>9 DEF Waited
<1>10. ASSUME NEW c \in Children, Poll(c) PROVE BootInv'
  BY <1>10 DEF Poll
<1>11. ASSUME NEW c \in Children, Alive(c) PROVE BootInv'
  BY <1>11 DEF Alive
<1>12. ASSUME NEW c \in Children, KillHung(c) PROVE BootInv'
  BY <1>12 DEF KillHung
<1>13. ASSUME NEW c \in Children, ExitSeen(c) PROVE BootInv'
  BY <1>13 DEF ExitSeen
<1>14. ASSUME NEW c \in Children, WaitFails(c) PROVE BootInv'
  BY <1>14 DEF WaitFails
<1>15. ASSUME NEW c \in Children, BackoffEnds(c) PROVE BootInv'
  BY <1>15 DEF BackoffEnds
<1>16. ASSUME NEW c \in Children, BackoffCut(c) PROVE BootInv'
  BY <1>16 DEF BackoffCut
<1>17. ASSUME NEW c \in Children, Send(c) PROVE BootInv'
  BY <1>17 DEF Send
<1>18. ASSUME NEW c \in Children, Dies(c) PROVE BootInv'
  BY <1>18 DEF Dies, Environment
<1>19. ASSUME NEW c \in Children, Hangs(c) PROVE BootInv'
  BY <1>19 DEF Hangs, Environment
<1>20. ASSUME NEW c \in Children, Opens(c) PROVE BootInv'
  BY <1>20 DEF Opens, Environment
<1>21. CASE TakeMail
  BY <1>21 DEF TakeMail, Leaves
<1>22. CASE TimesOut
  BY <1>22 DEF TimesOut
<1>23. CASE ReadStop
  BY <1>23 DEF ReadStop, Leaves
<1>24. CASE Join
  BY <1>24 DEF Join
<1>25. CASE Ask
  BY <1>25 DEF Ask
<1>26. CASE Monitor
  BY <1>26 DEF Monitor
<1>27. CASE Restart
  BY <1>27 DEF Restart
<1>28. CASE UNCHANGED vars
  BY <1>28 DEF vars
<1> QED
  BY <1>1, <1>2, <1>3, <1>4, <1>5, <1>6, <1>7, <1>8, <1>9, <1>10, <1>11, <1>12, <1>13, <1>14,
     <1>15, <1>16, <1>17, <1>18, <1>19, <1>20, <1>21, <1>22, <1>23, <1>24, <1>25, <1>26, <1>27, <1>28
     DEF Next, Work, Start, Stop, Main

\* The result is there when the main thread has left its wait.
LEMMA ResultStep ==
    ASSUME DataOK, BootInv, ResultInv, [Next]_vars
    PROVE  ResultInv'
<1> USE ConstantsAssumption
   DEF ConstantsAssumption, Children, DataOK, BootInv, Starting, ResultInv,
       At, Goes, Becomes, Fault, Tells, GivesUp, RecordExit, Crashed, Started,
       child, signals, thread
<1>1. ASSUME NEW c \in Children, Boot(c) PROVE ResultInv'
  BY <1>1 DEF Boot
<1>2. ASSUME NEW c \in Children, Spawn(c) PROVE ResultInv'
  BY <1>2 DEF Spawn
<1>3. ASSUME NEW c \in Children, SpawnFails(c) PROVE ResultInv'
  BY <1>3 DEF SpawnFails
<1>4. ASSUME NEW c \in Children, Ready(c) PROVE ResultInv'
  BY <1>4 DEF Ready
<1>5. ASSUME NEW c \in Children, NotReady(c) PROVE ResultInv'
  BY <1>5 DEF NotReady
<1>6. ASSUME NEW c \in Children, Failed(c) PROVE ResultInv'
  BY <1>6 DEF Failed
<1>7. ASSUME NEW c \in Children, Stopping(c) PROVE ResultInv'
  BY <1>7 DEF Stopping
<1>8. ASSUME NEW c \in Children, StopChild(c) PROVE ResultInv'
  BY <1>8 DEF StopChild
<1>9. ASSUME NEW c \in Children, Waited(c) PROVE ResultInv'
  BY <1>9 DEF Waited
<1>10. ASSUME NEW c \in Children, Poll(c) PROVE ResultInv'
  BY <1>10 DEF Poll
<1>11. ASSUME NEW c \in Children, Alive(c) PROVE ResultInv'
  BY <1>11 DEF Alive
<1>12. ASSUME NEW c \in Children, KillHung(c) PROVE ResultInv'
  BY <1>12 DEF KillHung
<1>13. ASSUME NEW c \in Children, ExitSeen(c) PROVE ResultInv'
  BY <1>13 DEF ExitSeen
<1>14. ASSUME NEW c \in Children, WaitFails(c) PROVE ResultInv'
  BY <1>14 DEF WaitFails
<1>15. ASSUME NEW c \in Children, BackoffEnds(c) PROVE ResultInv'
  BY <1>15 DEF BackoffEnds
<1>16. ASSUME NEW c \in Children, BackoffCut(c) PROVE ResultInv'
  BY <1>16 DEF BackoffCut
<1>17. ASSUME NEW c \in Children, Send(c) PROVE ResultInv'
  BY <1>17 DEF Send
<1>18. ASSUME NEW c \in Children, Dies(c) PROVE ResultInv'
  BY <1>18 DEF Dies, Environment
<1>19. ASSUME NEW c \in Children, Hangs(c) PROVE ResultInv'
  BY <1>19 DEF Hangs, Environment
<1>20. ASSUME NEW c \in Children, Opens(c) PROVE ResultInv'
  BY <1>20 DEF Opens, Environment
<1>21. CASE TakeMail
  BY <1>21 DEF TakeMail, Leaves
<1>22. CASE TimesOut
  BY <1>22 DEF TimesOut
<1>23. CASE ReadStop
  BY <1>23 DEF ReadStop, Leaves
<1>24. CASE Join
  BY <1>24 DEF Join
<1>25. CASE Ask
  BY <1>25 DEF Ask
<1>26. CASE Monitor
  BY <1>26 DEF Monitor
<1>27. CASE Restart
  BY <1>27 DEF Restart
<1>28. CASE UNCHANGED vars
  BY <1>28 DEF vars
<1> QED
  BY <1>1, <1>2, <1>3, <1>4, <1>5, <1>6, <1>7, <1>8, <1>9, <1>10, <1>11, <1>12, <1>13, <1>14,
     <1>15, <1>16, <1>17, <1>18, <1>19, <1>20, <1>21, <1>22, <1>23, <1>24, <1>25, <1>26, <1>27, <1>28
     DEF Next, Work, Start, Stop, Main

\* After the end no worker does anything.
LEMMA EndStep ==
    ASSUME DataOK, BootInv, EndInv, [Next]_vars
    PROVE  EndInv'
<1> USE ConstantsAssumption
   DEF ConstantsAssumption, Children, DataOK, BootInv, Starting, EndInv,
       At, Goes, Becomes, Fault, Tells, GivesUp, RecordExit, Crashed, Started,
       child, signals, thread
<1>1. ASSUME NEW c \in Children, Boot(c) PROVE EndInv'
  BY <1>1 DEF Boot
<1>2. ASSUME NEW c \in Children, Spawn(c) PROVE EndInv'
  BY <1>2 DEF Spawn
<1>3. ASSUME NEW c \in Children, SpawnFails(c) PROVE EndInv'
  BY <1>3 DEF SpawnFails
<1>4. ASSUME NEW c \in Children, Ready(c) PROVE EndInv'
  BY <1>4 DEF Ready
<1>5. ASSUME NEW c \in Children, NotReady(c) PROVE EndInv'
  BY <1>5 DEF NotReady
<1>6. ASSUME NEW c \in Children, Failed(c) PROVE EndInv'
  BY <1>6 DEF Failed
<1>7. ASSUME NEW c \in Children, Stopping(c) PROVE EndInv'
  BY <1>7 DEF Stopping
<1>8. ASSUME NEW c \in Children, StopChild(c) PROVE EndInv'
  BY <1>8 DEF StopChild
<1>9. ASSUME NEW c \in Children, Waited(c) PROVE EndInv'
  BY <1>9 DEF Waited
<1>10. ASSUME NEW c \in Children, Poll(c) PROVE EndInv'
  BY <1>10 DEF Poll
<1>11. ASSUME NEW c \in Children, Alive(c) PROVE EndInv'
  BY <1>11 DEF Alive
<1>12. ASSUME NEW c \in Children, KillHung(c) PROVE EndInv'
  BY <1>12 DEF KillHung
<1>13. ASSUME NEW c \in Children, ExitSeen(c) PROVE EndInv'
  BY <1>13 DEF ExitSeen
<1>14. ASSUME NEW c \in Children, WaitFails(c) PROVE EndInv'
  BY <1>14 DEF WaitFails
<1>15. ASSUME NEW c \in Children, BackoffEnds(c) PROVE EndInv'
  BY <1>15 DEF BackoffEnds
<1>16. ASSUME NEW c \in Children, BackoffCut(c) PROVE EndInv'
  BY <1>16 DEF BackoffCut
<1>17. ASSUME NEW c \in Children, Send(c) PROVE EndInv'
  BY <1>17 DEF Send
<1>18. ASSUME NEW c \in Children, Dies(c) PROVE EndInv'
  BY <1>18 DEF Dies, Environment
<1>19. ASSUME NEW c \in Children, Hangs(c) PROVE EndInv'
  BY <1>19 DEF Hangs, Environment
<1>20. ASSUME NEW c \in Children, Opens(c) PROVE EndInv'
  BY <1>20 DEF Opens, Environment
<1>21. CASE TakeMail
  BY <1>21 DEF TakeMail, Leaves
<1>22. CASE TimesOut
  BY <1>22 DEF TimesOut
<1>23. CASE ReadStop
  BY <1>23 DEF ReadStop, Leaves
<1>24. CASE Join
  BY <1>24 DEF Join
<1>25. CASE Ask
  BY <1>25 DEF Ask
<1>26. CASE Monitor
  BY <1>26 DEF Monitor
<1>27. CASE Restart
  BY <1>27 DEF Restart
<1>28. CASE UNCHANGED vars
  BY <1>28 DEF vars
<1> QED
  BY <1>1, <1>2, <1>3, <1>4, <1>5, <1>6, <1>7, <1>8, <1>9, <1>10, <1>11, <1>12, <1>13, <1>14,
     <1>15, <1>16, <1>17, <1>18, <1>19, <1>20, <1>21, <1>22, <1>23, <1>24, <1>25, <1>26, <1>27, <1>28
     DEF Next, Work, Start, Stop, Main

\* The stop flag has a reason.
LEMMA FlagStep ==
    ASSUME DataOK, FlagsOK, BootInv, ResultInv, EndInv, FlagInv, [Next]_vars
    PROVE  FlagInv'
<1> USE ConstantsAssumption
   DEF ConstantsAssumption, Children, DataOK, FlagsOK, BootInv, Starting,
       ResultInv, EndInv, FlagInv,
       At, Goes, Becomes, Fault, Tells, GivesUp, RecordExit, Crashed, Started,
       child, signals, thread
<1>1. ASSUME NEW c \in Children, Boot(c) PROVE FlagInv'
  BY <1>1 DEF Boot
<1>2. ASSUME NEW c \in Children, Spawn(c) PROVE FlagInv'
  BY <1>2, SMTT(60) DEF Spawn
<1>3. ASSUME NEW c \in Children, SpawnFails(c) PROVE FlagInv'
  BY <1>3 DEF SpawnFails
<1>4. ASSUME NEW c \in Children, Ready(c) PROVE FlagInv'
  BY <1>4, SMTT(60) DEF Ready
<1>5. ASSUME NEW c \in Children, NotReady(c) PROVE FlagInv'
  BY <1>5 DEF NotReady
<1>6. ASSUME NEW c \in Children, Failed(c) PROVE FlagInv'
  BY <1>6, SMTT(60) DEF Failed
<1>7. ASSUME NEW c \in Children, Stopping(c) PROVE FlagInv'
  BY <1>7 DEF Stopping
<1>8. ASSUME NEW c \in Children, StopChild(c) PROVE FlagInv'
  <2>1. (main' \in {"undo", "join", "ended"} => stop' = TRUE)
    BY <1>8 DEF StopChild
  <2>2. stop' = TRUE =>
         \/ asked' = TRUE \/ mail' = TRUE \/ (\E e \in Children : owes'[e] = TRUE)
         \/ main' = "undo" \/ result' = "error"
    BY <1>8 DEF StopChild
  <2> QED BY <2>1, <2>2
<1>9. ASSUME NEW c \in Children, Waited(c) PROVE FlagInv'
  BY <1>9 DEF Waited
<1>10. ASSUME NEW c \in Children, Poll(c) PROVE FlagInv'
  BY <1>10 DEF Poll
<1>11. ASSUME NEW c \in Children, Alive(c) PROVE FlagInv'
  BY <1>11 DEF Alive
<1>12. ASSUME NEW c \in Children, KillHung(c) PROVE FlagInv'
  BY <1>12, SMTT(60) DEF KillHung
<1>13. ASSUME NEW c \in Children, ExitSeen(c) PROVE FlagInv'
  BY <1>13, SMTT(60) DEF ExitSeen
<1>14. ASSUME NEW c \in Children, WaitFails(c) PROVE FlagInv'
  BY <1>14, SMTT(60) DEF WaitFails
<1>15. ASSUME NEW c \in Children, BackoffEnds(c) PROVE FlagInv'
  BY <1>15, SMTT(60) DEF BackoffEnds
<1>16. ASSUME NEW c \in Children, BackoffCut(c) PROVE FlagInv'
  BY <1>16 DEF BackoffCut
<1>17. ASSUME NEW c \in Children, Send(c) PROVE FlagInv'
  BY <1>17 DEF Send
<1>18. ASSUME NEW c \in Children, Dies(c) PROVE FlagInv'
  BY <1>18 DEF Dies, Environment
<1>19. ASSUME NEW c \in Children, Hangs(c) PROVE FlagInv'
  BY <1>19 DEF Hangs, Environment
<1>20. ASSUME NEW c \in Children, Opens(c) PROVE FlagInv'
  BY <1>20 DEF Opens, Environment
<1>21. CASE TakeMail
  BY <1>21 DEF TakeMail, Leaves
<1>22. CASE TimesOut
  BY <1>22 DEF TimesOut
<1>23. CASE ReadStop
  BY <1>23 DEF ReadStop, Leaves
<1>24. CASE Join
  <2>1. (main' \in {"undo", "join", "ended"} => stop' = TRUE)
    BY <1>24 DEF Join
  <2>2. stop' = TRUE =>
         \/ asked' = TRUE \/ mail' = TRUE \/ (\E e \in Children : owes'[e] = TRUE)
         \/ main' = "undo" \/ result' = "error"
    BY <1>24 DEF Join
  <2> QED BY <2>1, <2>2
<1>25. CASE Ask
  BY <1>25 DEF Ask
<1>26. CASE Monitor
  BY <1>26 DEF Monitor
<1>27. CASE Restart
  BY <1>27 DEF Restart
<1>28. CASE UNCHANGED vars
  BY <1>28 DEF vars
<1> QED
  BY <1>1, <1>2, <1>3, <1>4, <1>5, <1>6, <1>7, <1>8, <1>9, <1>10, <1>11, <1>12, <1>13, <1>14,
     <1>15, <1>16, <1>17, <1>18, <1>19, <1>20, <1>21, <1>22, <1>23, <1>24, <1>25, <1>26, <1>27, <1>28
     DEF Next, Work, Start, Stop, Main

-----------------------------------------------------------------------------
\* The inductive invariant holds in every state.
THEOREM Invariance == Spec => []IInv
<1>1. TypeOK <=> DataOK /\ FlagsOK
  BY DEF TypeOK, DataOK, FlagsOK
<1>2. Init => IInv
  <2> SUFFICES ASSUME Init PROVE IInv
    OBVIOUS
  <2>1. DataOK
    BY ConstantsAssumption DEF ConstantsAssumption, Init, Fresh, DataOK, Place
  <2>2. FlagsOK
    BY DEF Init, Fresh, FlagsOK
  <2>3. GoneInv /\ BootInv /\ ResultInv /\ EndInv /\ FlagInv
    BY DEF Init, Fresh, GoneInv, BootInv, Starting, ResultInv, EndInv, FlagInv
  <2> QED BY <1>1, <2>1, <2>2, <2>3 DEF IInv
<1>3. IInv /\ [Next]_vars => IInv'
  <2> SUFFICES ASSUME IInv, [Next]_vars PROVE IInv'
    OBVIOUS
  <2>1. DataOK /\ FlagsOK /\ GoneInv /\ BootInv /\ ResultInv /\ EndInv /\ FlagInv
    BY <1>1 DEF IInv
  <2>2. DataOK' /\ FlagsOK' /\ GoneInv' /\ BootInv' /\ ResultInv' /\ EndInv' /\ FlagInv'
    BY <2>1, DataStep, FlagsStep, GoneStep, BootStep, ResultStep, EndStep, FlagStep
  <2>3. TypeOK'
    BY <2>2 DEF TypeOK, DataOK, FlagsOK
  <2> QED BY <2>2, <2>3 DEF IInv
<1> QED
  BY <1>2, <1>3, PTL DEF Spec

\* The supervisor's state keeps its types.
THEOREM SupervisorTypeCorrect == Spec => []TypeOK
<1>1. IInv => TypeOK
  BY DEF IInv
<1> QED
  BY <1>1, Invariance, PTL

\* A host that has ended has joined every worker, left no process behind, and
\* has lost a reason to the race of the channel if it ended without an error
\* unasked (start_with_stop, wait, worker_loop).
THEOREM SupervisorEndsInOrder == Spec => []EndsInOrder
<1>1. IInv => EndsInOrder
  BY DEF IInv, EndsInOrder, GoneInv, Idle, EndInv, FlagInv
<1> QED
  BY <1>1, Invariance, PTL
=============================================================================
