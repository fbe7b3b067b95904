----------------------------- MODULE Supervisor -----------------------------
(***************************************************************************)
(* The supervisor of the Windows host: it starts the processes of a        *)
(* restaurant one after the other, then a worker thread watches each of    *)
(* them, restarts it after a pause, and gives up when an essential one     *)
(* keeps failing.  The threads share one stop flag and a channel in which  *)
(* a worker that gives up tells the main thread why; the main thread joins *)
(* the workers and ends, and the service control manager starts the host   *)
(* again after an end with an error.                                       *)
(*                                                                         *)
(* Time is left out: a pause, a timeout and a crash window end at any      *)
(* moment.  What may go wrong is counted by faults.                        *)
(***************************************************************************)
EXTENDS Naturals

CONSTANTS
    N,              \* processes, numbered in their start-up order
    Essential,      \* those whose crash loop ends the host
    Probed,         \* those with a loopback endpoint
    MaxCrashes,     \* maximum_crashes_in_window
    MaxFaults       \* bound: processes that die, hang or do not start, and
                    \* calls of the system that fail

Children == 1..N

ASSUME ConstantsAssumption ==
    /\ N \in Nat \ {0} /\ MaxCrashes \in Nat \ {0} /\ MaxFaults \in Nat
    /\ Essential \in SUBSET Children /\ Probed \in SUBSET Children

VARIABLES
    process,    \* process[c]: gone, or alive with its endpoint closed or open
    at,         \* at[c]: where the thread is that looks after c
    attempt,    \* attempt[c]: 0 the first start, then the two of a restart
    crashes,    \* crashes[c]: exits in the window
    owes,       \* owes[c]: c's worker has set the stop flag and not yet sent why
    stop,       \* the supervisor's stop flag
    mail,       \* a reason to give up is in the channel
    asked,      \* the service was asked to stop
    main,       \* where the main thread is
    booted,     \* processes that were started
    result,     \* the exit of the service
    faults

child == <<process, at, attempt, crashes, owes>>
signals == <<stop, mail, asked>>
thread == <<main, booted, result>>
vars == <<child, signals, thread, faults>>

\* "startWait", "stopWait": in child.wait() of a process that stop_child could
\* not terminate, during a start and at the end of a worker.
Place == {"unborn", "spawn", "startup", "startWait", "failed", "top", "poll",
          "backoff", "stopping", "stopWait", "done"}

TypeOK ==
    /\ process \in [Children -> {"dead", "closed", "open"}]
    /\ at \in [Children -> Place]
    /\ attempt \in [Children -> 0..2]
    /\ crashes \in [Children -> 0..MaxCrashes]
    /\ owes \in [Children -> BOOLEAN]
    /\ stop \in BOOLEAN /\ mail \in BOOLEAN /\ asked \in BOOLEAN
    /\ main \in {"boot", "undo", "wait", "timedOut", "join", "ended", "refused"}
    /\ booted \in 0..N
    /\ result \in {"none", "ok", "error"}
    /\ faults \in 0..MaxFaults

Fresh ==
    /\ process = [c \in Children |-> "dead"]
    /\ at = [c \in Children |-> "unborn"]
    /\ attempt = [c \in Children |-> 0]
    /\ crashes = [c \in Children |-> 0]
    /\ owes = [c \in Children |-> FALSE]
    /\ stop = FALSE /\ mail = FALSE /\ asked = FALSE
    /\ main = "boot" /\ booted = 0 /\ result = "none"

Init == Fresh /\ faults = 0

-----------------------------------------------------------------------------
Fault == faults < MaxFaults /\ faults' = faults + 1
At(c, place) == at[c] = place /\ ~owes[c]
Goes(c, place) == at' = [at EXCEPT ![c] = place]
Becomes(c, p) == process' = [process EXCEPT ![c] = p]

\* update_or_fail: a health file that cannot be written stops everything; the
\* worker sets the flag, then sends the reason, and goes on.
Tells(c) ==
    /\ UNCHANGED mail
    /\ \/ UNCHANGED <<owes, stop, faults>>
       \/ Fault /\ stop' = TRUE /\ owes' = [owes EXCEPT ![c] = TRUE]

\* The worker sets the stop flag, then sends the reason, and returns; what is
\* left of its process dies with the job object it drops.
GivesUp(c) ==
    /\ Goes(c, "done") /\ Becomes(c, "dead")
    /\ stop' = TRUE /\ owes' = [owes EXCEPT ![c] = TRUE]
    /\ UNCHANGED <<attempt, mail>>

\* fatal.send
Send(c) ==
    /\ owes[c]
    /\ owes' = [owes EXCEPT ![c] = FALSE] /\ mail' = TRUE
    /\ UNCHANGED <<process, at, attempt, crashes, stop, asked, thread, faults>>

\* CrashTracker.record_exit: earlier exits may have left the window, or been
\* forgotten after a stable run; the count is kept up to the limit.
RecordExit(c, n) ==
    /\ n \in 1..MaxCrashes /\ n <= crashes[c] + 1
    /\ crashes' = [crashes EXCEPT ![c] = n]

\* An exit, or a start that failed: the worker pauses and tries again, unless
\* its process is essential and in a crash loop.
Crashed(c, next) ==
    \E n \in 1..MaxCrashes :
        /\ RecordExit(c, n)
        /\ \/ n = MaxCrashes /\ c \in Essential /\ GivesUp(c) /\ UNCHANGED faults
           \/ /\ n # MaxCrashes \/ c \notin Essential
              /\ Goes(c, "backoff") /\ attempt' = [attempt EXCEPT ![c] = next]
              /\ Tells(c) /\ UNCHANGED process

-----------------------------------------------------------------------------
(***************************************************************************)
(* One start, spawn_ready_child: in the main thread the first time, in the *)
(* worker after that.                                                      *)
(***************************************************************************)
SpawnFails(c) ==
    /\ At(c, "spawn") /\ Fault /\ Goes(c, "failed")
    /\ UNCHANGED <<process, attempt, crashes, owes, signals, thread>>

\* The process is up and healthy is written.  The main thread goes on to the
\* next one, or refuses to go on without the health file and returns.
Started(c) ==
    \/ /\ attempt[c] = 0 /\ booted' = c
       /\ Goes(c, "top")
       /\ main' = IF c = N THEN "wait" ELSE "boot"
       /\ UNCHANGED <<owes, stop, mail, result, faults>>
    \/ /\ attempt[c] = 0 /\ Fault
       /\ Goes(c, "unborn")
       /\ main' = "refused" /\ result' = "error"
       /\ UNCHANGED <<owes, stop, mail, booted>>
    \/ attempt[c] # 0 /\ Goes(c, "top") /\ Tells(c) /\ UNCHANGED thread

\* A process without an endpoint is taken for ready at once; the job object of
\* one that is dropped kills it.
Spawn(c) ==
    /\ At(c, "spawn")
    /\ IF c \in Probed
       THEN /\ Goes(c, "startup") /\ Becomes(c, "closed")
            /\ UNCHANGED <<owes, stop, mail, thread, faults>>
       ELSE Started(c) /\ Becomes(c, IF at'[c] = "unborn" THEN "dead" ELSE "open")
    /\ UNCHANGED <<attempt, crashes, asked>>

\* The endpoint answered three times; stop may have been set since the last look.
Ready(c) ==
    /\ At(c, "startup") /\ process[c] = "open"
    /\ Started(c)
    /\ process' = [process EXCEPT ![c] = IF at'[c] = "unborn" THEN "dead" ELSE @]
    /\ UNCHANGED <<attempt, crashes, asked>>

\* The start is cancelled, the process has exited, or it is ended because its
\* endpoint did not come up in time or it could not be looked at.  Where
\* stop_child cannot terminate it, the thread waits for it all the same.
NotReady(c) ==
    /\ At(c, "startup")
    /\ \/ /\ \/ (stop \/ process[c] = "dead") /\ UNCHANGED faults
             \/ Fault
          /\ Goes(c, "failed") /\ Becomes(c, "dead")
       \/ /\ process[c] # "dead" /\ Fault
          /\ Goes(c, "startWait") /\ UNCHANGED process
    /\ UNCHANGED <<attempt, crashes, owes, signals, thread>>

\* What a failed start leads to: the first one ends the start of the host, the
\* first try of a restart counts as one more exit, and after the second the
\* worker gives up or comes back to the exit it saw before.
Failed(c) ==
    /\ At(c, "failed")
    /\ \/ /\ attempt[c] = 0 /\ Goes(c, "unborn")
          /\ \/ main' = "undo" /\ stop' = TRUE /\ UNCHANGED <<result, faults>>
             \/ main' = "refused" /\ result' = "error" /\ Fault /\ UNCHANGED stop
          /\ UNCHANGED <<process, attempt, crashes, owes, mail, booted>>
       \/ attempt[c] = 1 /\ Crashed(c, 2) /\ UNCHANGED thread
       \/ /\ attempt[c] = 2 /\ c \in Essential
          /\ GivesUp(c) /\ UNCHANGED <<crashes, thread, faults>>
       \/ /\ attempt[c] = 2 /\ c \notin Essential /\ Goes(c, "top")
          /\ UNCHANGED <<process, attempt, crashes, owes, stop, mail, thread, faults>>
    /\ UNCHANGED asked

-----------------------------------------------------------------------------
(***************************************************************************)
(* The rest of a worker, worker_loop.                                      *)
(***************************************************************************)
Stopping(c) ==
    /\ At(c, "top") /\ stop
    /\ Goes(c, "stopping") /\ Tells(c)
    /\ UNCHANGED <<process, attempt, crashes, asked, thread>>

\* Mutation: a process that ignores the request to end is left behind.
LeavesRunning(c) ==
    /\ At(c, "stopping")
    /\ Goes(c, "done") /\ Tells(c)
    /\ UNCHANGED <<process, attempt, crashes, asked, thread>>

\* stop_child: asked to end, then its tree is terminated and waited for; a
\* termination that fails is only logged before the wait.
StopChild(c) ==
    /\ At(c, "stopping")
    /\ \/ Goes(c, "done") /\ Becomes(c, "dead") /\ Tells(c)
       \/ /\ process[c] # "dead" /\ Fault
          /\ Goes(c, "stopWait") /\ UNCHANGED <<process, owes, stop, mail>>
    /\ UNCHANGED <<attempt, crashes, asked, thread>>

\* The process that could not be terminated has ended by itself.
Waited(c) ==
    /\ process[c] = "dead"
    /\ \/ At(c, "stopWait") /\ Goes(c, "done") /\ Tells(c)
       \/ /\ At(c, "startWait") /\ Goes(c, "failed")
          /\ UNCHANGED <<owes, stop, mail, faults>>
    /\ UNCHANGED <<process, attempt, crashes, asked, thread>>

Poll(c) ==
    /\ At(c, "top") /\ ~stop
    /\ Goes(c, "poll")
    /\ UNCHANGED <<process, attempt, crashes, owes, signals, thread, faults>>

Alive(c) ==
    /\ At(c, "poll") /\ process[c] # "dead"
    /\ Goes(c, "top")
    /\ UNCHANGED <<process, attempt, crashes, owes, signals, thread, faults>>

\* Mutation: an endpoint that does not answer is only logged.
HungOnlyLogged(c) ==
    /\ At(c, "poll") /\ c \in Probed /\ process[c] = "closed"
    /\ Goes(c, "top") /\ Tells(c)
    /\ UNCHANGED <<process, attempt, crashes, asked, thread>>

\* The sixth probe without an answer: the tree is terminated, and the next look
\* sees an exit; a termination that fails ends the worker.
KillHung(c) ==
    /\ At(c, "poll") /\ c \in Probed /\ process[c] = "closed"
    /\ \/ Goes(c, "top") /\ Becomes(c, "dead") /\ Tells(c) /\ UNCHANGED attempt
       \/ Fault /\ GivesUp(c)
    /\ UNCHANGED <<crashes, asked, thread>>

ExitSeen(c) ==
    /\ At(c, "poll") /\ process[c] = "dead"
    /\ Crashed(c, 1)
    /\ UNCHANGED <<asked, thread>>

WaitFails(c) ==
    /\ At(c, "poll") /\ Fault
    /\ GivesUp(c)
    /\ UNCHANGED <<crashes, asked, thread>>

\* sleep_interruptibly: the last slice of the pause is not followed by a look
\* at the flag.
BackoffEnds(c) ==
    /\ At(c, "backoff") /\ Goes(c, "spawn")
    /\ IF attempt[c] = 1 THEN Tells(c) ELSE UNCHANGED <<owes, stop, mail, faults>>
    /\ UNCHANGED <<process, attempt, crashes, asked, thread>>

BackoffCut(c) ==
    /\ At(c, "backoff") /\ stop
    /\ Goes(c, "top")
    /\ UNCHANGED <<process, attempt, crashes, owes, signals, thread, faults>>

-----------------------------------------------------------------------------
(***************************************************************************)
(* The main thread: start_with_stop, then wait.                            *)
(***************************************************************************)
Boot(c) ==
    /\ main = "boot" /\ c = booted + 1 /\ at[c] = "unborn"
    /\ \/ at' = [at EXCEPT ![c] = "spawn"] /\ UNCHANGED <<main, result, faults>>
       \/ main' = "refused" /\ result' = "error" /\ Fault /\ UNCHANGED at
    /\ UNCHANGED <<process, attempt, crashes, owes, signals, booted>>

\* set_overall: without the health file the main thread returns as it is, its
\* workers are not joined.
Leaves(place, exit) ==
    \/ main' = place /\ result' = exit /\ UNCHANGED faults
    \/ main' = "refused" /\ result' = "error" /\ Fault

TakeMail ==
    /\ main = "wait" /\ mail
    /\ stop' = TRUE /\ mail' = FALSE
    /\ Leaves("join", "error")
    /\ UNCHANGED <<child, asked, booted>>

\* recv_timeout runs out with nothing in the channel, then stop is read.
TimesOut ==
    /\ main = "wait" /\ ~mail
    /\ main' = "timedOut"
    /\ UNCHANGED <<child, signals, booted, result, faults>>

ReadStop ==
    /\ main = "timedOut"
    /\ IF stop THEN Leaves("join", "ok") ELSE main' = "wait" /\ UNCHANGED <<result, faults>>
    /\ UNCHANGED <<child, signals, booted>>

\* Every worker is joined, and the result is that of the first reason received.
Join ==
    /\ main \in {"undo", "join"}
    /\ \A c \in Children : at[c] \in {"unborn", "done"} /\ ~owes[c]
    /\ main' = "ended"
    /\ \/ result' = (IF main = "undo" THEN "error" ELSE result) /\ UNCHANGED faults
       \/ result' = "error" /\ Fault
    /\ UNCHANGED <<child, signals, booted>>

-----------------------------------------------------------------------------
\* The service is asked to stop, which it accepts once it is running; a thread
\* of its own passes that on.
Ask ==
    /\ main \in {"wait", "timedOut"} /\ ~asked
    /\ asked' = TRUE
    /\ UNCHANGED <<child, stop, mail, thread, faults>>

Monitor ==
    /\ asked /\ ~stop /\ main \notin {"ended", "refused"}
    /\ stop' = TRUE
    /\ UNCHANGED <<child, mail, asked, thread, faults>>

\* The service control manager starts a service again that ended with an error;
\* the processes of the old one died with its job objects.
Restart ==
    /\ main \in {"ended", "refused"} /\ result = "error"
    /\ process' = [c \in Children |-> "dead"]
    /\ at' = [c \in Children |-> "unborn"]
    /\ attempt' = [c \in Children |-> 0]
    /\ crashes' = [c \in Children |-> 0]
    /\ owes' = [c \in Children |-> FALSE]
    /\ stop' = FALSE /\ mail' = FALSE /\ asked' = FALSE
    /\ main' = "boot" /\ booted' = 0 /\ result' = "none"
    /\ UNCHANGED faults

Environment(c) == UNCHANGED <<at, attempt, crashes, owes, signals, thread>>

Dies(c) == process[c] # "dead" /\ Fault /\ Becomes(c, "dead") /\ Environment(c)

Hangs(c) ==
    /\ c \in Probed /\ process[c] = "open" /\ Fault
    /\ Becomes(c, "closed") /\ Environment(c)

Opens(c) ==
    /\ process[c] = "closed" /\ UNCHANGED faults
    /\ Becomes(c, "open") /\ Environment(c)

-----------------------------------------------------------------------------
Start(c) == Boot(c) \/ Spawn(c) \/ SpawnFails(c) \/ Ready(c) \/ NotReady(c) \/ Failed(c)

Stop(c) == Stopping(c) \/ StopChild(c) \/ Waited(c)

Work(c) ==
    \/ Start(c) \/ Stop(c) \/ Poll(c) \/ Alive(c) \/ KillHung(c)
    \/ ExitSeen(c) \/ WaitFails(c) \/ BackoffEnds(c) \/ BackoffCut(c) \/ Send(c)

Main == TakeMail \/ TimesOut \/ ReadStop \/ Join

Next ==
    \/ \E c \in Children : Work(c) \/ Dies(c) \/ Hangs(c) \/ Opens(c)
    \/ Main \/ Ask \/ Monitor \/ Restart

\* Threads go on, a process that starts opens its endpoint, and six probes in a
\* row come to an end.
Fairness ==
    /\ \A c \in Children :
          /\ WF_vars(Work(c)) /\ SF_vars(KillHung(c))
          /\ WF_vars(at[c] = "startup" /\ Opens(c))
    /\ WF_vars(Main) /\ WF_vars(Monitor) /\ WF_vars(Restart)

Spec == Init /\ [][Next]_vars
FairSpec == Spec /\ Fairness

-----------------------------------------------------------------------------
\* A start that was undone and a wait that returned have joined every worker
\* and left no process behind, whatever its worker was doing when the flag was
\* set (supervisor.rs: start_with_stop, wait, worker_loop): the next start finds
\* the ports and the data directory free.  An end without an error that nobody
\* asked for comes from one race only: a reason was sent after the main thread
\* had timed out and before it read the flag, and it is still in the channel.
EndsInOrder ==
    main = "ended" =>
        /\ \A c \in Children : process[c] = "dead" /\ at[c] \in {"unborn", "done"}
        /\ result = "ok" => asked \/ mail

\* Once no more goes wrong the host gets to serve: every process answers, or
\* the host ends without an error and stays down.  No sequence of exits, hung
\* processes, failed starts and stops leaves threads waiting for each other.
\* What it does not survive is a process that neither ends nor can be
\* terminated: the wait of stop_child has no limit, and with that worker the
\* join, the service and its restart wait for as long as the process lives.
Serving == main \in {"wait", "timedOut"} /\ \A c \in Children : process[c] = "open"
Stuck == \E c \in Children : at[c] \in {"startWait", "stopWait"} /\ process[c] # "dead"
Recovers == []<>~Stuck => []<>(Serving \/ (main = "ended" /\ result = "ok"))
=============================================================================
