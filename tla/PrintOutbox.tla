----------------------------- MODULE PrintOutbox -----------------------------
(***************************************************************************)
(* The durable print outbox of the local API: the rows of print_jobs and   *)
(* print_job_attempts, the dispatchers that lease and emit them (class     *)
(* PrintOutboxRuntime) and the acknowledgements that settle them.          *)
(*                                                                         *)
(* The wire and the print agent are left open: an acknowledgement of any   *)
(* attempt that was ever emitted may arrive, with either result, at any    *)
(* time, any number of times, or never.  PrintPipeline closes them.        *)
(*                                                                         *)
(* Time is one bit per row, due[j]: the deadline the row waits for has     *)
(* passed (nextAttemptAt when PENDING or RETRY, leaseExpiresAt when        *)
(* LEASED, retainUntil when PRINTED or DEAD).  leaseToken is a fresh UUID  *)
(* of every claim and attempts grows by one at every claim, so the attempt *)
(* number stands for the pair (attemptNumber, dispatchToken).              *)
(***************************************************************************)
EXTENDS Integers, FiniteSets

CONSTANTS
    Jobs,           \* identifiers of rows of print_jobs
    Workers,        \* PrintOutboxRuntime instances on the same database
    MaxAttempts,    \* print_jobs.maxAttempts; every caller takes the default
    Batch,          \* jobs one tick may claim (10 in the code)
    None            \* no claim in hand

ASSUME MaxAttemptsType == MaxAttempts \in Nat \ {0}
ASSUME BatchType == Batch \in Nat \ {0}

VARIABLES
    status,     \* status[j]: ABSENT and DELETED: there is no row
    attempts,   \* attempts[j]: claims made so far
    due,        \* due[j]: the row's pending deadline has passed
    audit,      \* audit[j][n]: row of print_job_attempts for attempt n
    emitted,    \* emitted[j]: attempts whose event went to the tenant room
    acking,     \* acknowledge() transactions between their read and write
    step,       \* step[w]: where the tick of w is
    claim,      \* claim[w]: the job and attempt dispatch() of w holds
    left,       \* left[w]: claims the current tick of w may still make
    licensed    \* assertOperationalLicense() does not throw

rows == <<status, attempts, due, audit>>
ticks == <<step, claim, left>>
vars == <<rows, emitted, acking, ticks, licensed>>

-----------------------------------------------------------------------------
\* Types

Open == {"PENDING", "LEASED", "RETRY"}
Settled == {"PRINTED", "DEAD"}
Status == Open \cup Settled \cup {"ABSENT", "DELETED"}
Step == {"idle", "exhaust", "claim", "dispatch", "audit", "purge"}

\* No row; acknowledgedAt null, without and with ambiguousAckLoss;
\* acknowledgedAt set with success; acknowledgedAt set and ambiguous.
Unacknowledged == {"open", "ambiguous"}
Audit == Unacknowledged \cup {"none", "success", "failure", "stale"}

Attempt == 1..MaxAttempts
Claim == [job : Jobs, attempt : Attempt]
Ack == [job : Jobs, attempt : Attempt, success : BOOLEAN]

ASSUME NoneIsNoClaim == None \notin Claim

TypeOK ==
    /\ status \in [Jobs -> Status]
    /\ attempts \in [Jobs -> 0..MaxAttempts]
    /\ due \in [Jobs -> BOOLEAN]
    /\ audit \in [Jobs -> [Attempt -> Audit]]
    /\ emitted \in [Jobs -> SUBSET Attempt]
    /\ acking \in SUBSET Ack
    /\ step \in [Workers -> Step]
    /\ claim \in [Workers -> Claim \cup {None}]
    /\ left \in [Workers -> 0..Batch]
    /\ licensed \in BOOLEAN

-----------------------------------------------------------------------------
\* The predicates the code selects rows by

\* Mutation: the claim does not look at maxAttempts.
CandidateUncapped(j) == status[j] \in Open /\ due[j]

Candidate(j) ==
    /\ status[j] \in Open
    /\ attempts[j] < MaxAttempts
    /\ due[j]

Exhausted(j) == status[j] \in Open /\ attempts[j] >= MaxAttempts

Current(j, n) == status[j] = "LEASED" /\ attempts[j] = n

\* The audit row of attempt n of job j, if it has not been acknowledged, is
\* overwritten with a; an acknowledged row is left as it is.
Audited(j, n, a) ==
    IF audit[j][n] \in Unacknowledged
    THEN [audit EXCEPT ![j][n] = a]
    ELSE audit

-----------------------------------------------------------------------------
Init ==
    /\ status = [j \in Jobs |-> "ABSENT"]
    /\ attempts = [j \in Jobs |-> 0]
    /\ due = [j \in Jobs |-> FALSE]
    /\ audit = [j \in Jobs |-> [n \in Attempt |-> "none"]]
    /\ emitted = [j \in Jobs |-> {}]
    /\ acking = {}
    /\ step = [w \in Workers |-> "idle"]
    /\ claim = [w \in Workers |-> None]
    /\ left = [w \in Workers |-> 0]
    /\ licensed = TRUE

\* A row is created PENDING and due at once, or DEAD when the caller already
\* knows that no printer can take it (initialError).
Enqueue(j) ==
    /\ status[j] = "ABSENT"
    /\ \E s \in {"PENDING", "DEAD"} :
          /\ status' = [status EXCEPT ![j] = s]
          /\ due' = [due EXCEPT ![j] = (s = "PENDING")]
    /\ UNCHANGED <<attempts, audit, emitted, acking, ticks, licensed>>

\* Time reaches the deadline the row waits for.
DeadlinePasses(j) ==
    /\ status[j] \in {"LEASED", "RETRY"} \cup Settled
    /\ ~due[j]
    /\ due' = [due EXCEPT ![j] = TRUE]
    /\ UNCHANGED <<status, attempts, audit, emitted, acking, ticks, licensed>>

LicenseChanges ==
    /\ licensed' = ~licensed
    /\ UNCHANGED <<rows, emitted, acking, ticks>>

-----------------------------------------------------------------------------
\* One tick of dispatcher w

\* A kick while the tick runs is dropped; one under a locked license throws
\* before it touches a row.
TickStart(w) ==
    /\ step[w] = "idle"
    /\ licensed
    /\ step' = [step EXCEPT ![w] = "exhaust"]
    /\ UNCHANGED <<rows, emitted, acking, claim, left, licensed>>

\* Mutation: the sweep leaves leased rows to their dispatcher.
MarkExhaustedDeadNotLeased(w) ==
    /\ step[w] = "exhaust"
    /\ LET swept == {j \in Jobs : Exhausted(j) /\ status[j] # "LEASED"}
       IN  status' = [j \in Jobs |-> IF j \in swept THEN "DEAD" ELSE status[j]]
    /\ step' = [step EXCEPT ![w] = "claim"]
    /\ left' = [left EXCEPT ![w] = Batch]
    /\ UNCHANGED <<attempts, due, audit, emitted, acking, claim, licensed>>

\* The sweep looks at attempts alone: not at the lease, and not at the audit.
MarkExhaustedDead(w) ==
    /\ step[w] = "exhaust"
    /\ status' = [j \in Jobs |-> IF Exhausted(j) THEN "DEAD" ELSE status[j]]
    /\ due' = [j \in Jobs |-> due[j] /\ ~Exhausted(j)]
    /\ step' = [step EXCEPT ![w] = "claim"]
    /\ left' = [left EXCEPT ![w] = Batch]
    /\ UNCHANGED <<attempts, audit, emitted, acking, claim, licensed>>

\* The claim of row j by w as attempt n, over the audit as flagged before.
Take(w, j, n, flagged) ==
    /\ status' = [status EXCEPT ![j] = "LEASED"]
    /\ attempts' = [attempts EXCEPT ![j] = n]
    /\ due' = [due EXCEPT ![j] = FALSE]
    /\ audit' = [flagged EXCEPT ![j][n] = "open"]
    /\ claim' = [claim EXCEPT ![w] = [job |-> j, attempt |-> n]]
    /\ step' = [step EXCEPT ![w] = "dispatch"]
    /\ left' = [left EXCEPT ![w] = @ - 1]
    /\ UNCHANGED <<emitted, acking, licensed>>

\* Mutation: taking over an expired lease repeats its attempt number.
ClaimNextSameAttempt(w) ==
    /\ step[w] = "claim"
    /\ left[w] > 0
    /\ \E j \in Jobs :
          /\ Candidate(j)
          /\ Take(w, j, attempts[j] + IF status[j] = "LEASED" THEN 0 ELSE 1, audit)

\* Mutation: the superseded attempt is not flagged.
ClaimNextUnflagged(w) ==
    /\ step[w] = "claim"
    /\ left[w] > 0
    /\ \E j \in Jobs : Candidate(j) /\ Take(w, j, attempts[j] + 1, audit)

\* One transaction: lease a due row, flag the attempt whose lease it takes
\* over, open the audit row of the new attempt.
ClaimNext(w) ==
    /\ step[w] = "claim"
    /\ left[w] > 0
    /\ \E j \in Jobs :
          LET n == attempts[j] + 1
              flagged == IF status[j] = "LEASED" /\ n > 1
                         THEN Audited(j, n - 1, "ambiguous")
                         ELSE audit
          IN  Candidate(j) /\ Take(w, j, n, flagged)

NothingToClaim(w) ==
    /\ step[w] = "claim"
    /\ left[w] = 0 \/ \A j \in Jobs : ~Candidate(j)
    /\ step' = [step EXCEPT ![w] = "purge"]
    /\ left' = [left EXCEPT ![w] = 0]
    /\ UNCHANGED <<rows, emitted, acking, claim, licensed>>

\* The awaited printer lookup found the address of the snapshot: the event is
\* emitted, whatever has become of the lease meanwhile.
Emit(w) ==
    /\ step[w] = "dispatch"
    /\ LET c == claim[w]
       IN  emitted' = [emitted EXCEPT ![c.job] = @ \cup {c.attempt}]
    /\ step' = [step EXCEPT ![w] = "claim"]
    /\ claim' = [claim EXCEPT ![w] = None]
    /\ UNCHANGED <<rows, acking, left, licensed>>

\* The lookup found another address or none.  The row is updated by id alone
\* (an error, hence TickFails, if it is gone); the audit in a second write.
DeadLetter(w) ==
    /\ step[w] = "dispatch"
    /\ LET j == claim[w].job
       IN  /\ status[j] # "DELETED"
           /\ status' = [status EXCEPT ![j] = "DEAD"]
           /\ due' = [due EXCEPT ![j] = FALSE]
    /\ step' = [step EXCEPT ![w] = "audit"]
    /\ UNCHANGED <<attempts, audit, emitted, acking, claim, left, licensed>>

DeadLetterAudit(w) ==
    /\ step[w] = "audit"
    /\ audit' = Audited(claim[w].job, claim[w].attempt, "failure")
    /\ step' = [step EXCEPT ![w] = "claim"]
    /\ claim' = [claim EXCEPT ![w] = None]
    /\ UNCHANGED <<status, attempts, due, emitted, acking, left, licensed>>

\* Mutation: retention goes by the deadline alone, whatever the status.
PurgeByDeadline(w) ==
    /\ step[w] = "purge"
    /\ status' = [j \in Jobs |-> IF due[j] THEN "DELETED" ELSE status[j]]
    /\ step' = [step EXCEPT ![w] = "idle"]
    /\ UNCHANGED <<attempts, due, audit, emitted, acking, claim, left, licensed>>

\* Rows past their retention go, and their audit rows with them (cascade).
Purge(w) ==
    /\ step[w] = "purge"
    /\ LET past == {j \in Jobs : status[j] \in Settled /\ due[j]}
       IN  /\ status' = [j \in Jobs |->
                            IF j \in past THEN "DELETED" ELSE status[j]]
           /\ due' = [j \in Jobs |-> due[j] /\ j \notin past]
           /\ audit' = [j \in Jobs |-> IF j \in past
                                       THEN [n \in Attempt |-> "none"]
                                       ELSE audit[j]]
    /\ step' = [step EXCEPT ![w] = "idle"]
    /\ UNCHANGED <<attempts, emitted, acking, claim, left, licensed>>

\* A rejected query ends the tick where it is; so does a crash of the API,
\* which finds its timer and an idle runtime when it starts again.
TickFails(w) ==
    /\ step[w] # "idle"
    /\ step' = [step EXCEPT ![w] = "idle"]
    /\ claim' = [claim EXCEPT ![w] = None]
    /\ left' = [left EXCEPT ![w] = 0]
    /\ UNCHANGED <<rows, emitted, acking, licensed>>

-----------------------------------------------------------------------------
\* acknowledge(): a transaction that reads the row and writes it afterwards

\* The row is not leased to attempt n: the answer is kept in the audit only.
AckStale(j, n) ==
    /\ licensed
    /\ n \in emitted[j]
    /\ status[j] # "PRINTED"
    /\ ~Current(j, n)
    /\ audit[j][n] \in Unacknowledged
    /\ audit' = Audited(j, n, "stale")
    /\ UNCHANGED <<status, attempts, due, emitted, acking, ticks, licensed>>

AckRead(j, n, ok) ==
    /\ licensed
    /\ n \in emitted[j]
    /\ Current(j, n)
    /\ acking' = acking \cup {[job |-> j, attempt |-> n, success |-> ok]}
    /\ UNCHANGED <<rows, emitted, ticks, licensed>>

\* Mutation: the write goes by the id of the row, not by its lease.
SettleById(a) ==
    /\ a \in acking
    /\ status' = [status EXCEPT ![a.job] = IF a.success THEN "PRINTED" ELSE "RETRY"]
    /\ audit' = Audited(a.job, a.attempt, IF a.success THEN "success" ELSE "failure")
    /\ due' = [due EXCEPT ![a.job] = FALSE]
    /\ acking' = acking \ {a}
    /\ UNCHANGED <<attempts, emitted, ticks, licensed>>

\* The conditional write of an acknowledgement that still holds the lease.
Settle(a) ==
    /\ a \in acking
    /\ Current(a.job, a.attempt)
    /\ LET s == IF a.success THEN "PRINTED"
                ELSE IF attempts[a.job] >= MaxAttempts THEN "DEAD" ELSE "RETRY"
           r == IF a.success THEN "success" ELSE "failure"
       IN  /\ status' = [status EXCEPT ![a.job] = s]
           /\ audit' = Audited(a.job, a.attempt, r)
    /\ due' = [due EXCEPT ![a.job] = FALSE]
    /\ acking' = acking \ {a}
    /\ UNCHANGED <<attempts, emitted, ticks, licensed>>

\* The conditional write matched no row: the lease changed hands in between.
LeaseRaceLost(a) ==
    /\ a \in acking
    /\ ~Current(a.job, a.attempt)
    /\ audit' = Audited(a.job, a.attempt, "stale")
    /\ acking' = acking \ {a}
    /\ UNCHANGED <<status, attempts, due, emitted, ticks, licensed>>

AckAborts(a) ==
    /\ a \in acking
    /\ acking' = acking \ {a}
    /\ UNCHANGED <<rows, emitted, ticks, licensed>>

-----------------------------------------------------------------------------
Dispatching(w) ==
    \/ MarkExhaustedDead(w) \/ ClaimNext(w) \/ NothingToClaim(w)
    \/ Emit(w) \/ DeadLetter(w) \/ DeadLetterAudit(w) \/ Purge(w)

Acknowledging ==
    \/ \E j \in Jobs, n \in Attempt :
          AckStale(j, n) \/ \E ok \in BOOLEAN : AckRead(j, n, ok)
    \/ \E a \in acking : Settle(a) \/ LeaseRaceLost(a) \/ AckAborts(a)

Next ==
    \/ \E j \in Jobs : Enqueue(j) \/ DeadlinePasses(j)
    \/ \E w \in Workers : TickStart(w) \/ Dispatching(w) \/ TickFails(w)
    \/ Acknowledging
    \/ LicenseChanges

Spec == Init /\ [][Next]_vars

(***************************************************************************)
(* Liveness assumes that ticks keep coming (the interval timer), that time *)
(* passes, that a locked license is renewed, and that the database does    *)
(* not fail every query for ever: each step of a tick is retried, so it    *)
(* needs strong fairness against TickFails.                                *)
(***************************************************************************)
Fairness ==
    /\ WF_vars(~licensed /\ LicenseChanges)
    /\ \A j \in Jobs : WF_vars(DeadlinePasses(j))
    /\ \A w \in Workers :
          /\ SF_vars(TickStart(w))
          /\ SF_vars(MarkExhaustedDead(w))
          /\ SF_vars(ClaimNext(w))
          /\ WF_vars(Dispatching(w))

FairSpec == Spec /\ Fairness

-----------------------------------------------------------------------------
\* Properties

\* A claim belongs to one dispatcher: no attempt is in the hands of two of
\* them, and one about to be dispatched has not been emitted before.  FOR
\* UPDATE SKIP LOCKED and the increment of attempts are what keeps it so.
AttemptHasOneDispatcher ==
    \A w \in Workers : claim[w] # None =>
        /\ claim[w].attempt <= attempts[claim[w].job]
        /\ step[w] = "dispatch" =>
              claim[w].attempt \notin emitted[claim[w].job]
        /\ \A v \in Workers \ {w} : claim[v] # claim[w]

\* Every attempt that a later one has superseded is accounted for: it was
\* acknowledged, or it is flagged ambiguousAckLoss because its lease ran out.
SupersededAttemptAudited ==
    \A j \in Jobs, n \in Attempt :
        n < attempts[j] => audit[j][n] # "open"

\* A job is PRINTED by the attempt that held its lease at that moment, and
\* the audit of that attempt says so: an acknowledgement overtaken between
\* its read and its write settles nothing.
PrintedByCurrentAttempt ==
    \A j \in Jobs : status[j] = "PRINTED" =>
        /\ attempts[j] \in emitted[j]
        /\ audit[j][attempts[j]] = "success"

\* Whatever the agent answers, and even if it never does, an accepted job is
\* settled: at most MaxAttempts attempts, then the dead letter.
EveryJobSettles ==
    \A j \in Jobs : status[j] \in Open ~> status[j] \in Settled

\* The rows, seen from outside, live the life PrintJobLifecycle allows.  This
\* needs a single dispatcher: the dead letter of a second one, delayed past
\* its lease, overwrites a row that was printed meanwhile.
Phase(j) ==
    CASE status[j] = "ABSENT" -> "absent"
      [] status[j] \in Open -> "open"
      [] status[j] = "PRINTED" -> "printed"
      [] status[j] = "DEAD" -> "dead"
      [] status[j] = "DELETED" -> "gone"

Lifecycle == INSTANCE PrintJobLifecycle
                 WITH phase <- [j \in Jobs |-> Phase(j)]

OutboxLifecycle == Lifecycle!LifecycleSpec
=============================================================================
