----------------------------- MODULE PrintProofs -----------------------------
(***************************************************************************)
(* What printing guarantees for any number of jobs, dispatchers, attempts  *)
(* and agents.  First the outbox by itself: its invariants, and that with  *)
(* one dispatcher it implements PrintJobLifecycle.  Then the pipeline: its *)
(* dispatcher implements PrintOutbox, a printed job is on paper, the       *)
(* ledger of an agent stops it from printing a job twice, and no agent     *)
(* uses more sheets than there were attempts.  These arguments follow what *)
(* is passed on over every loss and crash: the attempt, from the           *)
(* dispatcher to the event, the handler, the answer and acknowledge(); and *)
(* the evidence of paper, from the handler that inked to the ledger, the   *)
(* answer, the acknowledgement and the row.                                *)
(***************************************************************************)
EXTENDS PrintPipeline, FiniteSetTheorems, TLAPS

\* What the status of a row says about its attempts and their audit.
RowInv ==
    \A j \in Jobs :
        /\ status[j] \in {"ABSENT", "PENDING"} => attempts[j] = 0
        /\ status[j] = "LEASED" =>
              attempts[j] > 0 /\ audit[j][attempts[j]] \in Unacknowledged
        /\ status[j] = "RETRY" =>
              attempts[j] > 0 /\ audit[j][attempts[j]] # "open"

\* Nothing was emitted that was not claimed, nothing acknowledged that was
\* not emitted.
WireInv ==
    /\ \A j \in Jobs : \A n \in emitted[j] : n <= attempts[j]
    /\ \A a \in acking : a.attempt \in emitted[a.job]

\* A dispatcher holds a claim exactly while it dispatches it; once it has
\* written the dead letter the row can only be purged.
ClaimInv ==
    \A w \in Workers :
        /\ claim[w] # None <=> step[w] \in {"dispatch", "audit"}
        /\ step[w] = "audit" => status[claim[w].job] \in {"DEAD", "DELETED"}

IInv ==
    /\ TypeOK
    /\ RowInv
    /\ WireInv
    /\ ClaimInv
    /\ AttemptHasOneDispatcher
    /\ SupersededAttemptAudited
    /\ PrintedByCurrentAttempt

-----------------------------------------------------------------------------
\* What overwriting an unacknowledged audit row does to the audit.
LEMMA AuditedType ==
    ASSUME TypeOK, NEW j \in Jobs, NEW n \in Attempt, NEW a \in Audit
    PROVE  /\ Audited(j, n, a) \in [Jobs -> [Attempt -> Audit]]
           /\ \A i \in Jobs, m \in Attempt :
                 Audited(j, n, a)[i][m] =
                     IF i = j /\ m = n /\ audit[j][n] \in Unacknowledged
                     THEN a ELSE audit[i][m]
  BY DEF TypeOK, Audited

\* The initial state satisfies the inductive invariant.
LEMMA InitIInv == Init => IInv
<1> SUFFICES ASSUME Init PROVE IInv
  OBVIOUS
<1> USE MaxAttemptsType, BatchType DEF Init
<1>1. TypeOK
  BY DEF TypeOK, Status, Step, Audit, Open, Settled, Attempt
<1>2. RowInv /\ WireInv /\ SupersededAttemptAudited /\ PrintedByCurrentAttempt
  BY DEF RowInv, WireInv, SupersededAttemptAudited, PrintedByCurrentAttempt,
         Attempt
<1>3. ClaimInv /\ AttemptHasOneDispatcher
  BY DEF ClaimInv, AttemptHasOneDispatcher
<1> QED BY <1>1, <1>2, <1>3 DEF IInv

-----------------------------------------------------------------------------
\* The steps that create a row, and those of time and of the license.

LEMMA EnqueueIInv ==
    ASSUME IInv, NEW j \in Jobs, Enqueue(j)
    PROVE  IInv'
<1> USE DEF IInv, Enqueue, ticks
<1>1. TypeOK'
  BY DEF TypeOK, Status, Open, Settled
<1>2. RowInv'
  BY DEF RowInv, TypeOK
<1>3. WireInv' /\ AttemptHasOneDispatcher' /\ SupersededAttemptAudited'
  BY DEF WireInv, AttemptHasOneDispatcher, SupersededAttemptAudited
<1>4. ClaimInv'
  BY DEF ClaimInv, TypeOK, Claim
<1>5. PrintedByCurrentAttempt'
  BY DEF PrintedByCurrentAttempt, TypeOK
<1> QED BY <1>1, <1>2, <1>3, <1>4, <1>5

LEMMA DeadlinePassesIInv ==
    ASSUME IInv, NEW j \in Jobs, DeadlinePasses(j)
    PROVE  IInv'
<1> USE DEF IInv, DeadlinePasses, ticks
<1>1. TypeOK'
  BY DEF TypeOK
<1>2. RowInv' /\ WireInv' /\ ClaimInv'
  BY DEF RowInv, WireInv, ClaimInv
<1>3. /\ AttemptHasOneDispatcher'
      /\ SupersededAttemptAudited'
      /\ PrintedByCurrentAttempt'
  BY DEF AttemptHasOneDispatcher, SupersededAttemptAudited,
         PrintedByCurrentAttempt
<1> QED BY <1>1, <1>2, <1>3

LEMMA LicenseChangesIInv == ASSUME IInv, LicenseChanges PROVE IInv'
<1> USE DEF IInv, LicenseChanges, rows, ticks
<1>1. TypeOK'
  BY DEF TypeOK
<1>2. RowInv' /\ WireInv' /\ ClaimInv'
  BY DEF RowInv, WireInv, ClaimInv
<1>3. /\ AttemptHasOneDispatcher'
      /\ SupersededAttemptAudited'
      /\ PrintedByCurrentAttempt'
  BY DEF AttemptHasOneDispatcher, SupersededAttemptAudited,
         PrintedByCurrentAttempt
<1> QED BY <1>1, <1>2, <1>3

-----------------------------------------------------------------------------
\* The steps of a tick.

LEMMA TickStartIInv ==
    ASSUME IInv, NEW w \in Workers, TickStart(w)
    PROVE  IInv'
<1> USE DEF IInv, TickStart, rows
<1>1. TypeOK'
  BY DEF TypeOK, Step
<1>2. RowInv' /\ WireInv'
  BY DEF RowInv, WireInv
<1>3. ClaimInv'
  BY DEF ClaimInv, TypeOK
<1>4. AttemptHasOneDispatcher'
  BY DEF AttemptHasOneDispatcher, TypeOK
<1>5. SupersededAttemptAudited' /\ PrintedByCurrentAttempt'
  BY DEF SupersededAttemptAudited, PrintedByCurrentAttempt
<1> QED BY <1>1, <1>2, <1>3, <1>4, <1>5

LEMMA MarkExhaustedDeadIInv ==
    ASSUME IInv, NEW w \in Workers, MarkExhaustedDead(w)
    PROVE  IInv'
<1> USE DEF IInv, MarkExhaustedDead
<1>1. TypeOK'
  BY BatchType DEF TypeOK, Step, Status, Settled, Exhausted
<1>2. RowInv' /\ WireInv'
  BY DEF RowInv, WireInv, TypeOK
<1>3. ClaimInv'
  BY DEF ClaimInv, TypeOK, Claim, Exhausted, Open
<1>4. AttemptHasOneDispatcher'
  BY DEF AttemptHasOneDispatcher, TypeOK
<1>5. SupersededAttemptAudited'
  BY DEF SupersededAttemptAudited
<1>6. PrintedByCurrentAttempt'
  BY DEF PrintedByCurrentAttempt, TypeOK
<1> QED BY <1>1, <1>2, <1>3, <1>4, <1>5, <1>6

LEMMA NothingToClaimIInv ==
    ASSUME IInv, NEW w \in Workers, NothingToClaim(w)
    PROVE  IInv'
<1> USE DEF IInv, NothingToClaim, rows
<1>1. TypeOK'
  BY BatchType DEF TypeOK, Step
<1>2. RowInv' /\ WireInv'
  BY DEF RowInv, WireInv
<1>3. ClaimInv'
  BY DEF ClaimInv, TypeOK
<1>4. AttemptHasOneDispatcher'
  BY DEF AttemptHasOneDispatcher, TypeOK
<1>5. SupersededAttemptAudited' /\ PrintedByCurrentAttempt'
  BY DEF SupersededAttemptAudited, PrintedByCurrentAttempt
<1> QED BY <1>1, <1>2, <1>3, <1>4, <1>5

LEMMA TickFailsIInv ==
    ASSUME IInv, NEW w \in Workers, TickFails(w)
    PROVE  IInv'
<1> USE DEF IInv, TickFails, rows
<1>1. TypeOK'
  BY BatchType DEF TypeOK, Step
<1>2. RowInv' /\ WireInv'
  BY DEF RowInv, WireInv
<1>3. ClaimInv'
  BY DEF ClaimInv, TypeOK
<1>4. AttemptHasOneDispatcher'
  BY DEF AttemptHasOneDispatcher, TypeOK
<1>5. SupersededAttemptAudited' /\ PrintedByCurrentAttempt'
  BY DEF SupersededAttemptAudited, PrintedByCurrentAttempt
<1> QED BY <1>1, <1>2, <1>3, <1>4, <1>5

\* A claim takes the attempt after the last one, so nobody holds it and it has
\* not been emitted; the attempt it supersedes is flagged if it was leased.
LEMMA ClaimNextIInv ==
    ASSUME IInv, NEW w \in Workers, ClaimNext(w)
    PROVE  IInv'
<1> DEFINE n(j) == attempts[j] + 1
           flagged(j) == IF status[j] = "LEASED" /\ n(j) > 1
                         THEN Audited(j, n(j) - 1, "ambiguous")
                         ELSE audit
<1>1. PICK j \in Jobs :
         /\ Candidate(j)
         /\ status' = [status EXCEPT ![j] = "LEASED"]
         /\ attempts' = [attempts EXCEPT ![j] = n(j)]
         /\ due' = [due EXCEPT ![j] = FALSE]
         /\ audit' = [flagged(j) EXCEPT ![j][n(j)] = "open"]
         /\ claim' = [claim EXCEPT ![w] = [job |-> j, attempt |-> n(j)]]
  BY DEF ClaimNext, Take
<1>2. /\ step[w] = "claim"
      /\ step' = [step EXCEPT ![w] = "dispatch"]
      /\ left[w] > 0 /\ left' = [left EXCEPT ![w] = @ - 1]
      /\ UNCHANGED <<emitted, acking, licensed>>
  BY DEF ClaimNext, Take
<1>3. n(j) \in Attempt /\ attempts[j] \in Nat /\ status[j] \in Open
  BY <1>1, MaxAttemptsType DEF IInv, TypeOK, Candidate, Attempt
<1>4. /\ flagged(j) \in [Jobs -> [Attempt -> Audit]]
      /\ \A i \in Jobs, m \in Attempt :
            flagged(j)[i][m] # audit[i][m] =>
               /\ i = j /\ m = attempts[j]
               /\ status[j] = "LEASED"
               /\ flagged(j)[i][m] = "ambiguous"
      /\ status[j] = "LEASED" => flagged(j)[j][attempts[j]] = "ambiguous"
  <2>1. CASE status[j] = "LEASED" /\ n(j) > 1
    <3>1. attempts[j] \in Attempt
      BY <1>3, <2>1, MaxAttemptsType DEF Attempt
    <3>2. flagged(j) = Audited(j, attempts[j], "ambiguous")
      BY <1>3, <2>1
    <3>3. audit[j][attempts[j]] \in Unacknowledged
      BY <2>1 DEF IInv, RowInv
    <3>4. "ambiguous" \in Audit
      BY DEF Audit, Unacknowledged
    <3> HIDE DEF flagged, n
    <3> QED BY <2>1, <3>1, <3>2, <3>3, <3>4, AuditedType DEF IInv
  <2>2. CASE ~(status[j] = "LEASED" /\ n(j) > 1)
    <3>1. flagged(j) = audit
      BY <2>2
    <3>2. status[j] # "LEASED"
      BY <2>2, <1>3 DEF IInv, RowInv
    <3> HIDE DEF flagged, n
    <3> QED BY <3>1, <3>2 DEF IInv, TypeOK
  <2> QED BY <2>1, <2>2
<1> HIDE DEF flagged
<1>5. \A i \in Jobs, m \in Attempt :
         audit'[i][m] = IF i = j /\ m = n(j) THEN "open" ELSE flagged(j)[i][m]
  BY <1>1, <1>3, <1>4
<1>6. TypeOK'
  <2>1. audit' \in [Jobs -> [Attempt -> Audit]]
    BY <1>1, <1>3, <1>4 DEF Audit, Unacknowledged
  <2>2. attempts' \in [Jobs -> 0..MaxAttempts]
    BY <1>1, <1>3 DEF IInv, TypeOK, Attempt
  <2>3. claim' \in [Workers -> Claim \cup {None}]
    BY <1>1, <1>3 DEF IInv, TypeOK, Claim
  <2>4. left' \in [Workers -> 0..Batch]
    BY <1>2, BatchType DEF IInv, TypeOK
  <2> QED BY <1>1, <1>2, <2>1, <2>2, <2>3, <2>4
          DEF IInv, TypeOK, Status, Open, Step
<1>7. RowInv'
  <2> SUFFICES ASSUME NEW i \in Jobs
               PROVE  /\ status'[i] \in {"ABSENT", "PENDING"} => attempts'[i] = 0
                      /\ status'[i] = "LEASED" =>
                            /\ attempts'[i] > 0
                            /\ audit'[i][attempts'[i]] \in Unacknowledged
                      /\ status'[i] = "RETRY" =>
                            /\ attempts'[i] > 0
                            /\ audit'[i][attempts'[i]] # "open"
    BY DEF RowInv
  <2>1. CASE i = j
    BY <2>1, <1>1, <1>3, <1>5 DEF IInv, TypeOK, Unacknowledged
  <2>2. CASE i # j
    <3>1. attempts'[i] = attempts[i] /\ status'[i] = status[i]
      BY <2>2, <1>1 DEF IInv, TypeOK
    <3>2. attempts[i] > 0 => attempts[i] \in Attempt
      BY DEF IInv, TypeOK, Attempt
    <3>3. \A m \in Attempt : audit'[i][m] = audit[i][m]
      BY <2>2, <1>4, <1>5
    <3> QED BY <3>1, <3>2, <3>3 DEF IInv, RowInv
  <2> QED BY <2>1, <2>2
<1>8. WireInv'
  BY <1>1, <1>2, <1>3 DEF IInv, WireInv, TypeOK, Attempt
<1>9. ClaimInv'
  <2>1. claim'[w] # None /\ step'[w] = "dispatch"
    BY <1>1, <1>2, <1>3, NoneIsNoClaim DEF IInv, TypeOK, Claim
  <2>2. \A v \in Workers \ {w} : claim'[v] = claim[v] /\ step'[v] = step[v]
    BY <1>1, <1>2 DEF IInv, TypeOK
  <2>3. \A v \in Workers \ {w} :
           step[v] = "audit" => status'[claim[v].job] = status[claim[v].job]
    BY <1>1, <1>3 DEF IInv, ClaimInv, TypeOK, Claim, Open
  <2> QED BY <2>1, <2>2, <2>3 DEF IInv, ClaimInv
<1>10. AttemptHasOneDispatcher'
  <2>1. claim'[w] = [job |-> j, attempt |-> n(j)]
    BY <1>1 DEF IInv, TypeOK
  <2>2. \A v \in Workers \ {w} : claim'[v] = claim[v] /\ step'[v] = step[v]
    BY <1>1, <1>2 DEF IInv, TypeOK
  <2>3. \A v \in Workers : claim[v] # None =>
           /\ claim[v].job \in Jobs
           /\ claim[v].attempt \in Nat
           /\ claim[v].attempt <= attempts[claim[v].job]
    BY DEF IInv, AttemptHasOneDispatcher, TypeOK, Claim, Attempt
  <2>4. \A i \in Jobs : attempts[i] \in Nat /\ attempts'[i] \in Nat
                        /\ attempts[i] <= attempts'[i]
    BY <1>1, <1>3 DEF IInv, TypeOK
  <2>5. n(j) \notin emitted[j] /\ attempts'[j] = n(j)
    BY <1>1, <1>3 DEF IInv, WireInv, TypeOK
  <2>6. \A v \in Workers \ {w} : claim[v] # [job |-> j, attempt |-> n(j)]
    BY <2>3, <1>3, NoneIsNoClaim DEF Claim
  <2> QED BY <1>2, <1>3, <2>1, <2>2, <2>3, <2>4, <2>5, <2>6
          DEF IInv, AttemptHasOneDispatcher
<1>11. SupersededAttemptAudited'
  <2> SUFFICES ASSUME NEW i \in Jobs, NEW m \in Attempt, m < attempts'[i]
               PROVE  audit'[i][m] # "open"
    BY DEF SupersededAttemptAudited
  <2>1. m < attempts[i] => audit[i][m] # "open"
    BY DEF IInv, SupersededAttemptAudited
  <2>2. CASE i # j
    BY <2>1, <2>2, <1>1, <1>4, <1>5 DEF IInv, TypeOK
  <2>3. CASE i = j /\ m < attempts[j]
    BY <2>1, <2>3, <1>3, <1>4, <1>5
  <2>4. CASE i = j /\ m = attempts[j]
    <3>1. status[j] \in {"LEASED", "RETRY"}
      BY <2>4, <1>3 DEF IInv, RowInv, Open, Attempt
    <3> QED BY <3>1, <2>4, <1>3, <1>4, <1>5 DEF IInv, RowInv
  <2> QED BY <2>2, <2>3, <2>4, <1>1, <1>3 DEF IInv, TypeOK, Attempt
<1>12. PrintedByCurrentAttempt'
  <2> SUFFICES ASSUME NEW i \in Jobs, status'[i] = "PRINTED"
               PROVE  /\ attempts'[i] \in emitted'[i]
                      /\ audit'[i][attempts'[i]] = "success"
    BY DEF PrintedByCurrentAttempt
  <2>1. i # j /\ status[i] = "PRINTED" /\ attempts'[i] = attempts[i]
    BY <1>1 DEF IInv, TypeOK
  <2>2. attempts[i] \in Attempt
    BY <2>1 DEF IInv, TypeOK, PrintedByCurrentAttempt
  <2> QED BY <2>1, <2>2, <1>2, <1>4, <1>5 DEF IInv, PrintedByCurrentAttempt
<1> QED BY <1>6, <1>7, <1>8, <1>9, <1>10, <1>11, <1>12 DEF IInv

\* The emitted attempt is in one pair of hands, so no other dispatcher is
\* about to dispatch it.
LEMMA EmitIInv ==
    ASSUME IInv, NEW w \in Workers, Emit(w)
    PROVE  IInv'
<1>1. claim[w] # None /\ claim[w] \in Claim
  BY DEF Emit, IInv, ClaimInv, TypeOK
<1>2. claim[w].job \in Jobs /\ claim[w].attempt \in Attempt
  BY <1>1 DEF Claim
<1>3. \A j \in Jobs :
         emitted'[j] = IF j = claim[w].job
                       THEN emitted[j] \cup {claim[w].attempt} ELSE emitted[j]
  BY DEF Emit, IInv, TypeOK
<1>4. TypeOK'
  BY <1>2 DEF Emit, rows, IInv, TypeOK, Step
<1>5. RowInv' /\ SupersededAttemptAudited'
  BY DEF Emit, rows, IInv, RowInv, SupersededAttemptAudited
<1>6. WireInv'
  <2>1. claim[w].attempt <= attempts[claim[w].job]
    BY <1>1 DEF IInv, AttemptHasOneDispatcher
  <2>2. \A a \in acking : a.job \in Jobs
    BY DEF IInv, TypeOK, Ack
  <2> QED BY <2>1, <2>2, <1>3 DEF Emit, rows, IInv, WireInv
<1>7. ClaimInv'
  BY DEF Emit, rows, IInv, ClaimInv, TypeOK
<1>8. AttemptHasOneDispatcher'
  <2> SUFFICES ASSUME NEW v \in Workers, claim'[v] # None
               PROVE  /\ claim'[v].attempt <= attempts'[claim'[v].job]
                      /\ step'[v] = "dispatch" =>
                            claim'[v].attempt \notin emitted'[claim'[v].job]
                      /\ \A u \in Workers \ {v} : claim'[u] # claim'[v]
    BY DEF AttemptHasOneDispatcher
  <2>1. v # w /\ claim'[v] = claim[v] /\ step'[v] = step[v]
    BY DEF Emit, IInv, TypeOK
  <2>2. claim[v] \in Claim /\ claim[v] # claim[w]
    BY <2>1 DEF IInv, TypeOK, AttemptHasOneDispatcher
  <2>3. claim[v].job = claim[w].job => claim[v].attempt # claim[w].attempt
    BY <2>2, <1>1 DEF Claim
  <2>4. claim[v].job \in Jobs
    BY <2>2 DEF Claim
  <2>5. \A u \in Workers \ {v} : claim'[u] # claim[v]
    BY <2>1 DEF Emit, IInv, TypeOK, AttemptHasOneDispatcher
  <2> QED BY <2>1, <2>3, <2>4, <2>5, <1>3
          DEF Emit, rows, IInv, AttemptHasOneDispatcher
<1>9. PrintedByCurrentAttempt'
  BY <1>3 DEF Emit, rows, IInv, PrintedByCurrentAttempt
<1> QED BY <1>4, <1>5, <1>6, <1>7, <1>8, <1>9 DEF IInv

\* The dead letter goes by the id of the row, whatever its state.
LEMMA DeadLetterIInv ==
    ASSUME IInv, NEW w \in Workers, DeadLetter(w)
    PROVE  IInv'
<1>1. claim[w] # None /\ claim[w].job \in Jobs
  BY DEF DeadLetter, IInv, ClaimInv, TypeOK, Claim
<1>2. TypeOK'
  BY <1>1 DEF DeadLetter, IInv, TypeOK, Status, Settled, Step
<1>3. RowInv' /\ WireInv' /\ SupersededAttemptAudited'
  BY DEF DeadLetter, IInv, RowInv, WireInv, SupersededAttemptAudited, TypeOK
<1>4. ClaimInv'
  <2>1. \A v \in Workers : claim[v] # None => claim[v].job \in Jobs
    BY DEF IInv, TypeOK, Claim
  <2> QED BY <2>1, <1>1 DEF DeadLetter, IInv, ClaimInv, TypeOK
<1>5. AttemptHasOneDispatcher' /\ PrintedByCurrentAttempt'
  BY DEF DeadLetter, IInv, AttemptHasOneDispatcher, PrintedByCurrentAttempt,
         TypeOK
<1> QED BY <1>2, <1>3, <1>4, <1>5 DEF IInv

LEMMA DeadLetterAuditIInv ==
    ASSUME IInv, NEW w \in Workers, DeadLetterAudit(w)
    PROVE  IInv'
<1>1. /\ claim[w] # None
      /\ claim[w].job \in Jobs
      /\ claim[w].attempt \in Attempt
      /\ status[claim[w].job] \in {"DEAD", "DELETED"}
  BY DEF DeadLetterAudit, IInv, ClaimInv, TypeOK, Claim
<1>2. /\ audit' \in [Jobs -> [Attempt -> Audit]]
      /\ \A i \in Jobs, m \in Attempt :
            audit'[i][m] # audit[i][m] =>
               i = claim[w].job /\ audit'[i][m] = "failure"
  BY <1>1, AuditedType DEF DeadLetterAudit, IInv, Audit
<1>3. TypeOK'
  BY <1>2 DEF DeadLetterAudit, IInv, TypeOK, Step
<1>4. \A j \in Jobs : attempts[j] > 0 => attempts[j] \in Attempt
  BY DEF IInv, TypeOK, Attempt
<1>5. RowInv'
  BY <1>1, <1>2, <1>4 DEF DeadLetterAudit, IInv, RowInv
<1>6. WireInv' /\ ClaimInv' /\ AttemptHasOneDispatcher'
  BY DEF DeadLetterAudit, IInv, WireInv, ClaimInv, AttemptHasOneDispatcher,
         TypeOK
<1>7. SupersededAttemptAudited'
  BY <1>2 DEF DeadLetterAudit, IInv, SupersededAttemptAudited
<1>8. PrintedByCurrentAttempt'
  <2>1. \A j \in Jobs : emitted[j] \subseteq Attempt
    BY DEF IInv, TypeOK
  <2> QED BY <2>1, <1>1, <1>2 DEF DeadLetterAudit, IInv, PrintedByCurrentAttempt
<1> QED BY <1>3, <1>5, <1>6, <1>7, <1>8 DEF IInv

LEMMA PurgeIInv ==
    ASSUME IInv, NEW w \in Workers, Purge(w)
    PROVE  IInv'
<1>1. /\ audit' \in [Jobs -> [Attempt -> Audit]]
      /\ \A i \in Jobs :
            \/ /\ status[i] \in Settled
               /\ status'[i] = "DELETED"
               /\ \A m \in Attempt : audit'[i][m] = "none"
            \/ status'[i] = status[i] /\ audit'[i] = audit[i]
  BY DEF Purge, IInv, TypeOK, Audit
<1>2. TypeOK'
  BY <1>1 DEF Purge, IInv, TypeOK, Status, Step
<1>3. RowInv' /\ WireInv'
  BY <1>1 DEF Purge, IInv, RowInv, WireInv, Settled
<1>4. ClaimInv'
  <2>1. \A v \in Workers : claim[v] # None => claim[v].job \in Jobs
    BY DEF IInv, TypeOK, Claim
  <2> QED BY <2>1, <1>1 DEF Purge, IInv, ClaimInv, TypeOK
<1>5. AttemptHasOneDispatcher'
  BY DEF Purge, IInv, AttemptHasOneDispatcher, TypeOK
<1>6. SupersededAttemptAudited' /\ PrintedByCurrentAttempt'
  BY <1>1 DEF Purge, IInv, SupersededAttemptAudited, PrintedByCurrentAttempt,
              Settled
<1> QED BY <1>2, <1>3, <1>4, <1>5, <1>6 DEF IInv

-----------------------------------------------------------------------------
\* The acknowledgements.

\* An answer that is only kept in the audit does not concern the attempt
\* which holds the lease.
LEMMA StaleIInv ==
    ASSUME IInv, NEW j \in Jobs, NEW n \in Attempt, ~Current(j, n),
           audit' = Audited(j, n, "stale"), acking' \subseteq acking,
           UNCHANGED <<status, attempts, due, emitted, ticks, licensed>>
    PROVE  IInv'
<1>1. /\ audit' \in [Jobs -> [Attempt -> Audit]]
      /\ \A i \in Jobs, m \in Attempt :
            audit'[i][m] # audit[i][m] =>
               /\ i = j /\ m = n
               /\ audit[i][m] \in Unacknowledged /\ audit'[i][m] = "stale"
  BY AuditedType DEF IInv, Audit
<1>2. TypeOK'
  BY <1>1 DEF IInv, TypeOK, ticks
<1>3. \A i \in Jobs : attempts[i] > 0 => attempts[i] \in Attempt
  BY DEF IInv, TypeOK, Attempt
<1>4. RowInv'
  BY <1>1, <1>3 DEF IInv, RowInv, Current
<1>5. WireInv' /\ ClaimInv' /\ AttemptHasOneDispatcher'
  BY DEF IInv, WireInv, ClaimInv, AttemptHasOneDispatcher, ticks
<1>6. SupersededAttemptAudited'
  BY <1>1 DEF IInv, SupersededAttemptAudited
<1>7. PrintedByCurrentAttempt'
  <2>1. \A i \in Jobs : emitted[i] \subseteq Attempt
    BY DEF IInv, TypeOK
  <2> QED BY <2>1, <1>1 DEF IInv, PrintedByCurrentAttempt, Unacknowledged
<1> QED BY <1>2, <1>4, <1>5, <1>6, <1>7 DEF IInv

LEMMA AckStaleIInv ==
    ASSUME IInv, NEW j \in Jobs, NEW n \in Attempt, AckStale(j, n)
    PROVE  IInv'
  BY StaleIInv DEF AckStale

LEMMA LeaseRaceLostIInv ==
    ASSUME IInv, NEW a \in acking, LeaseRaceLost(a)
    PROVE  IInv'
<1>1. a.job \in Jobs /\ a.attempt \in Attempt
  BY DEF IInv, TypeOK, Ack
<1> QED BY <1>1, StaleIInv DEF LeaseRaceLost

LEMMA AckReadIInv ==
    ASSUME IInv, NEW j \in Jobs, NEW n \in Attempt, NEW ok \in BOOLEAN,
           AckRead(j, n, ok)
    PROVE  IInv'
<1>1. TypeOK'
  BY DEF AckRead, IInv, TypeOK, Ack, rows, ticks
<1>2. WireInv'
  BY DEF AckRead, IInv, WireInv, rows
<1>3. RowInv' /\ ClaimInv' /\ AttemptHasOneDispatcher'
  BY DEF AckRead, IInv, RowInv, ClaimInv, AttemptHasOneDispatcher, rows, ticks
<1>4. SupersededAttemptAudited' /\ PrintedByCurrentAttempt'
  BY DEF AckRead, IInv, SupersededAttemptAudited, PrintedByCurrentAttempt, rows
<1> QED BY <1>1, <1>2, <1>3, <1>4 DEF IInv

LEMMA AckAbortsIInv == ASSUME IInv, NEW a \in acking, AckAborts(a) PROVE IInv'
<1>1. TypeOK'
  BY DEF AckAborts, IInv, TypeOK, rows, ticks
<1>2. WireInv'
  BY DEF AckAborts, IInv, WireInv, rows
<1>3. RowInv' /\ ClaimInv' /\ AttemptHasOneDispatcher'
  BY DEF AckAborts, IInv, RowInv, ClaimInv, AttemptHasOneDispatcher, rows, ticks
<1>4. SupersededAttemptAudited' /\ PrintedByCurrentAttempt'
  BY DEF AckAborts, IInv, SupersededAttemptAudited, PrintedByCurrentAttempt, rows
<1> QED BY <1>1, <1>2, <1>3, <1>4 DEF IInv

\* The conditional write finds the lease it read, so the audit row of the
\* attempt is still unacknowledged and takes the result.
LEMMA SettleIInv == ASSUME IInv, NEW a \in acking, Settle(a) PROVE IInv'
<1>1. PICK j \in Jobs, n \in Attempt, r \in Audit, s \in Status :
         /\ status[j] = "LEASED" /\ attempts[j] = n
         /\ n \in emitted[j]
         /\ status' = [status EXCEPT ![j] = s]
         /\ audit' = Audited(j, n, r)
         /\ r \notin Unacknowledged
         /\ s \in {"PRINTED", "DEAD", "RETRY"}
         /\ s = "PRINTED" => r = "success"
  <2> DEFINE r == IF a.success THEN "success" ELSE "failure"
             s == IF a.success THEN "PRINTED"
                  ELSE IF attempts[a.job] >= MaxAttempts THEN "DEAD"
                  ELSE "RETRY"
  <2>1. /\ a.job \in Jobs /\ a.attempt \in Attempt
        /\ status[a.job] = "LEASED" /\ attempts[a.job] = a.attempt
        /\ a.attempt \in emitted[a.job]
    BY DEF Settle, Current, IInv, TypeOK, Ack, WireInv
  <2>2. r \in Audit \ Unacknowledged /\ (s = "PRINTED" => r = "success")
    BY DEF Audit, Unacknowledged
  <2>3. s \in {"PRINTED", "DEAD", "RETRY"} /\ s \in Status
    BY DEF Status, Open, Settled
  <2> QED BY <2>1, <2>2, <2>3 DEF Settle
<1>2. /\ due' = [due EXCEPT ![a.job] = FALSE]
      /\ acking' = acking \ {a}
      /\ UNCHANGED <<attempts, emitted, step, claim, left, licensed>>
  BY DEF Settle, ticks
<1>3. audit[j][n] \in Unacknowledged
  BY <1>1 DEF IInv, RowInv
<1>4. r # "open"
  BY <1>1 DEF Unacknowledged
<1>5. /\ audit' \in [Jobs -> [Attempt -> Audit]]
      /\ \A i \in Jobs, m \in Attempt :
            audit'[i][m] = IF i = j /\ m = n THEN r ELSE audit[i][m]
  <2>1. /\ Audited(j, n, r) \in [Jobs -> [Attempt -> Audit]]
        /\ \A i \in Jobs, m \in Attempt :
              Audited(j, n, r)[i][m] =
                 IF i = j /\ m = n /\ audit[j][n] \in Unacknowledged
                 THEN r ELSE audit[i][m]
    <3>1. TypeOK
      BY DEF IInv
    <3> QED BY <3>1, AuditedType
  <2> QED BY <2>1, <1>1, <1>3
<1>6. \A i \in Jobs : status'[i] = IF i = j THEN s ELSE status[i]
  BY <1>1, <1>2 DEF IInv, TypeOK
<1>7. \A i \in Jobs : attempts[i] > 0 => attempts[i] \in Attempt
  BY DEF IInv, TypeOK, Attempt
<1>8. TypeOK'
  BY <1>1, <1>2, <1>5 DEF IInv, TypeOK
<1>9. RowInv'
  BY <1>1, <1>2, <1>4, <1>5, <1>6, <1>7
     DEF IInv, RowInv, Attempt, Unacknowledged
<1>10. WireInv' /\ AttemptHasOneDispatcher'
  BY <1>2 DEF IInv, WireInv, AttemptHasOneDispatcher
<1>11. ClaimInv'
  <2>1. \A v \in Workers : claim[v] # None => claim[v].job \in Jobs
    BY DEF IInv, TypeOK, Claim
  <2> QED BY <2>1, <1>1, <1>2, <1>6 DEF IInv, ClaimInv
<1>12. SupersededAttemptAudited'
  BY <1>2, <1>4, <1>5 DEF IInv, SupersededAttemptAudited, Unacknowledged
<1>13. PrintedByCurrentAttempt'
  <2>1. \A i \in Jobs : emitted[i] \subseteq Attempt
    BY DEF IInv, TypeOK
  <2> QED BY <2>1, <1>1, <1>2, <1>4, <1>5, <1>6
          DEF IInv, PrintedByCurrentAttempt
<1> QED BY <1>8, <1>9, <1>10, <1>11, <1>12, <1>13 DEF IInv

-----------------------------------------------------------------------------
\* Every step of the outbox preserves the inductive invariant.
LEMMA NextIInv == IInv /\ [Next]_vars => IInv'
<1> SUFFICES ASSUME IInv, [Next]_vars PROVE IInv'
  OBVIOUS
<1>1. CASE \E j \in Jobs : Enqueue(j) \/ DeadlinePasses(j)
  BY <1>1, EnqueueIInv, DeadlinePassesIInv
<1>2. CASE \E w \in Workers : TickStart(w) \/ Dispatching(w) \/ TickFails(w)
  BY <1>2, TickStartIInv, MarkExhaustedDeadIInv, ClaimNextIInv,
     NothingToClaimIInv, EmitIInv, DeadLetterIInv, DeadLetterAuditIInv,
     PurgeIInv, TickFailsIInv DEF Dispatching
<1>3. CASE Acknowledging
  BY <1>3, AckStaleIInv, AckReadIInv, SettleIInv, LeaseRaceLostIInv,
     AckAbortsIInv DEF Acknowledging
<1>4. CASE LicenseChanges
  BY <1>4, LicenseChangesIInv
<1>5. CASE UNCHANGED vars
  <2> USE <1>5 DEF vars, rows, ticks
  <2>1. TypeOK'
    BY DEF IInv, TypeOK
  <2>2. RowInv' /\ WireInv' /\ ClaimInv'
    BY DEF IInv, RowInv, WireInv, ClaimInv
  <2>3. /\ AttemptHasOneDispatcher'
        /\ SupersededAttemptAudited'
        /\ PrintedByCurrentAttempt'
    BY DEF IInv, AttemptHasOneDispatcher, SupersededAttemptAudited,
           PrintedByCurrentAttempt
  <2> QED BY <2>1, <2>2, <2>3 DEF IInv
<1> QED BY <1>1, <1>2, <1>3, <1>4, <1>5 DEF Next

\* The invariant holds in every reachable state.
LEMMA Invariance == Spec => []IInv
  BY InitIInv, NextIInv, PTL DEF Spec

\* Rows, audit, claims and acknowledgements stay within their types; no
\* attempt number outgrows maxAttempts, whatever order rows are claimed in.
THEOREM TypeCorrect == Spec => []TypeOK
<1>1. IInv => TypeOK
  BY DEF IInv
<1> QED BY <1>1, Invariance, PTL

\* Any number of dispatchers share the rows without emitting one attempt twice.
THEOREM OneDispatcher == Spec => []AttemptHasOneDispatcher
<1>1. IInv => AttemptHasOneDispatcher
  BY DEF IInv
<1> QED BY <1>1, Invariance, PTL

\* The audit loses no superseded attempt.
THEOREM NoSilentTakeover == Spec => []SupersededAttemptAudited
<1>1. IInv => SupersededAttemptAudited
  BY DEF IInv
<1> QED BY <1>1, Invariance, PTL

\* Only the attempt that holds the lease prints a job.
THEOREM PrintedUnderLease == Spec => []PrintedByCurrentAttempt
<1>1. IInv => PrintedByCurrentAttempt
  BY DEF IInv
<1> QED BY <1>1, Invariance, PTL

-----------------------------------------------------------------------------
\* Refinement of the lifecycle, when a single dispatcher runs: what it holds
\* is then always the latest attempt, so the dead letter meets no PRINTED row.

SoleDispatcher == \A v, w \in Workers : v = w

HeldIsLatest ==
    \A w \in Workers :
        claim[w] # None => claim[w].attempt = attempts[claim[w].job]

\* A sole dispatcher makes no claim while it holds one.
LEMMA HeldStep ==
    ASSUME SoleDispatcher, IInv, HeldIsLatest, [Next]_vars
    PROVE  HeldIsLatest'
<1>1. CASE \E w \in Workers : ClaimNext(w)
  <2>1. PICK w \in Workers, j \in Jobs :
           /\ attempts' = [attempts EXCEPT ![j] = attempts[j] + 1]
           /\ claim' = [claim EXCEPT
                           ![w] = [job |-> j, attempt |-> attempts[j] + 1]]
    BY <1>1 DEF ClaimNext, Take
  <2>2. Workers = {w}
    BY DEF SoleDispatcher
  <2> QED BY <2>1, <2>2 DEF HeldIsLatest, IInv, TypeOK
<1>2. CASE \E w \in Workers : \/ NothingToClaim(w) \/ TickStart(w)
                               \/ MarkExhaustedDead(w) \/ DeadLetter(w)
                               \/ Purge(w)
  BY <1>2 DEF NothingToClaim, TickStart, MarkExhaustedDead, DeadLetter, Purge,
              rows, HeldIsLatest
<1>3. CASE \E w \in Workers : Emit(w) \/ DeadLetterAudit(w) \/ TickFails(w)
  BY <1>3 DEF Emit, DeadLetterAudit, TickFails, rows, HeldIsLatest, IInv, TypeOK
<1>4. CASE Acknowledging
  BY <1>4 DEF Acknowledging, AckStale, AckRead, Settle, LeaseRaceLost,
              AckAborts, rows, ticks, HeldIsLatest
<1>5. CASE \/ \E j \in Jobs : Enqueue(j) \/ DeadlinePasses(j)
           \/ LicenseChanges
           \/ UNCHANGED vars
  BY <1>5 DEF Enqueue, DeadlinePasses, LicenseChanges, vars, rows, ticks,
              HeldIsLatest
<1> QED BY <1>1, <1>2, <1>3, <1>4, <1>5 DEF Next, Dispatching

\* No row exists, so no job has been opened.
LEMMA InitLifecycle == Init => Lifecycle!LifecycleInit
  BY DEF Init, Lifecycle!LifecycleInit, Phase, Open

\* A step that leaves every status alone is invisible.
LEMMA SameStatus ==
    ASSUME status' = status
    PROVE  UNCHANGED [j \in Jobs |-> Phase(j)]
  BY DEF Phase

\* The phase of a typed row, by its status.
LEMMA PhaseOf ==
    ASSUME TypeOK, NEW j \in Jobs
    PROVE  /\ status[j] = "ABSENT" => Phase(j) = "absent"
           /\ status[j] \in Open => Phase(j) = "open"
           /\ status[j] = "PRINTED" => Phase(j) = "printed"
           /\ status[j] = "DEAD" => Phase(j) = "dead"
           /\ status[j] = "DELETED" => Phase(j) = "gone"
  BY DEF Phase, Open

\* Every step of the outbox is a step of the lifecycle, or invisible in it.
LEMMA StepLifecycle ==
    ASSUME IInv, IInv', HeldIsLatest, [Next]_vars
    PROVE  [Lifecycle!LifecycleNext]_([j \in Jobs |-> Phase(j)])
<1> DEFINE phase == [j \in Jobs |-> Phase(j)]
<1>1. CASE \E j \in Jobs : Enqueue(j)
  <2>1. PICK j \in Jobs, s \in {"PENDING", "DEAD"} :
           status[j] = "ABSENT" /\ status' = [status EXCEPT ![j] = s]
    BY <1>1 DEF Enqueue
  <2>2. phase[j] = "absent"
    BY <2>1, PhaseOf DEF IInv
  <2>3. phase' = [phase EXCEPT ![j] = IF s = "PENDING" THEN "open" ELSE "dead"]
    BY <2>1 DEF Phase, Open, Settled, Status, IInv, TypeOK
  <2>4. Lifecycle!Open(j)
    BY <2>2, <2>3 DEF Lifecycle!Open
  <2> QED BY <2>4 DEF Lifecycle!LifecycleNext
<1>2. CASE \E w \in Workers : MarkExhaustedDead(w)
  <2> DEFINE S == {j \in Jobs : Exhausted(j)}
  <2>1. \A j \in S : phase[j] = "open"
    BY PhaseOf DEF IInv, Exhausted
  <2>2. phase' = [j \in Jobs |-> IF j \in S THEN "dead" ELSE phase[j]]
    BY <1>2 DEF MarkExhaustedDead, Phase, Exhausted,
              Open, Settled, Status, IInv, TypeOK
  <2>3. Lifecycle!Bury(S)
    BY <2>1, <2>2 DEF Lifecycle!Bury
  <2> QED BY <2>3 DEF Lifecycle!LifecycleNext
<1>3. CASE \E w \in Workers : ClaimNext(w)
  <2>1. PICK j \in Jobs :
           status[j] \in Open /\ status' = [status EXCEPT ![j] = "LEASED"]
    BY <1>3 DEF ClaimNext, Take, Candidate
  <2>2. phase' = phase
    BY <2>1 DEF Phase, Open, Settled, Status, IInv, TypeOK
  <2> QED BY <2>2
<1>4. CASE \E w \in Workers : DeadLetter(w)
  <2>1. PICK w \in Workers : DeadLetter(w)
    BY <1>4
  <2> DEFINE j == claim[w].job
  <2>2. /\ j \in Jobs /\ claim[w] # None
        /\ step[w] = "dispatch" /\ status[j] # "DELETED"
        /\ status' = [status EXCEPT ![j] = "DEAD"]
    BY <2>1 DEF DeadLetter, IInv, ClaimInv, TypeOK, Claim
  <2>3. status[j] # "PRINTED"
    BY <2>2 DEF IInv, AttemptHasOneDispatcher, PrintedByCurrentAttempt,
                HeldIsLatest
  <2>4. status[j] # "ABSENT"
    <3>1. claim[w].attempt \in Nat \ {0} /\ attempts[j] = claim[w].attempt
      BY <2>2 DEF IInv, TypeOK, Claim, Attempt, HeldIsLatest
    <3> QED BY <3>1, <2>2 DEF IInv, RowInv
  <2>5. CASE status[j] \in Open
    <3>1. phase[j] = "open"
      BY <2>2, <2>5, PhaseOf DEF IInv
    <3>2. phase' = [i \in Jobs |-> IF i \in {j} THEN "dead" ELSE phase[i]]
      BY <2>2 DEF Phase, Open, Settled, Status, IInv, TypeOK
    <3>3. Lifecycle!Bury({j})
      BY <3>1, <3>2 DEF Lifecycle!Bury
    <3> QED BY <3>3, <2>2 DEF Lifecycle!LifecycleNext
  <2>6. CASE status[j] = "DEAD"
    <3>1. status' = status
      BY <2>2, <2>6 DEF IInv, TypeOK
    <3> QED BY <3>1, SameStatus
  <2> QED BY <2>2, <2>3, <2>4, <2>5, <2>6 DEF IInv, TypeOK, Status, Settled
<1>5. CASE \E w \in Workers : Purge(w)
  <2> DEFINE S == {j \in Jobs : status[j] \in Settled /\ due[j]}
  <2>1. \A j \in S : phase[j] \in {"printed", "dead"}
    BY PhaseOf DEF IInv, Settled
  <2>2. phase' = [j \in Jobs |-> IF j \in S THEN "gone" ELSE phase[j]]
    BY <1>5 DEF Purge, Phase, Open, Settled, Status, IInv, TypeOK
  <2>3. Lifecycle!Forget(S)
    BY <2>1, <2>2 DEF Lifecycle!Forget
  <2> QED BY <2>3 DEF Lifecycle!LifecycleNext
<1>6. CASE \E a \in acking : Settle(a)
  <2>1. PICK j \in Jobs, s \in {"PRINTED", "DEAD", "RETRY"} :
           status[j] = "LEASED" /\ status' = [status EXCEPT ![j] = s]
    BY <1>6 DEF Settle, Current, IInv, TypeOK, Ack
  <2>2. phase[j] = "open"
    BY <2>1, PhaseOf DEF IInv, Open
  <2>3. CASE s = "PRINTED"
    <3>1. phase' = [phase EXCEPT ![j] = "printed"]
      BY <2>1, <2>3 DEF Phase, Open, Settled, Status, IInv, TypeOK
    <3>2. Lifecycle!Finish(j)
      BY <2>2, <3>1 DEF Lifecycle!Finish
    <3> QED BY <3>2 DEF Lifecycle!LifecycleNext
  <2>4. CASE s = "DEAD"
    <3>1. phase' = [i \in Jobs |-> IF i \in {j} THEN "dead" ELSE phase[i]]
      BY <2>1, <2>4 DEF Phase, Open, Settled, Status, IInv, TypeOK
    <3>2. Lifecycle!Bury({j})
      BY <2>2, <3>1 DEF Lifecycle!Bury
    <3> QED BY <3>2 DEF Lifecycle!LifecycleNext
  <2>5. CASE s = "RETRY"
    <3>1. phase' = phase
      BY <2>1, <2>5 DEF Phase, Open, Settled, Status, IInv, TypeOK
    <3> QED BY <3>1
  <2> QED BY <2>3, <2>4, <2>5
<1>7. CASE \/ \E w \in Workers : \/ TickStart(w) \/ NothingToClaim(w)
                                 \/ Emit(w) \/ DeadLetterAudit(w)
                                 \/ TickFails(w)
           \/ \E j \in Jobs, n \in Attempt :
                 AckStale(j, n) \/ \E ok \in BOOLEAN : AckRead(j, n, ok)
           \/ \E a \in acking : LeaseRaceLost(a) \/ AckAborts(a)
           \/ \E j \in Jobs : DeadlinePasses(j)
           \/ LicenseChanges
           \/ UNCHANGED vars
  <2>1. status' = status
    BY <1>7 DEF TickStart, NothingToClaim, Emit, DeadLetterAudit, TickFails,
                AckStale, AckRead, LeaseRaceLost, AckAborts, DeadlinePasses,
                LicenseChanges, vars, rows
  <2> QED BY <2>1, SameStatus
<1> QED BY <1>1, <1>2, <1>3, <1>4, <1>5, <1>6, <1>7
        DEF Next, Dispatching, Acknowledging

\* The outbox run by one dispatcher implements the lifecycle: a job is opened
\* once, settled once and only then forgotten.
THEOREM ImplementsLifecycle ==
    ASSUME SoleDispatcher
    PROVE  Spec => OutboxLifecycle
<1>1. Init => HeldIsLatest
  BY DEF Init, HeldIsLatest
<1>2. IInv /\ HeldIsLatest /\ [Next]_vars => HeldIsLatest'
  BY HeldStep
<1>3. Spec => []HeldIsLatest
  BY <1>1, <1>2, Invariance, PTL DEF Spec
<1>4. IInv /\ IInv' /\ HeldIsLatest /\ [Next]_vars =>
        [Lifecycle!LifecycleNext]_([j \in Jobs |-> Phase(j)])
  BY StepLifecycle
<1> QED BY <1>3, <1>4, InitLifecycle, Invariance, PTL
        DEF Spec, OutboxLifecycle, Lifecycle!LifecycleSpec

-----------------------------------------------------------------------------
\* Each piece of evidence that a job was printed comes with paper.
PaperInv ==
    /\ \A a \in Agents : \A j \in ledger[a] : paper[a][j] > 0
    /\ \A a \in Agents : \A h \in handling[a] : h.inked => paper[a][h.job] > 0
    /\ \A k \in acking :
          k.success => \E a \in Agents : paper[a][k.job] > 0

\* Whatever carries the number of an attempt got it from the dispatcher.
EmittedInv ==
    /\ \A d \in wire : d.attempt \in emitted[d.job]
    /\ \A a \in Agents : \A h \in handling[a] : h.attempt \in emitted[h.job]
    /\ \A m \in replies : m.attempt \in emitted[m.job]

PIInv ==
    /\ IInv
    /\ PipelineTypeOK
    /\ EmittedInv
    /\ PaperInv
    /\ SuccessIsDurable
    /\ PrintedMeansPaper

-----------------------------------------------------------------------------
\* What reaches acknowledge() is about an attempt that was emitted, so the
\* outbox takes it for an acknowledgement it allows; nothing else the agents
\* do concerns it.

LEMMA InitPIInv == PipelineInit => PIInv
<1> SUFFICES ASSUME PipelineInit PROVE PIInv
  OBVIOUS
<1>1. IInv
  BY InitIInv DEF PipelineInit
<1>2. PipelineTypeOK
  BY <1>1 DEF PipelineInit, PipelineTypeOK, IInv, Link
<1>3. PaperInv /\ SuccessIsDurable /\ PrintedMeansPaper /\ EmittedInv
  BY DEF PipelineInit, Init, PaperInv, SuccessIsDurable, PrintedMeansPaper,
         EmittedInv
<1> QED BY <1>1, <1>2, <1>3 DEF PIInv

LEMMA ReplyImplementsOutbox ==
    ASSUME PipelineTypeOK, EmittedInv, NEW m \in replies, Acknowledge(m)
    PROVE  \/ AckRead(m.job, m.attempt, m.success)
           \/ AckStale(m.job, m.attempt)
           \/ UNCHANGED vars
<1>1. m.attempt \in emitted[m.job]
  BY DEF EmittedInv
<1>2. CASE Current(m.job, m.attempt)
  <2>1. AckRead(m.job, m.attempt, m.success)
    BY <1>1, <1>2 DEF Acknowledge, AckRead, Current
  <2> QED BY <2>1
<1>3. CASE /\ ~Current(m.job, m.attempt)
           /\ status[m.job] \in {"ABSENT", "DELETED", "PRINTED"}
  BY <1>3 DEF Acknowledge, vars, ticks
<1>4. CASE /\ ~Current(m.job, m.attempt)
           /\ status[m.job] \notin {"ABSENT", "DELETED", "PRINTED"}
  <2>1. CASE audit[m.job][m.attempt] \in Unacknowledged
    BY <1>1, <1>4, <2>1 DEF Acknowledge, AckStale
  <2>2. CASE audit[m.job][m.attempt] \notin Unacknowledged
    BY <1>4, <2>2 DEF Acknowledge, Audited, vars, rows, ticks
  <2> QED BY <2>1, <2>2
<1> QED BY <1>2, <1>3, <1>4

LEMMA StepImplementsOutbox ==
    ASSUME PipelineTypeOK, EmittedInv, [PipelineNext]_pipelineVars
    PROVE  [Next]_vars
<1>1. CASE \E w \in Workers : EmitToRoom(w) \/ DispatcherStep(w)
  BY <1>1 DEF EmitToRoom, DispatcherStep, Next, Dispatching
<1>2. CASE OutboxStep
  BY <1>2 DEF OutboxStep, Next, Acknowledging
<1>3. CASE LicenseLocks \/ LicenseUnlocks
  BY <1>3 DEF LicenseLocks, LicenseUnlocks, Next
<1>4. CASE \E m \in replies : HandleReply(m)
  <2>1. PICK m \in replies : HandleReply(m)
    BY <1>4
  <2>2. m.job \in Jobs /\ m.attempt \in Attempt /\ m.success \in BOOLEAN
    BY DEF PipelineTypeOK, Reply
  <2>3. \/ AckRead(m.job, m.attempt, m.success)
        \/ AckStale(m.job, m.attempt)
        \/ UNCHANGED vars
    BY <2>1, ReplyImplementsOutbox DEF HandleReply
  <2> QED BY <2>2, <2>3 DEF Next, Acknowledging
<1>5. CASE \/ \E m \in replies : LoseReply(m)
           \/ \E d \in wire : Receive(d) \/ LoseDelivery(d)
           \/ \E a \in Agents : AgentStep(a)
           \/ UNCHANGED pipelineVars
  BY <1>5 DEF LoseReply, Receive, LoseDelivery, AgentStep, Ink, Succeed, Fail,
              LedgerWriteFails, AgentDown, Crash, Restart, Connect,
              LoseConnection, pipelineVars
<1> QED BY <1>1, <1>2, <1>3, <1>4, <1>5 DEF PipelineNext

\* What was emitted stays emitted.
LEMMA EmittedGrows ==
    ASSUME TypeOK, [Next]_vars, NEW j \in Jobs
    PROVE  emitted[j] \subseteq emitted'[j]
<1>1. CASE \E w \in Workers : Emit(w)
  BY <1>1 DEF Emit, TypeOK
<1>2. CASE emitted' = emitted
  BY <1>2
<1>3. CASE \/ \E w \in Workers : \/ TickStart(w) \/ MarkExhaustedDead(w)
                                 \/ ClaimNext(w) \/ NothingToClaim(w)
                                 \/ DeadLetter(w) \/ DeadLetterAudit(w)
                                 \/ Purge(w) \/ TickFails(w)
           \/ Acknowledging
           \/ \E i \in Jobs : Enqueue(i) \/ DeadlinePasses(i)
           \/ LicenseChanges
           \/ UNCHANGED vars
  BY <1>2, <1>3 DEF TickStart, MarkExhaustedDead, ClaimNext, Take,
              NothingToClaim, DeadLetter, DeadLetterAudit, Purge, TickFails,
              Acknowledging, AckStale, AckRead, Settle, LeaseRaceLost,
              AckAborts, Enqueue, DeadlinePasses, LicenseChanges, vars
<1> QED BY <1>1, <1>3 DEF Next, Dispatching

\* Only an acknowledgement of success turns a row PRINTED.
LEMMA PrintedBySuccess ==
    ASSUME IInv, [Next]_vars, NEW j \in Jobs, status'[j] = "PRINTED"
    PROVE  status[j] = "PRINTED" \/ \E k \in acking : k.success /\ k.job = j
<1>1. CASE \E a \in acking : Settle(a)
  BY <1>1 DEF Settle, IInv, TypeOK, Ack
<1>2. CASE \E i \in Jobs : Enqueue(i)
  BY <1>2 DEF Enqueue, IInv, TypeOK
<1>3. CASE \E w \in Workers : \/ MarkExhaustedDead(w) \/ ClaimNext(w)
                              \/ DeadLetter(w) \/ Purge(w)
  BY <1>3 DEF MarkExhaustedDead, ClaimNext, Take, DeadLetter, Purge, IInv, TypeOK
<1>4. CASE status' = status
  BY <1>4
<1>5. CASE \/ \E w \in Workers : \/ TickStart(w) \/ NothingToClaim(w)
                                 \/ Emit(w) \/ DeadLetterAudit(w)
                                 \/ TickFails(w)
           \/ \E i \in Jobs, n \in Attempt :
                 AckStale(i, n) \/ \E ok \in BOOLEAN : AckRead(i, n, ok)
           \/ \E a \in acking : LeaseRaceLost(a) \/ AckAborts(a)
           \/ \E i \in Jobs : DeadlinePasses(i)
           \/ LicenseChanges
           \/ UNCHANGED vars
  BY <1>4, <1>5 DEF TickStart, NothingToClaim, Emit, DeadLetterAudit, TickFails,
              AckStale, AckRead, LeaseRaceLost, AckAborts, DeadlinePasses,
              LicenseChanges, vars, rows
<1> QED BY <1>1, <1>2, <1>3, <1>5 DEF Next, Dispatching, Acknowledging

-----------------------------------------------------------------------------
\* A step of the API on the rows, which leaves the agents as they are and
\* reads no answer.
LEMMA ApiPIInv ==
    ASSUME PIInv, [Next]_vars, acking' \subseteq acking,
           wire' \in SUBSET Delivery, link' \in [Agents -> Link],
           \A d \in wire' : d \in wire \/ d.attempt \in emitted'[d.job],
           UNCHANGED <<replies, handling, ledger, paper>>
    PROVE  PIInv'
<1>1. IInv'
  BY NextIInv DEF PIInv
<1>2. PipelineTypeOK'
  BY <1>1 DEF PIInv, PipelineTypeOK, IInv
<1>3. PaperInv' /\ SuccessIsDurable'
  BY DEF PIInv, PaperInv, SuccessIsDurable
<1>4. PrintedMeansPaper'
  BY PrintedBySuccess DEF PIInv, PaperInv, PrintedMeansPaper
<1>5. EmittedInv'
  <2>1. /\ \A d \in wire : d.job \in Jobs
        /\ \A m \in replies : m.job \in Jobs
        /\ \A a \in Agents : \A h \in handling[a] : h.job \in Jobs
    BY DEF PIInv, PipelineTypeOK, Delivery, Reply, Handler
  <2> QED BY <2>1, EmittedGrows DEF PIInv, IInv, EmittedInv
<1> QED BY <1>1, <1>2, <1>3, <1>4, <1>5 DEF PIInv

\* The evidence of an answer becomes that of its acknowledgement.
LEMMA HandleReplyPIInv ==
    ASSUME PIInv, [Next]_vars, NEW m \in replies, HandleReply(m)
    PROVE  PIInv'
<1>1. IInv'
  BY NextIInv DEF PIInv
<1>2. PipelineTypeOK'
  BY <1>1 DEF PIInv, PipelineTypeOK, IInv, HandleReply
<1>3. m.agent \in Agents /\ m.job \in Jobs
  BY DEF PIInv, PipelineTypeOK, Reply
<1>4. \A k \in acking' \ acking : k.job = m.job /\ k.success = m.success
  BY DEF HandleReply, Acknowledge, rows
<1>5. m.success => paper[m.agent][m.job] > 0
  BY <1>3 DEF PIInv, PaperInv, SuccessIsDurable
<1>6. PaperInv'
  BY <1>3, <1>4, <1>5 DEF PIInv, PaperInv, HandleReply
<1>7. SuccessIsDurable'
  BY DEF PIInv, SuccessIsDurable, HandleReply
<1>8. PrintedMeansPaper'
  BY PrintedBySuccess DEF PIInv, PaperInv, PrintedMeansPaper, HandleReply
<1>9. EmittedInv'
  BY DEF PIInv, EmittedInv, HandleReply, Acknowledge
<1> QED BY <1>1, <1>2, <1>6, <1>7, <1>8, <1>9 DEF PIInv

\* A step of the agents or the network: what is left of the outbox's side.
LEMMA AgentSidePIInv ==
    ASSUME PIInv, UNCHANGED vars,
           PipelineTypeOK', EmittedInv', PaperInv', SuccessIsDurable',
           \A a \in Agents, j \in Jobs : paper'[a][j] >= paper[a][j]
    PROVE  PIInv'
<1>1. IInv'
  BY NextIInv DEF PIInv
<1>2. PrintedMeansPaper'
  <2> SUFFICES ASSUME NEW j \in Jobs, status[j] = "PRINTED"
               PROVE  \E a \in Agents : paper'[a][j] > 0
    BY DEF PrintedMeansPaper, vars, rows
  <2>1. PICK a \in Agents : paper[a][j] > 0
    BY DEF PIInv, PrintedMeansPaper
  <2>2. paper[a][j] \in Nat /\ paper'[a][j] \in Nat
    BY DEF PIInv, PipelineTypeOK
  <2> QED BY <2>1, <2>2
<1> QED BY <1>1, <1>2 DEF PIInv

-----------------------------------------------------------------------------
\* The steps of an agent, one by one.

\* The step of an agent leaves the outbox's own types alone.
LEMMA OutboxTypesKept == PIInv /\ UNCHANGED vars => TypeOK'
  BY DEF PIInv, PipelineTypeOK, TypeOK, vars, rows, ticks

LEMMA ReceivePIInv ==
    ASSUME PIInv, NEW d \in wire, Receive(d)
    PROVE  PIInv'
<1>1. d.agent \in Agents /\ d.job \in Jobs /\ d.attempt \in Attempt
  BY DEF PIInv, PipelineTypeOK, Delivery
<1>2. TypeOK'
  BY OutboxTypesKept DEF Receive
<1>3. CASE d.job \in ledger[d.agent]
  <2>1. /\ replies' = replies \cup {[agent |-> d.agent, job |-> d.job,
                                     attempt |-> d.attempt, success |-> TRUE]}
        /\ wire' = wire \ {d}
        /\ UNCHANGED <<vars, handling, link, ledger, paper>>
    BY <1>3 DEF Receive, Answer
  <2>2. PipelineTypeOK'
    <3>1. [agent |-> d.agent, job |-> d.job, attempt |-> d.attempt,
           success |-> TRUE] \in Reply
      BY <1>1 DEF Reply
    <3> QED BY <1>2, <2>1, <3>1 DEF PIInv, PipelineTypeOK
  <2>3. PaperInv' /\ SuccessIsDurable' /\ EmittedInv'
    BY <1>3, <2>1 DEF PIInv, PaperInv, SuccessIsDurable, EmittedInv, vars
  <2>4. \A a \in Agents, j \in Jobs : paper'[a][j] >= paper[a][j]
    BY <2>1 DEF PIInv, PipelineTypeOK
  <2> QED BY <2>1, <2>2, <2>3, <2>4, AgentSidePIInv
<1>4. CASE d.job \notin ledger[d.agent]
  <2>1. /\ handling' = [handling EXCEPT ![d.agent] = @ \cup
              {[job |-> d.job, attempt |-> d.attempt, inked |-> FALSE]}]
        /\ wire' = wire \ {d}
        /\ UNCHANGED <<vars, replies, link, ledger, paper>>
    BY <1>4 DEF Receive
  <2>2. PipelineTypeOK'
    <3>1. [job |-> d.job, attempt |-> d.attempt, inked |-> FALSE] \in Handler
      BY <1>1 DEF Handler
    <3> QED BY <1>1, <1>2, <2>1, <3>1 DEF PIInv, PipelineTypeOK
  <2>3. PaperInv' /\ SuccessIsDurable'
    BY <1>1, <2>1 DEF PIInv, PaperInv, SuccessIsDurable, vars, PipelineTypeOK
  <2>5. EmittedInv'
    BY <1>1, <2>1 DEF PIInv, EmittedInv, vars, PipelineTypeOK
  <2>4. \A a \in Agents, j \in Jobs : paper'[a][j] >= paper[a][j]
    BY <2>1 DEF PIInv, PipelineTypeOK
  <2> QED BY <2>1, <2>2, <2>3, <2>4, <2>5, AgentSidePIInv
<1> QED BY <1>3, <1>4

LEMMA InkPIInv ==
    ASSUME PIInv, NEW a \in Agents, NEW h \in handling[a], Ink(a, h)
    PROVE  PIInv'
<1>1. h \in Handler /\ h.job \in Jobs /\ [h EXCEPT !.inked = TRUE] \in Handler
  <2>1. h \in Handler
    BY DEF PIInv, PipelineTypeOK
  <2> QED BY <2>1 DEF Handler
<1>2. /\ paper' = [paper EXCEPT ![a][h.job] = @ + 1]
      /\ handling' = [handling EXCEPT ![a] =
                         (@ \ {h}) \cup {[h EXCEPT !.inked = TRUE]}]
      /\ UNCHANGED <<vars, wire, replies, link, ledger>>
  BY DEF Ink
<1>3. \A b \in Agents, j \in Jobs :
         /\ paper[b][j] \in Nat
         /\ paper'[b][j] = IF b = a /\ j = h.job
                           THEN paper[b][j] + 1 ELSE paper[b][j]
  BY <1>1, <1>2 DEF PIInv, PipelineTypeOK
<1>4. PipelineTypeOK'
  <2>1. TypeOK'
    BY <1>2, OutboxTypesKept
  <2>2. paper' \in [Agents -> [Jobs -> Nat]]
    BY <1>1, <1>2 DEF PIInv, PipelineTypeOK
  <2>3. handling' \in [Agents -> SUBSET Handler]
    BY <1>1, <1>2 DEF PIInv, PipelineTypeOK
  <2> QED BY <1>2, <2>1, <2>2, <2>3 DEF PIInv, PipelineTypeOK
<1>5. PaperInv'
  <2>1. \A b \in Agents : \A j \in ledger[b] : paper'[b][j] > 0
    BY <1>3 DEF PIInv, PaperInv, PipelineTypeOK
  <2>2. \A b \in Agents : \A g \in handling'[b] :
           g.inked => paper'[b][g.job] > 0
    <3>1. \A b \in Agents : \A g \in handling'[b] :
             \/ g \in handling[b]
             \/ b = a /\ g.job = h.job
      BY <1>1, <1>2 DEF PIInv, PipelineTypeOK, Handler
    <3>2. \A b \in Agents : \A g \in handling[b] : g.job \in Jobs
      BY DEF PIInv, PipelineTypeOK, Handler
    <3> QED BY <3>1, <3>2, <1>1, <1>3 DEF PIInv, PaperInv
  <2>3. \A k \in acking :
           k.success => \E b \in Agents : paper'[b][k.job] > 0
    <3>1. \A k \in acking : k.job \in Jobs
      BY DEF PIInv, IInv, TypeOK, Ack
    <3> QED BY <3>1, <1>3 DEF PIInv, PaperInv
  <2> QED BY <1>2, <2>1, <2>2, <2>3 DEF PaperInv, vars
<1>6. SuccessIsDurable'
  BY <1>2 DEF PIInv, SuccessIsDurable
<1>7. \A b \in Agents, j \in Jobs : paper'[b][j] >= paper[b][j]
  BY <1>3
<1>8. EmittedInv'
  <2>1. \A b \in Agents : \A g \in handling'[b] :
           \/ g \in handling[b]
           \/ b = a /\ g.job = h.job /\ g.attempt = h.attempt
    BY <1>1, <1>2 DEF PIInv, PipelineTypeOK, Handler
  <2> QED BY <2>1, <1>2 DEF PIInv, EmittedInv, vars
<1> QED BY <1>2, <1>4, <1>5, <1>6, <1>7, <1>8, AgentSidePIInv

\* A handler answers: success only with paper, and only with the ledger.
LEMMA AnswerPIInv ==
    ASSUME PIInv, NEW a \in Agents, NEW h \in handling[a],
           Succeed(a, h) \/ Fail(a, h)
    PROVE  PIInv'
<1>1. h.job \in Jobs /\ h.attempt \in Attempt
  BY DEF PIInv, PipelineTypeOK, Handler
<1>2. PICK ok \in BOOLEAN :
         /\ replies' = replies \cup {[agent |-> a, job |-> h.job,
                                      attempt |-> h.attempt, success |-> ok]}
         /\ ok => h.inked /\ h.job \in ledger'[a]
  BY <1>1 DEF Succeed, Fail, Answer, PIInv, PipelineTypeOK
<1>3. /\ handling' = [handling EXCEPT ![a] = @ \ {h}]
      /\ UNCHANGED <<vars, wire, link, paper>>
  BY DEF Succeed, Fail
<1>4. /\ ledger' \in [Agents -> SUBSET Jobs]
      /\ \A b \in Agents : ledger[b] \subseteq ledger'[b]
      /\ \A b \in Agents : \A j \in ledger'[b] \ ledger[b] :
            b = a /\ h.inked /\ j = h.job
  <2>1. ledger \in [Agents -> SUBSET Jobs]
    BY DEF PIInv, PipelineTypeOK
  <2>2. CASE Succeed(a, h)
    BY <1>1, <2>1, <2>2 DEF Succeed
  <2>3. CASE Fail(a, h)
    BY <2>1, <2>3 DEF Fail
  <2> QED BY <2>2, <2>3
<1>5. PipelineTypeOK'
  <2>1. replies' \in SUBSET Reply
    BY <1>1, <1>2 DEF PIInv, PipelineTypeOK, Reply
  <2>2. handling' \in [Agents -> SUBSET Handler]
    BY <1>3 DEF PIInv, PipelineTypeOK
  <2>3. TypeOK'
    BY <1>3, OutboxTypesKept
  <2> QED BY <1>3, <1>4, <2>1, <2>2, <2>3 DEF PIInv, PipelineTypeOK
<1>6. PaperInv'
  BY <1>3, <1>4 DEF PIInv, PaperInv, PipelineTypeOK, vars
<1>7. SuccessIsDurable'
  <2>1. \A m \in replies : m.agent \in Agents
    BY DEF PIInv, PipelineTypeOK, Reply
  <2> QED BY <2>1, <1>2, <1>4 DEF PIInv, SuccessIsDurable
<1>8. \A b \in Agents, j \in Jobs : paper'[b][j] >= paper[b][j]
  BY <1>3 DEF PIInv, PipelineTypeOK
<1>9. EmittedInv'
  BY <1>2, <1>3 DEF PIInv, EmittedInv, PipelineTypeOK, vars
<1> QED BY <1>3, <1>5, <1>6, <1>7, <1>8, <1>9, AgentSidePIInv

\* The process ends, with or without the record it was writing.
LEMMA DownPIInv ==
    ASSUME PIInv, NEW a \in Agents,
           \/ Crash(a)
           \/ \E h \in handling[a] : LedgerWriteFails(a, h)
    PROVE  PIInv'
<1>1. /\ AgentDown(a)
      /\ ledger' \in [Agents -> SUBSET Jobs]
      /\ \A b \in Agents : ledger[b] \subseteq ledger'[b]
      /\ \A b \in Agents : \A j \in ledger'[b] \ ledger[b] : paper[b][j] > 0
  <2>1. ledger \in [Agents -> SUBSET Jobs]
    BY DEF PIInv, PipelineTypeOK
  <2>2. CASE Crash(a)
    BY <2>1, <2>2 DEF Crash
  <2>3. CASE \E h \in handling[a] : LedgerWriteFails(a, h)
    <3>1. PICK h \in handling[a] : LedgerWriteFails(a, h)
      BY <2>3
    <3>2. h.job \in Jobs /\ paper[a][h.job] > 0
      BY <3>1 DEF LedgerWriteFails, PIInv, PaperInv, PipelineTypeOK, Handler
    <3>3. \/ ledger' = [ledger EXCEPT ![a] = @ \cup {h.job}]
          \/ ledger' = [ledger EXCEPT ![a] = @]
      BY <3>1 DEF LedgerWriteFails
    <3> QED BY <2>1, <3>1, <3>2, <3>3 DEF LedgerWriteFails
  <2> QED BY <2>2, <2>3
<1>2. TypeOK'
  BY <1>1, OutboxTypesKept DEF AgentDown
<1>3. PipelineTypeOK'
  BY <1>1, <1>2 DEF AgentDown, PIInv, PipelineTypeOK, Link
<1>4. PaperInv'
  BY <1>1 DEF AgentDown, PIInv, PaperInv, PipelineTypeOK, vars
<1>5. SuccessIsDurable'
  <2>1. \A m \in replies : m.agent \in Agents
    BY DEF PIInv, PipelineTypeOK, Reply
  <2> QED BY <2>1, <1>1 DEF AgentDown, PIInv, SuccessIsDurable
<1>6. \A b \in Agents, j \in Jobs : paper'[b][j] >= paper[b][j]
  BY <1>1 DEF AgentDown, PIInv, PipelineTypeOK
<1>7. EmittedInv'
  BY <1>1 DEF AgentDown, PIInv, EmittedInv, PipelineTypeOK, vars
<1> QED BY <1>1, <1>3, <1>4, <1>5, <1>6, <1>7, AgentSidePIInv DEF AgentDown

\* The connection comes and goes, and messages get lost.
LEMMA NetworkPIInv ==
    ASSUME PIInv, \/ \E a \in Agents : Restart(a) \/ Connect(a)
                                      \/ LoseConnection(a)
                  \/ \E d \in wire : LoseDelivery(d)
                  \/ \E m \in replies : LoseReply(m)
    PROVE  PIInv'
<1>1. /\ UNCHANGED <<vars, handling, ledger, paper>>
      /\ wire' \subseteq wire /\ replies' \subseteq replies
      /\ link' \in [Agents -> Link]
  BY DEF Restart, Connect, LoseConnection, LoseDelivery, LoseReply, PIInv,
         PipelineTypeOK, Link
<1>2. PipelineTypeOK'
  BY <1>1, OutboxTypesKept DEF PIInv, PipelineTypeOK
<1>3. PaperInv' /\ SuccessIsDurable' /\ EmittedInv'
  BY <1>1 DEF PIInv, PaperInv, SuccessIsDurable, EmittedInv, vars
<1>4. \A a \in Agents, j \in Jobs : paper'[a][j] >= paper[a][j]
  BY <1>1 DEF PIInv, PipelineTypeOK
<1> QED BY <1>1, <1>2, <1>3, <1>4, AgentSidePIInv

-----------------------------------------------------------------------------
\* Every step of the pipeline preserves the inductive invariant.
LEMMA PipelineNextPIInv == PIInv /\ [PipelineNext]_pipelineVars => PIInv'
<1> SUFFICES ASSUME PIInv, [PipelineNext]_pipelineVars PROVE PIInv'
  OBVIOUS
<1>1. [Next]_vars
  BY StepImplementsOutbox DEF PIInv
<1>2. wire \in SUBSET Delivery /\ link \in [Agents -> Link]
  BY DEF PIInv, PipelineTypeOK
<1>3. CASE \E w \in Workers : EmitToRoom(w)
  <2>1. PICK w \in Workers : EmitToRoom(w)
    BY <1>3
  <2>2. claim[w].job \in Jobs /\ claim[w].attempt \in Attempt
    BY <2>1 DEF EmitToRoom, Emit, PIInv, IInv, ClaimInv, TypeOK, Claim
  <2>3. wire' \in SUBSET Delivery
    BY <1>2, <2>1, <2>2 DEF EmitToRoom, Delivery
  <2>4. \A d \in wire' : d \in wire \/ d.attempt \in emitted'[d.job]
    BY <2>1, <2>2 DEF EmitToRoom, Emit, PIInv, IInv, TypeOK
  <2> QED BY <1>1, <1>2, <2>1, <2>3, <2>4, ApiPIInv DEF EmitToRoom, Emit
<1>4. CASE \E w \in Workers : DispatcherStep(w)
  <2>1. acking' = acking /\ UNCHANGED agentVars
    BY <1>4 DEF DispatcherStep, TickStart, MarkExhaustedDead, ClaimNext, Take,
                NothingToClaim, DeadLetter, DeadLetterAudit, Purge, TickFails
  <2> QED BY <1>1, <1>2, <2>1, ApiPIInv DEF agentVars
<1>5. CASE OutboxStep
  <2>1. acking' \subseteq acking /\ UNCHANGED agentVars
    BY <1>5 DEF OutboxStep, Enqueue, DeadlinePasses, Settle, LeaseRaceLost,
                AckAborts
  <2> QED BY <1>1, <1>2, <2>1, ApiPIInv DEF agentVars
<1>6. CASE LicenseLocks \/ LicenseUnlocks
  <2>1. /\ acking' = acking /\ UNCHANGED <<replies, handling, ledger, paper>>
        /\ wire' \in SUBSET Delivery /\ link' \in [Agents -> Link]
        /\ wire' \subseteq wire
    BY <1>2, <1>6 DEF LicenseLocks, LicenseUnlocks, LicenseChanges, agentVars,
                      Link
  <2> QED BY <1>1, <2>1, ApiPIInv
<1>7. CASE \E m \in replies : HandleReply(m)
  BY <1>1, <1>7, HandleReplyPIInv
<1>8. CASE \E d \in wire : Receive(d)
  BY <1>8, ReceivePIInv
<1>9. CASE \E a \in Agents : AgentStep(a)
  BY <1>9, InkPIInv, AnswerPIInv, DownPIInv, NetworkPIInv DEF AgentStep
<1>10. CASE (\E m \in replies : LoseReply(m)) \/ (\E d \in wire : LoseDelivery(d))
  BY <1>10, NetworkPIInv
<1>11. CASE UNCHANGED pipelineVars
  <2>1. acking' = acking /\ UNCHANGED agentVars
    BY <1>11 DEF pipelineVars, vars
  <2> QED BY <1>1, <1>2, <2>1, ApiPIInv DEF agentVars
<1> QED BY <1>3, <1>4, <1>5, <1>6, <1>7, <1>8, <1>9, <1>10, <1>11
        DEF PipelineNext

LEMMA PipelineInvariance == PipelineSpec => []PIInv
  BY InitPIInv, PipelineNextPIInv, PTL DEF PipelineSpec

\* Messages, handlers, ledgers and connections stay within their types.
THEOREM PipelineTypeCorrect == PipelineSpec => []PipelineTypeOK
<1>1. PIInv => PipelineTypeOK
  BY DEF PIInv
<1> QED BY <1>1, PipelineInvariance, PTL

\* No row says PRINTED unless an agent sent the job to a printer.
THEOREM PrintedIsOnPaper == PipelineSpec => []PrintedMeansPaper
<1>1. PIInv => PrintedMeansPaper
  BY DEF PIInv
<1> QED BY <1>1, PipelineInvariance, PTL

\* An answer of success on its way is in the ledger of the agent that gave it.
THEOREM SuccessIsInLedger == PipelineSpec => []SuccessIsDurable
<1>1. PIInv => SuccessIsDurable
  BY DEF PIInv
<1> QED BY <1>1, PipelineInvariance, PTL

\* acknowledge() only ever meets attempts that were emitted, whatever wire and
\* agents lose, delay and repeat, so the outbox still behaves as PrintOutbox
\* says and all that is proved of it holds of the pipeline.
THEOREM PipelineImplementsOutbox == PipelineSpec => ImplementsOutbox
<1>1. PipelineInit => Init
  BY DEF PipelineInit
<1>2. PIInv => PipelineTypeOK /\ EmittedInv
  BY DEF PIInv
<1>3. PipelineTypeOK /\ EmittedInv /\ [PipelineNext]_pipelineVars => [Next]_vars
  BY StepImplementsOutbox
<1> QED BY <1>1, <1>2, <1>3, PipelineInvariance, PTL
        DEF PipelineSpec, ImplementsOutbox, Spec

\* A job in the ledger of an agent, with no earlier handler of it left, uses
\* no more paper of that agent, for ever.
THEOREM LedgerStopsRepeats == PipelineSpec => LedgerStopsPaper
<1> DEFINE Stops ==
      \A a \in Agents, j \in Jobs :
         /\ j \in ledger[a]
         /\ \A h \in handling[a] : h.job # j
         => /\ paper'[a][j] = paper[a][j]
            /\ j \in ledger'[a]
            /\ \A h \in handling'[a] : h.job # j
<1>1. ASSUME PIInv, [PipelineNext]_pipelineVars
      PROVE  Stops
  <2> SUFFICES ASSUME NEW a \in Agents, NEW j \in Jobs, j \in ledger[a],
                      \A h \in handling[a] : h.job # j
               PROVE  /\ paper'[a][j] = paper[a][j]
                      /\ j \in ledger'[a]
                      /\ \A h \in handling'[a] : h.job # j
    OBVIOUS
  <2>1. /\ handling \in [Agents -> SUBSET Handler]
        /\ ledger \in [Agents -> SUBSET Jobs]
        /\ paper \in [Agents -> [Jobs -> Nat]]
        /\ wire \in SUBSET Delivery
    BY <1>1 DEF PIInv, PipelineTypeOK
  <2>2. CASE \E d \in wire : Receive(d)
    <3>1. PICK d \in wire : Receive(d)
      BY <2>2
    <3>2. CASE d.job \in ledger[d.agent]
      BY <3>1, <3>2 DEF Receive
    <3>3. CASE d.job \notin ledger[d.agent]
      <4>1. d.agent = a => d.job # j
        BY <3>3
      <4>2. handling' = [handling EXCEPT ![d.agent] = @ \cup
               {[job |-> d.job, attempt |-> d.attempt, inked |-> FALSE]}]
        BY <3>1, <3>3 DEF Receive
      <4> QED BY <2>1, <3>1, <4>1, <4>2 DEF Receive
    <3> QED BY <3>2, <3>3
  <2>3. CASE \E b \in Agents : \E h \in handling[b] : Ink(b, h)
    <3>1. PICK b \in Agents : \E h \in handling[b] : Ink(b, h)
      BY <2>3
    <3>2. PICK h \in handling[b] : Ink(b, h)
      BY <3>1
    <3>3. h.job \in Jobs /\ [h EXCEPT !.inked = TRUE].job = h.job
      BY <2>1 DEF Handler
    <3> QED BY <2>1, <3>2, <3>3 DEF Ink
  <2>4. CASE \E b \in Agents : \E h \in handling[b] :
                Succeed(b, h) \/ Fail(b, h)
    BY <2>1, <2>4 DEF Succeed, Fail
  <2>5. CASE \E b \in Agents :
                Crash(b) \/ \E h \in handling[b] : LedgerWriteFails(b, h)
    BY <2>1, <2>5 DEF Crash, LedgerWriteFails, AgentDown
  <2>6. CASE UNCHANGED <<handling, ledger, paper>>
    BY <2>6
  <2>7. CASE \/ \E b \in Agents : Restart(b) \/ Connect(b) \/ LoseConnection(b)
             \/ \E d \in wire : LoseDelivery(d)
             \/ \E m \in replies : LoseReply(m) \/ HandleReply(m)
             \/ \E w \in Workers : EmitToRoom(w) \/ DispatcherStep(w)
             \/ OutboxStep \/ LicenseLocks \/ LicenseUnlocks
             \/ UNCHANGED pipelineVars
    BY <2>6, <2>7 DEF Restart, Connect, LoseConnection, LoseDelivery, LoseReply,
       HandleReply, EmitToRoom, DispatcherStep, OutboxStep, LicenseLocks,
       LicenseUnlocks, agentVars, pipelineVars
  <2> QED BY <1>1, <2>2, <2>3, <2>4, <2>5, <2>7 DEF PipelineNext, AgentStep
<1> QED BY <1>1, PipelineInvariance, PTL DEF PipelineSpec, LedgerStopsPaper

-----------------------------------------------------------------------------
\* Paper: every sheet of a job is paid for by an attempt that was emitted and
\* can cost no other.

\* The attempts of j that may still cost agent a a sheet.
Owed(a, j) ==
    {n \in Attempt :
        \/ \E d \in wire : d.agent = a /\ d.job = j /\ d.attempt = n
        \/ \E h \in handling[a] : ~h.inked /\ h.job = j /\ h.attempt = n}

Paid(a, j) == paper[a][j] + Cardinality(Owed(a, j)) <= Cardinality(emitted[j])

\* An attempt is on the wire to an agent or in its hands, not both.
SheetInv ==
    /\ \A d \in wire : \A h \in handling[d.agent] :
          h.inked \/ h.job # d.job \/ h.attempt # d.attempt
    /\ \A a \in Agents, j \in Jobs : Paid(a, j)

\* There are finitely many attempts to count.
LEMMA FiniteOwed ==
    ASSUME PIInv, NEW a \in Agents, NEW j \in Jobs
    PROVE  /\ IsFiniteSet(Owed(a, j)) /\ Cardinality(Owed(a, j)) \in Nat
           /\ IsFiniteSet(emitted[j]) /\ Cardinality(emitted[j]) \in Nat
           /\ paper[a][j] \in Nat
<1>1. IsFiniteSet(Attempt)
  BY MaxAttemptsType, FS_Interval DEF Attempt
<1>2. Owed(a, j) \subseteq Attempt /\ emitted[j] \subseteq Attempt
  BY DEF Owed, PIInv, IInv, TypeOK
<1>3. paper[a][j] \in Nat
  BY DEF PIInv, PipelineTypeOK
<1> QED BY <1>1, <1>2, <1>3, FS_Subset, FS_CardinalityType

\* A step after which no more attempts are owed and no more paper is used.
LEMMA PaidKept ==
    ASSUME PIInv, PIInv', NEW a \in Agents, NEW j \in Jobs, Paid(a, j),
           Owed(a, j)' \subseteq Owed(a, j), paper'[a][j] = paper[a][j],
           emitted[j] \subseteq emitted'[j]
    PROVE  Paid(a, j)'
<1>1. /\ IsFiniteSet(Owed(a, j)) /\ Cardinality(Owed(a, j)) \in Nat
      /\ IsFiniteSet(emitted[j]) /\ Cardinality(emitted[j]) \in Nat
      /\ paper[a][j] \in Nat
  BY FiniteOwed
<1>2. /\ IsFiniteSet(emitted'[j]) /\ Cardinality(emitted'[j]) \in Nat
      /\ Cardinality(Owed(a, j)') \in Nat
  <2>1. IsFiniteSet(Attempt)
    BY MaxAttemptsType, FS_Interval DEF Attempt
  <2>2. emitted'[j] \subseteq Attempt
    BY DEF PIInv, IInv, TypeOK
  <2>3. IsFiniteSet(Owed(a, j)')
    BY <1>1, FS_Subset
  <2> QED BY <2>1, <2>2, <2>3, FS_Subset, FS_CardinalityType
<1>3. /\ Cardinality(Owed(a, j)') <= Cardinality(Owed(a, j))
      /\ Cardinality(emitted[j]) <= Cardinality(emitted'[j])
  BY <1>1, <1>2, FS_Subset
<1> HIDE DEF Owed
<1> QED BY <1>1, <1>2, <1>3 DEF Paid

\* The steps that send nothing and start no handler.
LEMMA QuietSheetInv ==
    ASSUME PIInv, PIInv', SheetInv, [Next]_vars,
           wire' \subseteq wire, paper' = paper,
           \A a \in Agents : \A h \in handling'[a] : h \in handling[a] \/ h.inked
    PROVE  SheetInv'
<1>1. ASSUME NEW a \in Agents, NEW j \in Jobs
      PROVE  Paid(a, j)'
  <2>1. Owed(a, j)' \subseteq Owed(a, j)
    BY DEF Owed
  <2>2. emitted[j] \subseteq emitted'[j]
    BY EmittedGrows DEF PIInv, IInv
  <2> QED BY <2>1, <2>2, PaidKept DEF SheetInv
<1>2. \A d \in wire' : \A h \in handling'[d.agent] :
         h.inked \/ h.job # d.job \/ h.attempt # d.attempt
  BY DEF SheetInv, PIInv, PipelineTypeOK, Delivery
<1> QED BY <1>1, <1>2 DEF SheetInv

\* The event of an attempt nobody has seen yet.
LEMMA EmitSheetInv ==
    ASSUME PIInv, PIInv', SheetInv, NEW w \in Workers, EmitToRoom(w)
    PROVE  SheetInv'
<1> DEFINE i == claim[w].job
           n == claim[w].attempt
<1>1. i \in Jobs /\ n \in Attempt /\ n \notin emitted[i]
  BY DEF EmitToRoom, Emit, PIInv, IInv, ClaimInv, TypeOK, Claim,
         AttemptHasOneDispatcher
<1>2. /\ \A j \in Jobs : emitted'[j] = IF j = i THEN emitted[j] \cup {n}
                                       ELSE emitted[j]
      /\ UNCHANGED <<handling, paper>>
  BY <1>1 DEF EmitToRoom, Emit, PIInv, IInv, TypeOK
<1>3. \A d \in wire' : d \in wire \/ (d.job = i /\ d.attempt = n)
  BY DEF EmitToRoom
<1> HIDE DEF i, n
<1>4. ASSUME NEW d \in wire', NEW h \in handling'[d.agent]
      PROVE  h.inked \/ h.job # d.job \/ h.attempt # d.attempt
  <2>1. d.agent \in Agents
    BY DEF PIInv, PipelineTypeOK, Delivery
  <2>2. h \in handling[d.agent] /\ h.attempt \in emitted[h.job]
    BY <2>1, <1>2 DEF PIInv, EmittedInv
  <2> QED BY <2>2, <1>1, <1>3 DEF SheetInv
<1>5. ASSUME NEW a \in Agents, NEW j \in Jobs
      PROVE  Paid(a, j)'
  <2>1. Owed(a, j)' \subseteq Owed(a, j) \cup (IF j = i THEN {n} ELSE {})
    BY <1>2, <1>3 DEF Owed
  <2>2. Paid(a, j) /\ paper'[a][j] = paper[a][j]
    BY <1>2 DEF SheetInv
  <2>3. CASE j # i
    BY <2>1, <2>2, <2>3, <1>2, PaidKept
  <2>4. CASE j = i
    <3>1. /\ IsFiniteSet(Owed(a, j)) /\ Cardinality(Owed(a, j)) \in Nat
          /\ IsFiniteSet(emitted[j]) /\ Cardinality(emitted[j]) \in Nat
          /\ paper[a][j] \in Nat
      BY FiniteOwed
    <3>2. Cardinality(emitted'[j]) = Cardinality(emitted[j]) + 1
      <4>1. emitted'[j] = emitted[j] \cup {n} /\ n \notin emitted[j]
        BY <2>4, <1>1, <1>2
      <4> QED BY <4>1, <3>1, FS_AddElement
    <3>3. /\ IsFiniteSet(Owed(a, j) \cup {n})
          /\ Cardinality(Owed(a, j) \cup {n}) \in Nat
          /\ Cardinality(Owed(a, j) \cup {n}) <= Cardinality(Owed(a, j)) + 1
      <4> HIDE DEF Owed
      <4>1. /\ IsFiniteSet(Owed(a, j) \cup {n})
            /\ Cardinality(Owed(a, j) \cup {n}) =
                  IF n \in Owed(a, j) THEN Cardinality(Owed(a, j))
                  ELSE Cardinality(Owed(a, j)) + 1
        BY <3>1, FS_AddElement
      <4> QED BY <3>1, <4>1
    <3>4. /\ Cardinality(Owed(a, j)') <= Cardinality(Owed(a, j) \cup {n})
          /\ Cardinality(Owed(a, j)') \in Nat
      BY <2>1, <2>4, <3>3, FS_Subset, FS_CardinalityType
    <3> HIDE DEF Owed
    <3> QED BY <2>2, <3>1, <3>2, <3>3, <3>4 DEF Paid
  <2> QED BY <2>3, <2>4
<1> QED BY <1>4, <1>5 DEF SheetInv

\* An attempt moves from the wire into a handler, which still owes its sheet.
LEMMA ReceiveSheetInv ==
    ASSUME PIInv, PIInv', SheetInv, NEW d \in wire, Receive(d),
           d.job \notin ledger[d.agent]
    PROVE  SheetInv'
<1>1. d.agent \in Agents /\ d \in Delivery
  BY DEF PIInv, PipelineTypeOK, Delivery
<1> DEFINE new == [job |-> d.job, attempt |-> d.attempt, inked |-> FALSE]
<1>2. /\ wire' = wire \ {d}
      /\ UNCHANGED <<vars, paper>>
      /\ \A a \in Agents :
            handling'[a] = IF a = d.agent THEN handling[a] \cup {new}
                           ELSE handling[a]
  BY <1>1 DEF Receive, PIInv, PipelineTypeOK
<1>3. new.job = d.job /\ new.attempt = d.attempt /\ new.inked = FALSE
  OBVIOUS
<1> HIDE DEF new
<1>4. ASSUME NEW a \in Agents, NEW j \in Jobs
      PROVE  Paid(a, j)'
  <2>1. Owed(a, j)' \subseteq Owed(a, j)
    BY <1>1, <1>2, <1>3 DEF Owed
  <2> QED BY <2>1, <1>2, PaidKept DEF SheetInv, vars
<1>5. ASSUME NEW e \in wire', NEW h \in handling'[e.agent]
      PROVE  h.inked \/ h.job # e.job \/ h.attempt # e.attempt
  <2>1. e \in wire /\ e # d /\ e \in Delivery /\ e.agent \in Agents
    BY <1>2 DEF PIInv, PipelineTypeOK, Delivery
  <2>2. e.agent # d.agent \/ e.job # d.job \/ e.attempt # d.attempt
    BY <1>1, <2>1 DEF Delivery
  <2>3. h \in handling[e.agent] \/ (e.agent = d.agent /\ h = new)
    BY <2>1, <1>2
  <2> QED BY <2>1, <2>2, <2>3, <1>3 DEF SheetInv
<1> QED BY <1>4, <1>5 DEF SheetInv

\* The sheet that was owed is used.
LEMMA InkSheetInv ==
    ASSUME PIInv, PIInv', SheetInv, NEW a \in Agents, NEW h \in handling[a],
           Ink(a, h)
    PROVE  SheetInv'
<1> DEFINE done == [h EXCEPT !.inked = TRUE]
<1>1. h \in Handler /\ ~h.inked
  BY DEF Ink, PIInv, PipelineTypeOK
<1>2. h.job \in Jobs /\ h.attempt \in Attempt /\ done.inked
  BY <1>1 DEF Handler
<1>3. /\ UNCHANGED <<vars, wire>>
      /\ \A b \in Agents : handling'[b] =
            IF b = a THEN (handling[b] \ {h}) \cup {done} ELSE handling[b]
      /\ \A b \in Agents, j \in Jobs : paper'[b][j] =
            IF b = a /\ j = h.job THEN paper[b][j] + 1 ELSE paper[b][j]
  BY <1>2 DEF Ink, PIInv, PipelineTypeOK
<1> HIDE DEF done
<1>4. ASSUME NEW d \in wire', NEW g \in handling'[d.agent]
      PROVE  g.inked \/ g.job # d.job \/ g.attempt # d.attempt
  <2>1. d.agent \in Agents
    BY DEF PIInv, PipelineTypeOK, Delivery
  <2>2. g \in handling[d.agent] \/ g = done
    BY <2>1, <1>3
  <2> QED BY <2>2, <1>2, <1>3 DEF SheetInv
<1>5. ASSUME NEW b \in Agents, NEW j \in Jobs
      PROVE  Paid(b, j)'
  <2>1. Owed(b, j)' \subseteq Owed(b, j)
    <3>1. \A g \in handling'[b] : g \in handling[b] \/ g = done
      BY <1>3
    <3>2. \A g \in handling'[b] : ~g.inked => g \in handling[b]
      BY <3>1, <1>2
    <3> QED BY <3>2, <1>3 DEF Owed
  <2>2. CASE ~(b = a /\ j = h.job)
    BY <2>1, <2>2, <1>3, PaidKept DEF SheetInv, vars
  <2>3. CASE b = a /\ j = h.job
    <3>1. \A d \in wire' :
             d.agent = a => d.job # h.job \/ d.attempt # h.attempt
      BY <1>1, <1>3 DEF SheetInv
    <3>2. \A g \in handling'[a] :
             ~g.inked => g.job # h.job \/ g.attempt # h.attempt
      <4>1. \A g \in handling'[a] : ~g.inked => g \in Handler /\ g # h
        BY <1>1, <1>2, <1>3 DEF PIInv, PipelineTypeOK
      <4>2. \A g \in Handler :
               /\ ~g.inked /\ g # h
               => g.job # h.job \/ g.attempt # h.attempt
        BY <1>1 DEF Handler
      <4> QED BY <4>1, <4>2
    <3>3. h.attempt \in Owed(b, j) /\ h.attempt \notin Owed(b, j)'
      BY <2>3, <3>1, <3>2, <1>1, <1>2 DEF Owed
    <3>4. /\ IsFiniteSet(Owed(b, j)) /\ Cardinality(Owed(b, j)) \in Nat
          /\ IsFiniteSet(emitted[j]) /\ Cardinality(emitted[j]) \in Nat
          /\ paper[b][j] \in Nat
      BY FiniteOwed
    <3>5. /\ IsFiniteSet(Owed(b, j) \ {h.attempt})
          /\ Cardinality(Owed(b, j) \ {h.attempt}) = Cardinality(Owed(b, j)) - 1
      BY <3>3, <3>4, FS_RemoveElement
    <3>6. /\ Cardinality(Owed(b, j)') <= Cardinality(Owed(b, j) \ {h.attempt})
          /\ Cardinality(Owed(b, j)') \in Nat
      BY <2>1, <3>3, <3>5, FS_Subset, FS_CardinalityType
    <3>7. paper'[b][j] = paper[b][j] + 1 /\ emitted'[j] = emitted[j]
      BY <2>3, <1>3 DEF vars
    <3>8. Paid(b, j)
      BY DEF SheetInv
    <3> HIDE DEF Owed
    <3> QED BY <3>4, <3>5, <3>6, <3>7, <3>8 DEF Paid
  <2> QED BY <2>2, <2>3
<1> QED BY <1>4, <1>5 DEF SheetInv

LEMMA PipelineNextSheetInv ==
    PIInv /\ PIInv' /\ SheetInv /\ [PipelineNext]_pipelineVars => SheetInv'
<1> SUFFICES ASSUME PIInv, PIInv', SheetInv, [PipelineNext]_pipelineVars
             PROVE  SheetInv'
  OBVIOUS
<1>1. [Next]_vars
  BY StepImplementsOutbox DEF PIInv
<1>2. handling \in [Agents -> SUBSET Handler]
  BY DEF PIInv, PipelineTypeOK
<1>3. CASE \E w \in Workers : EmitToRoom(w)
  BY <1>3, EmitSheetInv
<1>4. CASE \/ \E w \in Workers : DispatcherStep(w)
           \/ OutboxStep \/ LicenseLocks \/ LicenseUnlocks
           \/ \E m \in replies : HandleReply(m) \/ LoseReply(m)
           \/ \E d \in wire : LoseDelivery(d)
           \/ \E a \in Agents : Restart(a) \/ Connect(a) \/ LoseConnection(a)
           \/ UNCHANGED pipelineVars
  <2>1. wire' \subseteq wire /\ UNCHANGED <<handling, paper>>
    BY <1>4 DEF DispatcherStep, OutboxStep, LicenseLocks, LicenseUnlocks,
         HandleReply, LoseReply, LoseDelivery, Restart, Connect, LoseConnection,
         agentVars, pipelineVars
  <2> QED BY <1>1, <2>1, QuietSheetInv
<1>5. CASE \E d \in wire : Receive(d)
  <2>1. PICK d \in wire : Receive(d)
    BY <1>5
  <2>2. CASE d.job \in ledger[d.agent]
    BY <1>1, <2>1, <2>2, QuietSheetInv DEF Receive
  <2> QED BY <2>1, <2>2, ReceiveSheetInv
<1>6. CASE \E a \in Agents : \E h \in handling[a] : Ink(a, h)
  BY <1>6, InkSheetInv
<1>7. CASE \E a \in Agents :
              \/ \E h \in handling[a] : \/ Succeed(a, h) \/ Fail(a, h)
                                        \/ LedgerWriteFails(a, h)
              \/ Crash(a)
  <2>1. /\ wire' \subseteq wire /\ paper' = paper
        /\ \A a \in Agents : handling'[a] \subseteq handling[a]
    BY <1>2, <1>7 DEF Succeed, Fail, LedgerWriteFails, Crash, AgentDown
  <2> QED BY <1>1, <2>1, QuietSheetInv
<1> QED BY <1>3, <1>4, <1>5, <1>6, <1>7 DEF PipelineNext, AgentStep

\* No agent uses more sheets for a job than attempts of it were emitted.
THEOREM SheetsAreAttempts == PipelineSpec => []OnePaperPerAttempt
<1>1. PipelineInit => SheetInv
  <2> SUFFICES ASSUME PipelineInit, NEW a \in Agents, NEW j \in Jobs
               PROVE  Paid(a, j)
    BY DEF SheetInv, PipelineInit
  <2>1. Owed(a, j) = {} /\ emitted[j] = {} /\ paper[a][j] = 0
    BY DEF PipelineInit, Init, Owed
  <2>2. Cardinality({}) = 0
    BY FS_EmptySet
  <2> QED BY <2>1, <2>2 DEF Paid
<1>2. PIInv /\ PIInv' /\ SheetInv /\ [PipelineNext]_pipelineVars => SheetInv'
  BY PipelineNextSheetInv
<1>3. PIInv /\ SheetInv => OnePaperPerAttempt
  <2> SUFFICES ASSUME PIInv, SheetInv, NEW a \in Agents, NEW j \in Jobs
               PROVE  paper[a][j] <= Cardinality(emitted[j])
    BY DEF OnePaperPerAttempt
  <2>1. /\ Cardinality(Owed(a, j)) \in Nat /\ Cardinality(emitted[j]) \in Nat
        /\ paper[a][j] \in Nat
    BY FiniteOwed
  <2> QED BY <2>1 DEF SheetInv, Paid
<1> QED BY <1>1, <1>2, <1>3, PipelineInvariance, PTL DEF PipelineSpec

\* With one dispatcher, as deployed, the rows live the life of a print job.
THEOREM PipelineLifecycle ==
    ASSUME SoleDispatcher
    PROVE  PipelineSpec => OutboxLifecycle
  BY PipelineImplementsOutbox, ImplementsLifecycle DEF ImplementsOutbox
=============================================================================
