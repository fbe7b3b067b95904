----------------------------- MODULE PrintReprint -----------------------------
(***************************************************************************)
(* Reprinting a settled print job: reprintDeadJob of the print outbox      *)
(* service, under POST /printers/jobs/:id/reprint.  The caller names its   *)
(* command and repeats it when it got no answer.  The handler's lookup, its *)
(* read of the original and its upsert are three queries without a         *)
(* transaction, so requests of one command interleave with each other and  *)
(* with the dispatcher, which settles and purges rows meanwhile.           *)
(*                                                                         *)
(* The unique index is over (tenantId, idempotencyKey), and the key of a   *)
(* reprint is made of the original's id and the command.                   *)
(***************************************************************************)
EXTENDS Integers

CONSTANTS
    Originals,      \* jobs that a reprint is asked of
    Commands,       \* requestCommandIds
    Requests,       \* requests the API works on at the same time
    None,
    MaxRows         \* bound: reprint rows made in a behaviour

VARIABLES
    original,   \* original[j]: the state of row j
    reprints,   \* rows made by reprints
    made,       \* reprint rows made so far: their ids
    request     \* request[r]: the handler of r

vars == <<original, reprints, made, request>>

Phase == {"open", "settled", "gone"}
Key == Originals \X Commands
Row == [id : 1..MaxRows, key : Key, of : Originals \cup {None},
        phase : Phase \ {"gone"}]

\* The answers: 202 with the job, 409 for a foreign command, 409 for a job
\* that is not settled, 404.
Outcome == {"accepted", "foreign", "unsettled", "missing"}
Request == [at : {"idle", "lookup", "original", "enqueue"} \cup Outcome,
            key : Key \cup {None}]

TypeOK ==
    /\ original \in [Originals -> Phase]
    /\ reprints \in SUBSET Row
    /\ made \in 0..MaxRows
    /\ request \in [Requests -> Request]

Idle == [at |-> "idle", key |-> None]

Init ==
    /\ original = [j \in Originals |-> "open"]
    /\ reprints = {}
    /\ made = 0
    /\ request = [r \in Requests |-> Idle]

GoTo(r, place) == request' = [request EXCEPT ![r].at = place]

Ask(r, k) ==
    /\ request[r].at = "idle"
    /\ request' = [request EXCEPT ![r] = [at |-> "lookup", key |-> k]]
    /\ UNCHANGED <<original, reprints, made>>

\* The row of the command, if there is one, must be a reprint of this job.
Lookup(r) ==
    LET found == {x \in reprints : x.key = request[r].key}
    IN  /\ request[r].at = "lookup"
        /\ \/ found = {} /\ GoTo(r, "original")
           \/ \E x \in found :
                 GoTo(r, IF x.of = request[r].key[1] THEN "accepted" ELSE "foreign")
        /\ UNCHANGED <<original, reprints, made>>

ReadOriginal(r) ==
    /\ request[r].at = "original"
    /\ GoTo(r, CASE original[request[r].key[1]] = "gone" -> "missing"
                 [] original[request[r].key[1]] = "open" -> "unsettled"
                 [] original[request[r].key[1]] = "settled" -> "enqueue")
    /\ UNCHANGED <<original, reprints, made>>

\* What enqueuePrintJob creates: reprintOfId is in its input and not in the
\* columns it writes.
NewRow(k) == [id |-> made + 1, key |-> k, of |-> None, phase |-> "open"]

\* The upsert: a row that has the key meanwhile stays as it is.
EnqueueReprint(r) ==
    LET k == request[r].key
    IN  /\ request[r].at = "enqueue"
        /\ IF \E x \in reprints : x.key = k
           THEN UNCHANGED <<reprints, made>>
           ELSE /\ made < MaxRows
                /\ reprints' = reprints \cup {NewRow(k)}
                /\ made' = made + 1
        /\ GoTo(r, "accepted")
        /\ UNCHANGED original

\* The answer goes out, or the request fails anywhere: the caller may repeat
\* its command after either.
Ends(r) ==
    /\ request[r].at # "idle"
    /\ request' = [request EXCEPT ![r] = Idle]
    /\ UNCHANGED <<original, reprints, made>>

-----------------------------------------------------------------------------
\* The dispatcher meanwhile: PrintOutbox

OriginalMoves(j) ==
    /\ \/ original[j] = "open" /\ original' = [original EXCEPT ![j] = "settled"]
       \/ original[j] = "settled" /\ original' = [original EXCEPT ![j] = "gone"]
    /\ UNCHANGED <<reprints, made, request>>

ReprintMoves(x) ==
    /\ reprints' = (reprints \ {x}) \cup
          IF x.phase = "open" THEN {[x EXCEPT !.phase = "settled"]} ELSE {}
    /\ UNCHANGED <<original, made, request>>

Next ==
    \/ \E r \in Requests :
          \/ \E k \in Key : Ask(r, k)
          \/ Lookup(r) \/ ReadOriginal(r) \/ EnqueueReprint(r) \/ Ends(r)
    \/ \E j \in Originals : OriginalMoves(j)
    \/ \E x \in reprints : ReprintMoves(x)

Spec == Init /\ [][Next]_vars

-----------------------------------------------------------------------------
\* Properties

\* "an HTTP response loss can be retried": a command whose row is there is
\* answered with that row.
RetryIsAccepted == \A r \in Requests : request[r].at # "foreign"
=============================================================================
