-------------------------- MODULE MenuPublication --------------------------
(***************************************************************************)
(* The QR menu of one tenant on its way to the cloud.  An edit of the menu *)
(* (or of CMS content or public settings) builds a full snapshot, numbers  *)
(* it and puts it in an outbox, all in its own transaction.  Workers of    *)
(* the local API lease the rows in the order of their versions and push    *)
(* them over HTTP; the cloud authenticates a push and applies it in two    *)
(* separate steps, so pushes arrive late, twice and out of order.          *)
(*                                                                         *)
(* A menu is the set of the edits it shows; it may be older than its       *)
(* publication.  The cloud may hold a publication of an earlier            *)
(* installation whose database is lost: its version is then ahead of the   *)
(* local sequence.                                                         *)
(***************************************************************************)
EXTENDS Naturals, FiniteSets

CONSTANTS
    Edits,          \* menu, CMS and settings changes, each made at most once
    Workers,        \* processes that run a MenuProjectionRuntime
    MaxVersion,     \* bound: publications of one behaviour
    MaxAttempts,    \* maxAttempts of a row (12)
    Batch,          \* pushes of one tick (5)
    Installations,  \* what a tenant may start with
    MaxToggles,     \* bound: changes of the tenant's status in the cloud
    Prior,          \* what only a menu of an earlier installation shows
    Nobody          \* no worker

ASSUME BoundsAssumption ==
    /\ MaxVersion \in Nat /\ MaxAttempts \in Nat \ {0} /\ Batch \in Nat \ {0} /\ MaxToggles \in Nat
    \* The edits made before the menu was first published, the version an
    \* earlier installation has reached, whether the tenant is active (and the
    \* local API has a token), and how many of its changes are behind it.
    /\ Installations \subseteq [edits : SUBSET Edits, version : Nat,
                               active : BOOLEAN, toggles : 0..MaxToggles]
ASSUME DisjointAssumption ==
    /\ Edits \cap Workers = {} /\ Nobody \notin Workers
    /\ Prior \notin Edits

VARIABLES
    committed,  \* edits whose transaction has committed
    txn,        \* txn[x]: the open transaction of an edit or of a worker
    seq,        \* menu_projection_sequences.version, 0 without a row
    menu,       \* menu[v]: payload of the outbox row of version v
    origin,     \* origin[v]: who wrote row v and the sequence when it began
    status, attempts, due, reason,   \* the columns of row v
    at, job, left, answer,           \* a worker's tick
    hasToken,   \* an operational license and a stored sync token
    requests,   \* pushes on their way to or inside the cloud
    cloud,      \* the tenant's row of menu_publications
    tenantActive, toggles

edits == <<committed, txn, seq, menu, origin>>
columns == <<status, attempts, due, reason>>
ticks == <<at, job, left, answer>>
remote == <<requests, cloud>>
tenant == <<tenantActive, toggles>>
vars == <<edits, columns, ticks, hasToken, remote, tenant>>

Versions == 1..MaxVersion
Writers == Edits \cup Workers
Menus == SUBSET Edits
Open == {"PENDING", "LEASED", "RETRY"}
Status == Open \cup {"ABSENT", "ACKED", "DEAD"}
\* lastError of a DEAD row: a version that is stale or in conflict (409), or
\* anything else (refused or too large a body, attempts exhausted).
Reason == {"none", "conflict", "other"}
Answer == {"none", "ok", "conflict", "refused", "error"}
Tick == {"idle", "sweep", "claim", "push", "await", "settle"}
Transaction == [open : BOOLEAN, base : Menus, began : Nat]
Request == [version : Versions, menu : Menus, authorised : BOOLEAN,
            from : Workers \cup {Nobody}]
NoTxn == [open |-> FALSE, base |-> {}, began |-> 0]

TypeOK ==
    /\ committed \in Menus
    /\ txn \in [Writers -> Transaction]
    /\ seq \in Nat
    /\ menu \in [Versions -> Menus]
    /\ origin \in [Versions -> [by : Writers \cup {Nobody}, began : Nat]]
    /\ status \in [Versions -> Status]
    /\ attempts \in [Versions -> 0..MaxAttempts]
    /\ due \in [Versions -> BOOLEAN]
    /\ reason \in [Versions -> Reason]
    /\ at \in [Workers -> Tick]
    /\ job \in [Workers -> [version : Versions, attempt : 1..MaxAttempts]
                              \cup {Nobody}]
    /\ left \in [Workers -> 0..Batch]
    /\ answer \in [Workers -> Answer]
    /\ hasToken \in BOOLEAN
    /\ requests \in SUBSET Request
    /\ cloud \in [version : Nat, menu : Menus \cup {{Prior}}, hidden : BOOLEAN]
    /\ tenantActive \in BOOLEAN
    /\ toggles \in 0..MaxToggles

Init == \E i \in Installations :
    /\ committed = i.edits
    /\ txn = [x \in Writers |-> NoTxn]
    /\ seq = 0
    /\ menu = [v \in Versions |-> {}]
    /\ origin = [v \in Versions |-> [by |-> Nobody, began |-> 0]]
    /\ status = [v \in Versions |-> "ABSENT"]
    /\ attempts = [v \in Versions |-> 0]
    /\ due = [v \in Versions |-> FALSE]
    /\ reason = [v \in Versions |-> "none"]
    /\ at = [w \in Workers |-> "idle"]
    /\ job = [w \in Workers |-> Nobody]
    /\ left = [w \in Workers |-> 0]
    /\ answer = [w \in Workers |-> "none"]
    /\ hasToken = i.active
    /\ requests = {}
    /\ cloud = [version |-> i.version, menu |-> {Prior}, hidden |-> FALSE]
    /\ tenantActive = i.active
    /\ toggles = i.toggles

-----------------------------------------------------------------------------
\* The transaction of an edit, and the one of ensureInitialProjection

Change(x) == {x} \cap Edits

\* The snapshot is read by several queries under READ COMMITTED: it has what
\* was committed before the first, the change of its own transaction, and any
\* part of what was committed by the last (seen).
Payload(x, seen) == txn[x].base \cup Change(x) \cup seen

\* A worker opens one only while the tenant has no sequence row.
MayBegin(x) ==
    IF x \in Workers THEN at[x] = "sweep" /\ seq = 0 ELSE x \notin committed

\* Mutation: the snapshot is read from a replica that may lag behind.
BeginOnReplica(x) ==
    /\ ~txn[x].open
    /\ MayBegin(x)
    /\ \E arrived \in SUBSET committed :
          txn' = [txn EXCEPT ![x] = [open |-> TRUE, base |-> arrived,
                                     began |-> seq]]
    /\ UNCHANGED <<committed, seq, menu, origin, columns, ticks, hasToken,
                   remote, tenant>>

\* The first query of the snapshot runs.
Begin(x) ==
    /\ ~txn[x].open
    /\ MayBegin(x)
    /\ txn' = [txn EXCEPT ![x] = [open |-> TRUE, base |-> committed,
                                  began |-> seq]]
    /\ UNCHANGED <<committed, seq, menu, origin, columns, ticks, hasToken,
                   remote, tenant>>

\* The upsert that numbers the snapshot locks the sequence row until the
\* commit: versions have the order of the commits, and a transaction that
\* fails after it gives its number back.
Commit(x) ==
    /\ txn[x].open
    /\ seq + 1 \in Versions
    /\ committed' = committed \cup Change(x)
    /\ seq' = seq + 1
    /\ \E seen \in SUBSET (committed \ txn[x].base) :
          menu' = [menu EXCEPT ![seq + 1] = Payload(x, seen)]
    /\ origin' = [origin EXCEPT ![seq + 1] = [by |-> x, began |-> txn[x].began]]
    /\ status' = [status EXCEPT ![seq + 1] = "PENDING"]
    /\ due' = [due EXCEPT ![seq + 1] = TRUE]
    /\ txn' = [txn EXCEPT ![x] = NoTxn]
    /\ UNCHANGED <<attempts, reason, ticks, hasToken, remote, tenant>>

Rollback(x) ==
    /\ txn[x].open
    /\ txn' = [txn EXCEPT ![x] = NoTxn]
    /\ UNCHANGED <<committed, seq, menu, origin, columns, ticks, hasToken,
                   remote, tenant>>

-----------------------------------------------------------------------------
\* A tick of a worker

\* Mutation: a lease that has expired is not taken over.
ClaimableFree(v) ==
    status[v] \in {"PENDING", "RETRY"} /\ attempts[v] < MaxAttempts /\ due[v]

Claimable(v) == status[v] \in Open /\ attempts[v] < MaxAttempts /\ due[v]

\* The lease token is fresh with every claim: the attempt number stands for it.
Holds(w) ==
    /\ status[job[w].version] = "LEASED"
    /\ attempts[job[w].version] = job[w].attempt

TickStart(w) ==
    /\ at[w] = "idle"
    /\ hasToken
    /\ at' = [at EXCEPT ![w] = "sweep"]
    /\ UNCHANGED <<edits, columns, job, left, answer, hasToken, remote, tenant>>

\* markExhaustedDead, after ensureInitialProjection: it looks at the attempts,
\* not at the lease.
Sweep(w) ==
    /\ at[w] = "sweep"
    /\ seq # 0
    /\ ~txn[w].open
    /\ LET exhausted == {v \in Versions : /\ status[v] \in Open
                                          /\ attempts[v] >= MaxAttempts}
       IN  /\ status' = [v \in Versions |-> IF v \in exhausted THEN "DEAD"
                                                               ELSE status[v]]
           /\ reason' = [v \in Versions |-> IF v \in exhausted THEN "other"
                                                               ELSE reason[v]]
    /\ at' = [at EXCEPT ![w] = "claim"]
    /\ left' = [left EXCEPT ![w] = Batch]
    /\ UNCHANGED <<edits, attempts, due, job, answer, hasToken, remote, tenant>>

\* The claimable row of the lowest version.
Claim(w) ==
    /\ at[w] = "claim"
    /\ left[w] > 0
    /\ \E v \in Versions :
          /\ Claimable(v)
          /\ \A u \in Versions : Claimable(u) => v <= u
          /\ status' = [status EXCEPT ![v] = "LEASED"]
          /\ attempts' = [attempts EXCEPT ![v] = @ + 1]
          /\ due' = [due EXCEPT ![v] = FALSE]
          /\ job' = [job EXCEPT ![w] = [version |-> v,
                                        attempt |-> attempts[v] + 1]]
    /\ at' = [at EXCEPT ![w] = "push"]
    /\ UNCHANGED <<edits, reason, left, answer, hasToken, remote, tenant>>

NothingToClaim(w) ==
    /\ at[w] = "claim"
    /\ left[w] = 0 \/ \A v \in Versions : ~Claimable(v)
    /\ at' = [at EXCEPT ![w] = "idle"]
    /\ left' = [left EXCEPT ![w] = 0]
    /\ UNCHANGED <<edits, columns, job, answer, hasToken, remote, tenant>>

\* The POST leaves with the sync token read at the start of the tick.
Push(w) ==
    /\ at[w] = "push"
    /\ at' = [at EXCEPT ![w] = "await"]
    /\ requests' = requests \cup
          {[version |-> job[w].version, menu |-> menu[job[w].version],
            authorised |-> FALSE, from |-> w]}
    /\ UNCHANGED <<edits, columns, job, left, answer, hasToken, cloud, tenant>>

\* A body over 512 KiB is not sent.
PushTooLarge(w) ==
    /\ at[w] = "push"
    /\ at' = [at EXCEPT ![w] = "settle"]
    /\ answer' = [answer EXCEPT ![w] = "refused"]
    /\ UNCHANGED <<edits, columns, job, left, hasToken, remote, tenant>>

\* What w has sent goes on without it.
Abandoned(w) ==
    {IF r.from = w THEN [r EXCEPT !.from = Nobody] ELSE r : r \in requests}

\* The fetch is aborted after twenty seconds; the request may still arrive.
Timeout(w) ==
    /\ at[w] = "await"
    /\ at' = [at EXCEPT ![w] = "settle"]
    /\ answer' = [answer EXCEPT ![w] = "error"]
    /\ requests' = Abandoned(w)
    /\ UNCHANGED <<edits, columns, job, left, hasToken, cloud, tenant>>

\* What the row becomes on answer a, and why: a 200 acknowledges it, 400, 409,
\* 413 and 422 bury it, anything else is retried up to maxAttempts.
Settled(a, n) ==
    CASE a = "ok" -> <<"ACKED", "none">>
      [] a = "conflict" -> <<"DEAD", "conflict">>
      [] a = "refused" -> <<"DEAD", "other">>
      [] a = "error" /\ n < MaxAttempts -> <<"RETRY", "none">>
      [] a = "error" /\ n >= MaxAttempts -> <<"DEAD", "other">>

\* Only the holder of the lease writes the outcome.  An answer of 200 whose
\* body or whose update fails is retried like an error.
Settle(w) ==
    LET v == job[w].version IN
    /\ at[w] = "settle"
    /\ \E a \in {answer[w]} \cup (IF answer[w] = "ok" THEN {"error"} ELSE {}) :
          IF Holds(w)
          THEN LET outcome == Settled(a, job[w].attempt) IN
               /\ status' = [status EXCEPT ![v] = outcome[1]]
               /\ reason' = [reason EXCEPT ![v] = outcome[2]]
               /\ due' = [due EXCEPT ![v] = FALSE]
          ELSE UNCHANGED <<status, reason, due>>
    /\ at' = [at EXCEPT ![w] = "claim"]
    /\ left' = [left EXCEPT ![w] = @ - 1]
    /\ job' = [job EXCEPT ![w] = Nobody]
    /\ answer' = [answer EXCEPT ![w] = "none"]
    /\ UNCHANGED <<edits, attempts, hasToken, remote, tenant>>

\* A query of the tick throws, or the process stops: the tick is over, its
\* transaction is rolled back and its lease stays until it expires.
TickAborts(w) ==
    /\ at[w] # "idle"
    /\ at' = [at EXCEPT ![w] = "idle"]
    /\ job' = [job EXCEPT ![w] = Nobody]
    /\ left' = [left EXCEPT ![w] = 0]
    /\ answer' = [answer EXCEPT ![w] = "none"]
    /\ txn' = [txn EXCEPT ![w] = NoTxn]
    /\ requests' = Abandoned(w)
    /\ UNCHANGED <<committed, seq, menu, origin, columns, hasToken, cloud,
                   tenant>>

\* The lease of a row expires, or the delay of its retry.
DeadlinePasses(v) ==
    /\ status[v] \in {"LEASED", "RETRY"}
    /\ ~due[v]
    /\ due' = [due EXCEPT ![v] = TRUE]
    /\ UNCHANGED <<edits, status, attempts, reason, ticks, hasToken, remote,
                   tenant>>

-----------------------------------------------------------------------------
\* The cloud

\* r leaves the cloud with answer a for the worker that still waits for it.
Answered(r, a) ==
    /\ requests' = requests \ {r}
    /\ IF r.from = Nobody
       THEN UNCHANGED <<at, answer>>
       ELSE /\ at' = [at EXCEPT ![r.from] = "settle"]
            /\ answer' = [answer EXCEPT ![r.from] = a]
    /\ UNCHANGED <<job, left>>

\* Mutation: the push is authenticated by its token alone.
AuthoriseByToken(r) ==
    /\ r \in requests
    /\ ~r.authorised
    /\ requests' = (requests \ {r}) \cup {[r EXCEPT !.authorised = TRUE]}
    /\ UNCHANGED <<edits, columns, ticks, hasToken, cloud, tenant>>

\* authenticateCloudMenuSync: the license and the tenant are active now.
Authorise(r) ==
    /\ r \in requests
    /\ ~r.authorised
    /\ tenantActive
    /\ requests' = (requests \ {r}) \cup {[r EXCEPT !.authorised = TRUE]}
    /\ UNCHANGED <<edits, columns, ticks, hasToken, cloud, tenant>>

\* 401 for credentials, 5xx, or the connection breaks; 400, 413 and 422 for
\* the body.  Nothing is applied.
Reject(r) ==
    /\ r \in requests
    /\ Answered(r, "error") \/ Answered(r, "refused")
    /\ UNCHANGED <<edits, columns, hasToken, cloud, tenant>>

\* Mutation: versions are not compared, the last push wins.
ApplyLastWins(r) ==
    /\ r \in requests
    /\ r.authorised
    /\ cloud' = [version |-> r.version, menu |-> r.menu, hidden |-> FALSE]
    /\ Answered(r, "ok")
    /\ UNCHANGED <<edits, columns, hasToken, tenant>>

\* Mutation: a publication of the same version is acknowledged unseen.
ApplySameVersion(r) ==
    /\ r \in requests
    /\ r.authorised
    /\ IF r.version > cloud.version
       THEN cloud' = [version |-> r.version, menu |-> r.menu, hidden |-> FALSE]
       ELSE UNCHANGED cloud
    /\ Answered(r, IF r.version < cloud.version THEN "conflict" ELSE "ok")
    /\ UNCHANGED <<edits, columns, hasToken, tenant>>

\* applyMenuPublication, serialised per tenant by an advisory lock: a newer
\* version replaces the row and reveals it; the same version is acknowledged
\* again if it is the same menu; anything else is a conflict.
Apply(r) ==
    /\ r \in requests
    /\ r.authorised
    /\ IF r.version > cloud.version
       THEN /\ cloud' = [version |-> r.version, menu |-> r.menu,
                         hidden |-> FALSE]
            /\ Answered(r, "ok")
       ELSE /\ Answered(r, IF r.version = cloud.version /\ r.menu = cloud.menu
                           THEN "ok" ELSE "conflict")
            /\ UNCHANGED cloud
    /\ UNCHANGED <<edits, columns, hasToken, tenant>>

\* An administrator deletes the tenant: it is inactive and its menu hidden.
DeleteTenant ==
    /\ toggles < MaxToggles
    /\ tenantActive' = FALSE
    /\ toggles' = toggles + 1
    /\ cloud' = [cloud EXCEPT !.hidden = @ \/ cloud.version > 0]
    /\ UNCHANGED <<edits, columns, ticks, hasToken, requests>>

\* An administrator edits isActive, which leaves the publication as it is.
SetTenantActive ==
    /\ toggles < MaxToggles
    /\ tenantActive' = ~tenantActive
    /\ toggles' = toggles + 1
    /\ UNCHANGED <<edits, columns, ticks, hasToken, remote>>

\* The heartbeat brings a sync token, or takes it away.
Heartbeat ==
    /\ hasToken' = tenantActive
    /\ hasToken' # hasToken
    /\ UNCHANGED <<edits, columns, ticks, remote, tenant>>

-----------------------------------------------------------------------------
Edit == \E x \in Writers :
    Begin(x) \/ Commit(x) \/ Rollback(x)
Ticking(w) ==
    \/ TickStart(w) \/ Sweep(w) \/ Claim(w)
    \/ NothingToClaim(w) \/ Push(w) \/ PushTooLarge(w) \/ Timeout(w)
    \/ Settle(w)
Cloud ==
    \/ \E r \in requests : Authorise(r) \/ Reject(r) \/ Apply(r)
    \/ DeleteTenant \/ SetTenantActive
Next ==
    \/ Edit
    \/ \E w \in Workers : Ticking(w) \/ TickAborts(w)
    \/ \E v \in Versions : DeadlinePasses(v)
    \/ Cloud
    \/ Heartbeat

\* The timer starts ticks, queries and fetches end, transactions end, leases
\* expire.  A tick may be cut short again and again: strong fairness asks only
\* that some tick gets as far as the sweep, and some as far as a claim.
Fairness ==
    /\ \A x \in Writers :
          WF_vars(Commit(x) \/ Rollback(x))
    /\ \A w \in Workers :
          /\ WF_vars(TickStart(w) \/ Begin(w) \/ Push(w)
                       \/ PushTooLarge(w) \/ Timeout(w) \/ NothingToClaim(w))
          /\ SF_vars(Sweep(w)) /\ SF_vars(Claim(w)) /\ WF_vars(Settle(w))
    /\ \A v \in Versions : WF_vars(DeadlinePasses(v))

Spec == Init /\ [][Next]_vars /\ Fairness
-----------------------------------------------------------------------------
\* A row is ACKED only when the cloud shows that menu or a newer version, and
\* dead by conflict only when the cloud has a newer version, or the same one
\* from an earlier installation: an acknowledgement that is late, lost or of
\* another lease never settles a row the cloud does not back
\* (MenuProjectionRuntime.push against applyMenuPublication).
SettledRows == \A v \in Versions :
    /\ status[v] = "ACKED" =>
          \/ cloud.version > v
          \/ cloud.version = v /\ cloud.menu = menu[v]
    /\ reason[v] = "conflict" =>
          \/ cloud.version > v
          \/ cloud.version = v /\ cloud.menu # menu[v]

\* e was committed before the transaction of version v began: with a version
\* that the sequence had reached by then, or before there were versions.
Before(e, v) == \A u \in 1..seq : origin[u].by = e => u <= origin[v].began

\* An edit is in the publication that its own transaction enqueued and in all
\* whose transaction began after it had committed, an edit that is older than
\* the first publication in all: only a transaction that overlaps it can
\* publish a newer version without it (enqueueMenuProjection: the payload is
\* read before the version is taken, so the order of the versions is that of
\* the commits and not that of the snapshots).
PublicationCarriesEdits == \A v \in 1..seq : \A e \in committed :
    e = origin[v].by \/ Before(e, v) => e \in menu[v]

\* Once a tenant is deleted and the pushes authenticated before have left the
\* cloud, its menu stays hidden until an administrator changes the tenant
\* again: only a push that was already past authenticateCloudMenuSync can clear
\* disabledAt, which applyMenuPublication does without looking at the tenant.
Shut(n) ==
    /\ toggles = n
    /\ cloud.hidden /\ ~tenantActive
    /\ \A r \in requests : ~r.authorised
DisabledStaysHidden == \A n \in 1..MaxToggles :
    [](Shut(n) => [](toggles = n => cloud.hidden))

Register == INSTANCE PublicationRegister WITH
    published <- {[version |-> v, menu |-> menu[v]] : v \in 1..seq},
    shown <- cloud

\* The cloud shows only what an edit has published, versions only grow, and a
\* hidden menu reappears only with a newer version: retries, late pushes and
\* crashes of workers are not visible to a reader of the menu.
ShowsPublished == Register!RegisterSpec

\* While the local API has a sync token, every publication is acknowledged or
\* dead in the end, whatever ticks and answers are lost on the way.
Delivered == \A v \in Versions :
    (status[v] \in Open) ~> (status[v] \notin Open \/ ~hasToken)
=============================================================================
