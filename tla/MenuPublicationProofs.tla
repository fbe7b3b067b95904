----------------------- MODULE MenuPublicationProofs -----------------------
(***************************************************************************)
(* What the publication of a menu guarantees for any number of edits,      *)
(* workers, versions and attempts - takeovers of expired leases included.  *)
(* The argument follows a version from its row to the cloud: no row above  *)
(* the sequence is touched, a push carries the payload of its row, a       *)
(* worker waits for one push at a time, and what the cloud has once        *)
(* overtaken stays overtaken.                                              *)
(***************************************************************************)
EXTENDS MenuPublication, TLAPS

Job == [version : Versions, attempt : 1..MaxAttempts]
Origin == [by : Writers \cup {Nobody}, began : Nat]
CloudRow == [version : Nat, menu : Menus \cup {{Prior}}, hidden : BOOLEAN]

\* The type invariant by groups of variables.
EditsOK ==
    /\ committed \in Menus
    /\ txn \in [Writers -> Transaction]
    /\ seq \in 0..MaxVersion
    /\ menu \in [Versions -> Menus]
    /\ origin \in [Versions -> Origin]
ColumnsOK ==
    /\ status \in [Versions -> Status]
    /\ attempts \in [Versions -> 0..MaxAttempts]
    /\ due \in [Versions -> BOOLEAN]
    /\ reason \in [Versions -> Reason]
TicksOK ==
    /\ at \in [Workers -> Tick]
    /\ job \in [Workers -> Job \cup {Nobody}]
    /\ left \in [Workers -> 0..Batch]
    /\ answer \in [Workers -> Answer]
RemoteOK ==
    /\ requests \in SUBSET Request
    /\ cloud \in CloudRow
    /\ toggles \in 0..MaxToggles
FlagsOK == hasToken \in BOOLEAN /\ tenantActive \in BOOLEAN

\* The cloud shows version v, or has gone beyond it; the cloud has a version
\* that v cannot replace.
Backed(v) == cloud.version > v \/ (cloud.version = v /\ cloud.menu = menu[v])
Beaten(v) == cloud.version > v \/ (cloud.version = v /\ cloud.menu # menu[v])

\* Only numbered snapshots have a row.
RowsInv == \A v \in Versions : v > seq => status[v] = "ABSENT" /\ reason[v] = "none"

\* What a worker in the middle of a push knows.
Pushing(w) == at[w] \in {"push", "await", "settle"}
TicksInv == \A w \in Workers :
    /\ Pushing(w) => job[w] \in Job /\ job[w].version <= seq /\ left[w] > 0
    /\ at[w] = "settle" =>
          /\ answer[w] # "none"
          /\ answer[w] = "ok" => Backed(job[w].version)
          /\ answer[w] = "conflict" => Beaten(job[w].version)

\* A push carries the payload of its row; a worker waits for one at a time.
PushesInv ==
    /\ \A r \in requests :
          /\ r.version <= seq /\ r.menu = menu[r.version]
          /\ r.from # Nobody => at[r.from] = "await" /\ job[r.from].version = r.version
    /\ \A r, s \in requests : r.from = s.from /\ r.from # Nobody => r = s

\* An open transaction has every edit that was committed before it began: one
\* that it has not was numbered since.
OriginInv ==
    /\ \A u \in 1..seq : /\ origin[u].began < u
                         /\ origin[u].by \in Edits => origin[u].by \in committed
    /\ \A x \in Writers : txn[x].open =>
          /\ txn[x].base \subseteq committed
          /\ txn[x].began <= seq
          /\ \A e \in committed \ txn[x].base :
                \E u \in 1..seq : u > txn[x].began /\ origin[u].by = e

IInv ==
    /\ EditsOK /\ ColumnsOK /\ TicksOK /\ RemoteOK /\ FlagsOK
    /\ RowsInv /\ TicksInv /\ PushesInv /\ OriginInv
    /\ SettledRows /\ PublicationCarriesEdits

-----------------------------------------------------------------------------
LEMMA InitIInv == Init => IInv
<1> SUFFICES ASSUME Init PROVE IInv
  OBVIOUS
<1>0. PICK i \in Installations :
        /\ committed = i.edits
        /\ hasToken = i.active /\ tenantActive = i.active
        /\ cloud = [version |-> i.version, menu |-> {Prior}, hidden |-> FALSE]
        /\ toggles = i.toggles
  BY DEF Init
<1> i \in [edits : SUBSET Edits, version : Nat, active : BOOLEAN,
          toggles : 0..MaxToggles]
  BY BoundsAssumption
<1> USE BoundsAssumption, <1>0 DEF Init
<1>1. EditsOK
  BY DEF EditsOK, Menus, Transaction, NoTxn, Origin, Versions
<1>2. ColumnsOK
  BY DEF ColumnsOK, Status, Open, Reason
<1>3. TicksOK
  BY DEF TicksOK, Tick, Answer
<1>4. RemoteOK
  BY DEF RemoteOK, CloudRow
<1>5. FlagsOK
  BY Zenon DEF FlagsOK
<1>6. RowsInv /\ TicksInv /\ PushesInv
  BY DEF RowsInv, TicksInv, Pushing, PushesInv
<1>7. OriginInv /\ PublicationCarriesEdits
  BY DEF OriginInv, NoTxn, PublicationCarriesEdits
<1>8. SettledRows
  BY DEF SettledRows
<1> QED
  BY <1>1, <1>2, <1>3, <1>4, <1>5, <1>6, <1>7, <1>8 DEF IInv

-----------------------------------------------------------------------------
LEMMA FlagsStep == ASSUME FlagsOK, [Next]_vars PROVE FlagsOK'
<1> USE DEF FlagsOK, tenant
<1>1. CASE Edit
  BY <1>1, Zenon DEF Edit, Begin, Commit, Rollback
<1>2. ASSUME NEW w \in Workers, Ticking(w) \/ TickAborts(w) PROVE FlagsOK'
  BY <1>2, Zenon DEF Ticking, TickStart, Sweep, Claim, NothingToClaim, Push, PushTooLarge,
     Timeout, Settle, TickAborts
<1>3. CASE \E v \in Versions : DeadlinePasses(v)
  BY <1>3, Zenon DEF DeadlinePasses
<1>4. CASE Cloud
  BY <1>4, Zenon DEF Cloud, Authorise, Reject, Apply, DeleteTenant, SetTenantActive
<1>5. CASE Heartbeat
  BY <1>5, Zenon DEF Heartbeat
<1>6. CASE UNCHANGED vars
  BY <1>6, Zenon DEF vars
<1> QED
  BY <1>1, <1>2, <1>3, <1>4, <1>5, <1>6 DEF Next

LEMMA EditsStep == ASSUME EditsOK, [Next]_vars PROVE EditsOK'
<1> USE BoundsAssumption DEF EditsOK, edits
<1>1. CASE UNCHANGED edits
  BY <1>1
<1>2. ASSUME NEW x \in Writers, Begin(x) PROVE EditsOK'
  BY <1>2 DEF Begin, Transaction, Menus
<1>3. ASSUME NEW x \in Writers, Commit(x) PROVE EditsOK'
  <2> DEFINE n == seq + 1
  <2>1. n \in Versions /\ txn[x] \in Transaction
    BY <1>3 DEF Commit
  <2>2. PICK seen \in SUBSET (committed \ txn[x].base) :
           menu' = [menu EXCEPT ![n] = Payload(x, seen)]
    BY <1>3 DEF Commit
  <2>3. Payload(x, seen) \in Menus
    BY <2>1, <2>2 DEF Payload, Change, Menus, Transaction
  <2>4. committed' \in Menus
    BY <1>3 DEF Commit, Change, Menus
  <2>5. origin' \in [Versions -> Origin]
    BY <1>3, <2>1 DEF Commit, Origin, Transaction
  <2>6. txn' \in [Writers -> Transaction]
    BY <1>3 DEF Commit, NoTxn, Transaction, Menus
  <2>7. menu' \in [Versions -> Menus]
    BY <2>2, <2>3
  <2> QED BY <1>3, <2>1, <2>4, <2>5, <2>6, <2>7 DEF Commit, Versions
<1>4. ASSUME NEW x \in Writers, Rollback(x) PROVE EditsOK'
  BY <1>4 DEF Rollback, NoTxn, Transaction, Menus
<1>5. ASSUME NEW w \in Workers, TickAborts(w) PROVE EditsOK'
  BY <1>5 DEF TickAborts, NoTxn, Transaction, Menus, Writers
<1>6. ASSUME NEW w \in Workers, Ticking(w) PROVE EditsOK'
  <2>1. UNCHANGED edits
    BY <1>6 DEF Ticking, TickStart, Sweep, Claim, NothingToClaim, Push, PushTooLarge,
       Timeout, Settle
  <2> QED BY <1>1, <2>1
<1>7. CASE Cloud
  <2>1. UNCHANGED edits
    BY <1>7 DEF Cloud, Authorise, Reject, Apply, DeleteTenant, SetTenantActive
  <2> QED BY <1>1, <2>1
<1>8. CASE (\E v \in Versions : DeadlinePasses(v)) \/ Heartbeat \/ UNCHANGED vars
  <2>1. UNCHANGED edits
    BY <1>8 DEF DeadlinePasses, Heartbeat, vars
  <2> QED BY <1>1, <2>1
<1> QED
  BY <1>2, <1>3, <1>4, <1>5, <1>6, <1>7, <1>8 DEF Next, Edit

LEMMA ColumnsStep == ASSUME IInv, [Next]_vars PROVE ColumnsOK'
<1> USE BoundsAssumption DEF IInv, ColumnsOK, columns
<1>1. CASE UNCHANGED columns
  BY <1>1
<1>2. ASSUME NEW x \in Writers, Commit(x) PROVE ColumnsOK'
  BY <1>2 DEF Commit, Status, Open
<1>3. ASSUME NEW w \in Workers, Sweep(w) PROVE ColumnsOK'
  BY <1>3 DEF Sweep, Status, Reason
<1>4. ASSUME NEW w \in Workers, Claim(w) PROVE ColumnsOK'
  <2>1. PICK v \in Versions :
          /\ Claimable(v)
          /\ status' = [status EXCEPT ![v] = "LEASED"]
          /\ attempts' = [attempts EXCEPT ![v] = @ + 1]
          /\ due' = [due EXCEPT ![v] = FALSE]
    BY <1>4 DEF Claim
  <2>2. attempts[v] + 1 \in 0..MaxAttempts
    BY <2>1 DEF Claimable
  <2> QED BY <1>4, <2>1, <2>2 DEF Claim, Status, Open
<1>5. ASSUME NEW w \in Workers, Settle(w) PROVE ColumnsOK'
  <2> DEFINE v == job[w].version
             n == job[w].attempt
  <2>1. job[w] \in Job /\ at[w] = "settle" /\ answer[w] # "none"
    BY <1>5 DEF Settle, TicksInv, Pushing
  <2>2. v \in Versions /\ n \in Nat /\ answer[w] \in {"ok", "conflict", "refused", "error"}
    BY <2>1 DEF Job, TicksOK, Answer
  <2>3. PICK a \in {answer[w]} \cup (IF answer[w] = "ok" THEN {"error"} ELSE {}) :
          IF Holds(w)
          THEN /\ status' = [status EXCEPT ![v] = Settled(a, n)[1]]
               /\ reason' = [reason EXCEPT ![v] = Settled(a, n)[2]]
               /\ due' = [due EXCEPT ![v] = FALSE]
          ELSE UNCHANGED <<status, reason, due>>
    BY <1>5 DEF Settle
  <2>4. Settled(a, n)[1] \in Status /\ Settled(a, n)[2] \in Reason
    BY <2>2 DEF Settled, Status, Open, Reason
  <2> QED BY <1>5, <2>2, <2>3, <2>4 DEF Settle
<1>6. ASSUME NEW v \in Versions, DeadlinePasses(v) PROVE ColumnsOK'
  BY <1>6 DEF DeadlinePasses
<1>7. CASE \E x \in Writers : Begin(x) \/ Rollback(x)
  <2>1. UNCHANGED columns
    BY <1>7 DEF Begin, Rollback
  <2> QED BY <1>1, <2>1
<1>8. ASSUME NEW w \in Workers, TickStart(w) \/ NothingToClaim(w) \/ Push(w)
               \/ PushTooLarge(w) \/ Timeout(w) \/ TickAborts(w)
      PROVE  ColumnsOK'
  <2>1. UNCHANGED columns
    BY <1>8 DEF TickStart, NothingToClaim, Push, PushTooLarge, Timeout, TickAborts
  <2> QED BY <1>1, <2>1
<1>9. CASE Cloud
  <2>1. UNCHANGED columns
    BY <1>9 DEF Cloud, Authorise, Reject, Apply, DeleteTenant, SetTenantActive
  <2> QED BY <1>1, <2>1
<1>10. CASE Heartbeat \/ UNCHANGED vars
  <2>1. UNCHANGED columns
    BY <1>10 DEF Heartbeat, vars
  <2> QED BY <1>1, <2>1
<1> QED
  BY <1>2, <1>3, <1>4, <1>5, <1>6, <1>7, <1>8, <1>9, <1>10 DEF Next, Edit, Ticking

LEMMA TicksStep == ASSUME IInv, [Next]_vars PROVE TicksOK'
<1> USE BoundsAssumption DEF IInv, TicksOK, ticks
<1>1. CASE UNCHANGED ticks
  BY <1>1
<1>2. CASE Edit
  <2>1. UNCHANGED ticks
    BY <1>2 DEF Edit, Begin, Commit, Rollback
  <2> QED BY <1>1, <2>1
<1>3. ASSUME NEW w \in Workers, TickStart(w) \/ Sweep(w) \/ NothingToClaim(w) PROVE TicksOK'
  BY <1>3 DEF TickStart, Sweep, NothingToClaim, Tick
<1>4. ASSUME NEW w \in Workers, Claim(w) PROVE TicksOK'
  <2>1. PICK v \in Versions :
          /\ Claimable(v)
          /\ job' = [job EXCEPT ![w] = [version |-> v, attempt |-> attempts[v] + 1]]
    BY <1>4 DEF Claim
  <2>2. attempts[v] + 1 \in 1..MaxAttempts
    BY <2>1 DEF Claimable, ColumnsOK
  <2>3. job' \in [Workers -> Job \cup {Nobody}]
    BY <2>1, <2>2 DEF Job
  <2> QED BY <1>4, <2>3 DEF Claim, Tick
<1>5. ASSUME NEW w \in Workers, Push(w) \/ PushTooLarge(w) \/ Timeout(w) PROVE TicksOK'
  BY <1>5 DEF Push, PushTooLarge, Timeout, Tick, Answer
<1>6. ASSUME NEW w \in Workers, Settle(w) PROVE TicksOK'
  <2>1. left[w] - 1 \in 0..Batch
    BY <1>6 DEF Settle, TicksInv, Pushing
  <2> QED BY <1>6, <2>1 DEF Settle, Tick, Answer
<1>7. ASSUME NEW w \in Workers, TickAborts(w) PROVE TicksOK'
  BY <1>7 DEF TickAborts, Tick, Answer
<1>8. ASSUME NEW r \in requests, NEW a \in Answer, Answered(r, a) PROVE TicksOK'
  <2>1. r.from \in Workers \cup {Nobody}
    BY DEF RemoteOK, Request
  <2> QED BY <1>8, <2>1 DEF Answered, Tick
<1>9. ASSUME NEW r \in requests, Reject(r) PROVE TicksOK'
  BY <1>8, <1>9 DEF Reject, Answer
<1>10. ASSUME NEW r \in requests, Apply(r) PROVE TicksOK'
  BY <1>8, <1>10 DEF Apply, Answer
<1>11. CASE (\E r \in requests : Authorise(r)) \/ DeleteTenant \/ SetTenantActive
  <2>1. UNCHANGED ticks
    BY <1>11 DEF Authorise, DeleteTenant, SetTenantActive
  <2> QED BY <1>1, <2>1
<1>12. CASE (\E v \in Versions : DeadlinePasses(v)) \/ Heartbeat \/ UNCHANGED vars
  <2>1. UNCHANGED ticks
    BY <1>12 DEF DeadlinePasses, Heartbeat, vars
  <2> QED BY <1>1, <2>1
<1> QED
  BY <1>2, <1>3, <1>4, <1>5, <1>6, <1>7, <1>9, <1>10, <1>11, <1>12 DEF Next, Ticking, Cloud

LEMMA AbandonedTypes == ASSUME NEW w, requests \in SUBSET Request PROVE Abandoned(w) \in SUBSET Request
  BY DEF Abandoned, Request

LEMMA RemoteStep == ASSUME IInv, [Next]_vars PROVE RemoteOK'
<1> USE BoundsAssumption DEF IInv, RemoteOK, remote, tenant
<1>1. CASE UNCHANGED <<remote, toggles>>
  BY <1>1
<1>2. CASE Edit
  <2>1. UNCHANGED <<remote, toggles>>
    BY <1>2 DEF Edit, Begin, Commit, Rollback
  <2> QED BY <1>1, <2>1
<1>3. ASSUME NEW w \in Workers, TickStart(w) \/ Sweep(w) \/ Claim(w) \/ NothingToClaim(w)
               \/ PushTooLarge(w) \/ Settle(w)
      PROVE  RemoteOK'
  <2>1. UNCHANGED <<remote, toggles>>
    BY <1>3 DEF TickStart, Sweep, Claim, NothingToClaim, PushTooLarge, Settle
  <2> QED BY <1>1, <2>1
<1>4. ASSUME NEW w \in Workers, Push(w) PROVE RemoteOK'
  <2>1. job[w] \in Job
    BY <1>4 DEF Push, TicksInv, Pushing
  <2>2. [version |-> job[w].version, menu |-> menu[job[w].version],
         authorised |-> FALSE, from |-> w] \in Request
    BY <2>1 DEF Job, Request, EditsOK
  <2> QED BY <1>4, <2>2 DEF Push
<1>5. ASSUME NEW w \in Workers, Timeout(w) \/ TickAborts(w) PROVE RemoteOK'
  BY <1>5, AbandonedTypes DEF Timeout, TickAborts
<1>6. ASSUME NEW r \in requests, Authorise(r) PROVE RemoteOK'
  <2>1. [r EXCEPT !.authorised = TRUE] \in Request
    BY DEF Request
  <2> QED BY <1>6, <2>1 DEF Authorise
<1>7. ASSUME NEW r \in requests, Reject(r) PROVE RemoteOK'
  BY <1>7 DEF Reject, Answered
<1>8. ASSUME NEW r \in requests, Apply(r) PROVE RemoteOK'
  <2>1. [version |-> r.version, menu |-> r.menu, hidden |-> FALSE] \in CloudRow
    BY DEF CloudRow, Request, Versions
  <2>2. cloud' \in CloudRow
    BY <1>8, <2>1 DEF Apply
  <2> QED BY <1>8, <2>2 DEF Apply, Answered
<1>9. CASE DeleteTenant
  <2>1. (cloud.hidden \/ cloud.version > 0) \in BOOLEAN
    OBVIOUS
  <2>2. cloud' \in CloudRow
    BY <1>9, <2>1 DEF DeleteTenant, CloudRow
  <2>3. toggles' \in 0..MaxToggles
    BY <1>9 DEF DeleteTenant
  <2> QED BY <1>9, <2>2, <2>3 DEF DeleteTenant
<1>10. CASE SetTenantActive
  BY <1>10 DEF SetTenantActive
<1>11. CASE (\E v \in Versions : DeadlinePasses(v)) \/ Heartbeat \/ UNCHANGED vars
  <2>1. UNCHANGED <<remote, toggles>>
    BY <1>11 DEF DeadlinePasses, Heartbeat, vars
  <2> QED BY <1>1, <2>1
<1> QED
  BY <1>2, <1>3, <1>4, <1>5, <1>6, <1>7, <1>8, <1>9, <1>10, <1>11 DEF Next, Ticking, Cloud

-----------------------------------------------------------------------------
\* A numbered payload is fixed.
LEMMA PayloadFixed ==
    ASSUME IInv, [Next]_vars
    PROVE  /\ seq' >= seq /\ seq \in Nat /\ seq' \in Nat
           /\ \A v \in Versions : v <= seq => menu'[v] = menu[v] /\ origin'[v] = origin[v]
<1> USE DEF IInv, EditsOK, edits
<1>1. CASE UNCHANGED <<seq, menu, origin>>
  BY <1>1
<1>2. ASSUME NEW x \in Writers, Commit(x)
      PROVE  /\ seq' >= seq /\ seq \in Nat /\ seq' \in Nat
             /\ \A v \in Versions : v <= seq => menu'[v] = menu[v] /\ origin'[v] = origin[v]
  BY <1>2 DEF Commit
<1>3. CASE \E x \in Writers : Begin(x) \/ Rollback(x)
  <2>1. UNCHANGED <<seq, menu, origin>>
    BY <1>3 DEF Begin, Rollback
  <2> QED BY <1>1, <2>1
<1>4. ASSUME NEW w \in Workers, Ticking(w) \/ TickAborts(w) PROVE UNCHANGED <<seq, menu, origin>>
  BY <1>4 DEF Ticking, TickStart, Sweep, Claim, NothingToClaim, Push, PushTooLarge,
     Timeout, Settle, TickAborts
<1>5. CASE Cloud
  <2>1. UNCHANGED <<seq, menu, origin>>
    BY <1>5 DEF Cloud, Authorise, Reject, Apply, DeleteTenant, SetTenantActive
  <2> QED BY <1>1, <2>1
<1>6. CASE (\E v \in Versions : DeadlinePasses(v)) \/ Heartbeat \/ UNCHANGED vars
  <2>1. UNCHANGED <<seq, menu, origin>>
    BY <1>6 DEF DeadlinePasses, Heartbeat, vars
  <2> QED BY <1>1, <2>1
<1> QED
  BY <1>1, <1>2, <1>3, <1>4, <1>5, <1>6 DEF Next, Edit

\* The cloud only goes forward; what differs in version or menu stays so.
LEMMA CloudForward ==
    ASSUME IInv, [Next]_vars
    PROVE  \/ cloud'.version > cloud.version
           \/ cloud'.version = cloud.version /\ cloud'.menu = cloud.menu
<1> USE DEF IInv, RemoteOK, CloudRow, remote
<1>1. CASE UNCHANGED cloud
  BY <1>1
<1>2. CASE Edit
  BY <1>1, <1>2 DEF Edit, Begin, Commit, Rollback
<1>3. ASSUME NEW w \in Workers, Ticking(w) \/ TickAborts(w) PROVE UNCHANGED cloud
  BY <1>3 DEF Ticking, TickStart, Sweep, Claim, NothingToClaim, Push, PushTooLarge,
     Timeout, Settle, TickAborts
<1>4. ASSUME NEW r \in requests, Authorise(r) \/ Reject(r) PROVE UNCHANGED cloud
  BY <1>4 DEF Authorise, Reject
<1>5. ASSUME NEW r \in requests, Apply(r)
      PROVE  \/ cloud'.version > cloud.version
             \/ cloud'.version = cloud.version /\ cloud'.menu = cloud.menu
  BY <1>5 DEF Apply
<1>6. CASE DeleteTenant
  BY <1>6 DEF DeleteTenant
<1>7. CASE SetTenantActive \/ (\E v \in Versions : DeadlinePasses(v)) \/ Heartbeat
            \/ UNCHANGED vars
  BY <1>1, <1>7 DEF SetTenantActive, DeadlinePasses, Heartbeat, vars
<1> QED
  BY <1>1, <1>2, <1>3, <1>4, <1>5, <1>6, <1>7 DEF Next, Cloud

LEMMA VerdictsStay ==
    ASSUME IInv, [Next]_vars, NEW v \in Versions, v <= seq
    PROVE  /\ Backed(v) => cloud'.version > v \/ (cloud'.version = v /\ cloud'.menu = menu'[v])
           /\ Beaten(v) => cloud'.version > v \/ (cloud'.version = v /\ cloud'.menu # menu'[v])
<1>1. cloud.version \in Nat /\ v \in Nat
  BY DEF IInv, RemoteOK, CloudRow, Versions
<1>2. cloud'.version \in Nat
  BY RemoteStep DEF RemoteOK, CloudRow
<1>3. menu'[v] = menu[v]
  BY PayloadFixed
<1> QED BY <1>1, <1>2, <1>3, CloudForward DEF Backed, Beaten

-----------------------------------------------------------------------------
\* Versions have the order of the commits: what a transaction has not seen is
\* numbered above the sequence it began with.
LEMMA OriginStep == ASSUME IInv, [Next]_vars PROVE OriginInv' /\ PublicationCarriesEdits'
<1> USE DEF IInv, EditsOK, edits
<1>1. CASE UNCHANGED edits
  BY <1>1 DEF OriginInv, PublicationCarriesEdits, Before
<1>2. ASSUME NEW x \in Writers, Begin(x) PROVE OriginInv' /\ PublicationCarriesEdits'
  BY <1>2 DEF Begin, OriginInv, PublicationCarriesEdits, Before, Transaction
<1>3. ASSUME NEW x \in Writers, Commit(x) PROVE OriginInv' /\ PublicationCarriesEdits'
  <2> DEFINE n == seq + 1
  <2>1. n \in Versions /\ txn[x] \in Transaction /\ seq \in Nat /\ txn[x].open
    BY <1>3 DEF Commit
  <2>2. PICK seen \in SUBSET (committed \ txn[x].base) :
           menu' = [menu EXCEPT ![n] = Payload(x, seen)]
    BY <1>3 DEF Commit
  <2>3. /\ seq' = n /\ committed' = committed \cup Change(x)
        /\ origin' = [origin EXCEPT ![n] = [by |-> x, began |-> txn[x].began]]
        /\ txn' = [txn EXCEPT ![x] = NoTxn]
    BY <1>3 DEF Commit
  <2>4. /\ origin'[n].by = x /\ origin'[n].began = txn[x].began
        /\ txn[x].began \in Nat /\ txn[x].began <= seq
        /\ menu'[n] = txn[x].base \cup Change(x) \cup seen
    BY <2>1, <2>2, <2>3 DEF OriginInv, Transaction, Payload
  <2>5. \A v \in 1..seq : /\ v \in Versions /\ v # n
                          /\ origin'[v] = origin[v] /\ menu'[v] = menu[v]
    <3>1. \A v \in 1..seq : v \in Versions /\ v # n
      BY <2>1, BoundsAssumption DEF Versions
    <3> HIDE DEF n
    <3> QED BY <2>2, <2>3, <3>1
  <2>6. x \in Edits => x \in Change(x)
    BY DEF Change
  <2>7. \A v \in 1..seq' : v = n \/ v \in 1..seq
    BY <2>1, <2>3
  <2>8. OriginInv'
    <3>1. \A u \in 1..seq' : /\ origin'[u].began < u
                             /\ origin'[u].by \in Edits => origin'[u].by \in committed'
      BY <2>1, <2>3, <2>4, <2>5, <2>6, <2>7 DEF OriginInv
    <3>2. ASSUME NEW y \in Writers, txn'[y].open
          PROVE  /\ y # x /\ txn'[y] = txn[y] /\ txn[y] \in Transaction
                 /\ txn[y].open
      BY <3>2, <2>3 DEF NoTxn
    <3>3. ASSUME NEW y \in Writers, txn'[y].open
          PROVE  /\ txn'[y].base \subseteq committed'
                 /\ txn'[y].began <= seq'
                 /\ \A e \in committed' \ txn'[y].base :
                       \E u \in 1..seq' : u > txn'[y].began /\ origin'[u].by = e
      <4>1. txn[y].base \subseteq committed /\ txn[y].began <= seq /\ txn[y].began \in Nat
        BY <3>2, <3>3 DEF OriginInv, Transaction
      <4>2. ASSUME NEW e \in committed \ txn[y].base
            PROVE  \E u \in 1..seq' : u > txn[y].began /\ origin'[u].by = e
        <5>1. PICK u \in 1..seq : u > txn[y].began /\ origin[u].by = e
          BY <3>2, <3>3, <4>2 DEF OriginInv
        <5> QED BY <2>1, <2>3, <2>5, <5>1
      <4>3. ASSUME NEW e \in Change(x)
            PROVE  \E u \in 1..seq' : u > txn[y].began /\ origin'[u].by = e
        <5>1. e = x /\ n \in 1..seq' /\ n > txn[y].began
          BY <2>1, <2>3, <4>1, <4>3 DEF Change
        <5> QED BY <2>4, <5>1
      <4> QED BY <2>1, <2>3, <3>2, <3>3, <4>1, <4>2, <4>3
    <3> QED BY <3>1, <3>3 DEF OriginInv
  <2>9. PublicationCarriesEdits'
    <3> SUFFICES ASSUME NEW v \in 1..seq', NEW e \in committed',
                        e = origin'[v].by \/ Before(e, v)'
                 PROVE  e \in menu'[v]
      BY DEF PublicationCarriesEdits
    <3>1. CASE e \in Change(x) /\ v = n
      BY <2>4, <3>1
    <3>2. CASE e \in committed \ Change(x) /\ v = n
      <4>1. e # x
        BY <2>3, <3>2, BoundsAssumption, DisjointAssumption DEF Change, Menus
      <4>2. \A u \in 1..seq : origin[u].by = e => u <= txn[x].began
        BY <2>1, <2>3, <2>4, <2>5, <3>2, <4>1 DEF Before
      <4>3. e \in txn[x].base
        <5> SUFFICES ASSUME e \notin txn[x].base PROVE FALSE
          OBVIOUS
        <5>1. PICK u \in 1..seq : u > txn[x].began /\ origin[u].by = e
          BY <2>1, <3>2 DEF OriginInv
        <5> QED BY <2>1, <2>4, <4>2, <5>1
      <4> QED BY <2>4, <3>2, <4>3
    <3>3. CASE v \in 1..seq /\ e \in committed
      <4>1. e = origin[v].by \/ Before(e, v)
        BY <2>1, <2>3, <2>5, <3>3 DEF Before
      <4> QED BY <2>5, <3>3, <4>1 DEF PublicationCarriesEdits
    <3>4. CASE v \in 1..seq /\ e \notin committed
      <4>1. e = x /\ x \in Edits
        BY <2>3, <3>4 DEF Change
      <4>2. e # origin'[v].by
        BY <2>5, <3>4, <4>1 DEF OriginInv
      <4>3. origin'[v].began < v /\ origin[v].began \in Nat
        BY <2>5, <3>4 DEF OriginInv, Origin
      <4>4. n \in 1..seq' /\ origin'[n].by = e
        BY <2>1, <2>3, <2>4, <4>1
      <4> QED BY <2>1, <2>5, <3>4, <4>2, <4>3, <4>4 DEF Before
    <3> QED BY <2>3, <2>7, <3>1, <3>2, <3>3, <3>4
  <2> QED BY <2>8, <2>9
<1>4. ASSUME NEW x \in Writers, Rollback(x) \/ TickAborts(x)
      PROVE  OriginInv' /\ PublicationCarriesEdits'
  <2>1. txn' = [txn EXCEPT ![x] = NoTxn] /\ UNCHANGED <<committed, seq, menu, origin>>
    BY <1>4 DEF Rollback, TickAborts
  <2> QED BY <2>1 DEF OriginInv, PublicationCarriesEdits, Before, NoTxn
<1>5. ASSUME NEW w \in Workers, Ticking(w) PROVE OriginInv' /\ PublicationCarriesEdits'
  <2>1. UNCHANGED edits
    BY <1>5 DEF Ticking, TickStart, Sweep, Claim, NothingToClaim, Push, PushTooLarge,
       Timeout, Settle
  <2> QED BY <1>1, <2>1
<1>6. CASE Cloud
  <2>1. UNCHANGED edits
    BY <1>6 DEF Cloud, Authorise, Reject, Apply, DeleteTenant, SetTenantActive
  <2> QED BY <1>1, <2>1
<1>7. CASE (\E v \in Versions : DeadlinePasses(v)) \/ Heartbeat \/ UNCHANGED vars
  <2>1. UNCHANGED edits
    BY <1>7 DEF DeadlinePasses, Heartbeat, vars
  <2> QED BY <1>1, <2>1
<1> QED
  BY <1>2, <1>3, <1>4, <1>5, <1>6, <1>7 DEF Next, Edit, Writers

-----------------------------------------------------------------------------
\* Nothing happens to a row before its version is taken.
LEMMA RowsStep == ASSUME IInv, [Next]_vars PROVE RowsInv'
<1> USE DEF IInv, RowsInv, edits, columns
<1> DEFINE Kept == \A v \in Versions : v > seq =>
                      status'[v] = status[v] /\ reason'[v] = reason[v]
<1>1. CASE seq' >= seq /\ Kept
  <2>1. seq \in Nat /\ seq' \in Nat
    BY PayloadFixed
  <2> QED BY <1>1, <2>1 DEF Versions
<1>2. seq' >= seq
  BY PayloadFixed
<1>3. CASE UNCHANGED <<status, reason>>
  BY <1>1, <1>2, <1>3
<1>4. ASSUME NEW x \in Writers, Commit(x) PROVE RowsInv'
  <2>1. /\ seq' = seq + 1 /\ status' = [status EXCEPT ![seq + 1] = "PENDING"]
        /\ UNCHANGED reason /\ seq \in Nat
    BY <1>4 DEF Commit, EditsOK
  <2>2. \A v \in Versions : v > seq + 1 => v > seq /\ v # seq + 1
    BY <2>1 DEF Versions
  <2> QED BY <2>1, <2>2 DEF ColumnsOK
<1>5. ASSUME NEW w \in Workers, Sweep(w) PROVE RowsInv'
  <2>1. Kept
    BY <1>5 DEF Sweep, Open
  <2> QED BY <1>1, <1>2, <2>1
<1>6. ASSUME NEW w \in Workers, Claim(w) PROVE RowsInv'
  <2>1. PICK v \in Versions : Claimable(v) /\ status' = [status EXCEPT ![v] = "LEASED"]
    BY <1>6 DEF Claim
  <2>2. ~(v > seq)
    BY <2>1 DEF Claimable, Open
  <2>3. Kept
    BY <1>6, <2>1, <2>2 DEF Claim, ColumnsOK
  <2> QED BY <1>1, <1>2, <2>3
<1>7. ASSUME NEW w \in Workers, Settle(w) PROVE RowsInv'
  <2>1. job[w] \in Job /\ job[w].version <= seq /\ seq \in Nat
    BY <1>7 DEF Settle, TicksInv, Pushing, EditsOK
  <2>2. \A v \in Versions : v > seq => v # job[w].version
    BY <2>1 DEF Versions, Job
  <2>3. Kept
    BY <1>7, <2>2 DEF Settle, ColumnsOK
  <2> QED BY <1>1, <1>2, <2>3
<1>8. CASE (\E v \in Versions : DeadlinePasses(v)) \/ Heartbeat \/ UNCHANGED vars
  BY <1>3, <1>8 DEF DeadlinePasses, Heartbeat, vars
<1>9. CASE \E x \in Writers : Begin(x) \/ Rollback(x)
  BY <1>3, <1>9 DEF Begin, Rollback
<1>10. ASSUME NEW w \in Workers, TickStart(w) \/ NothingToClaim(w) \/ Push(w)
                \/ PushTooLarge(w) \/ Timeout(w) \/ TickAborts(w)
       PROVE  RowsInv'
  BY <1>3, <1>10 DEF TickStart, NothingToClaim, Push, PushTooLarge, Timeout, TickAborts
<1>11. CASE Cloud
  BY <1>3, <1>11 DEF Cloud, Authorise, Reject, Apply, DeleteTenant, SetTenantActive
<1> QED
  BY <1>4, <1>5, <1>6, <1>7, <1>8, <1>9, <1>10, <1>11 DEF Next, Edit, Ticking

\* A row is settled by an answer the cloud stands by.
LEMMA SettledStep == ASSUME IInv, [Next]_vars PROVE SettledRows'
<1> USE DEF IInv, columns
<1> DEFINE Kept(v) == /\ status'[v] = "ACKED" => status[v] = "ACKED"
                      /\ reason'[v] = "conflict" => reason[v] = "conflict"
           Backs(v) == cloud'.version > v \/ (cloud'.version = v /\ cloud'.menu = menu'[v])
           Beats(v) == cloud'.version > v \/ (cloud'.version = v /\ cloud'.menu # menu'[v])
<1>1. ASSUME NEW v \in Versions, Kept(v)
      PROVE  (status'[v] = "ACKED" => Backs(v)) /\ (reason'[v] = "conflict" => Beats(v))
  <2>1. CASE v > seq
    BY <1>1, <2>1 DEF RowsInv
  <2>2. CASE ~(v > seq)
    <3>1. v <= seq
      BY <2>2, PayloadFixed DEF Versions
    <3>2. (status[v] = "ACKED" => Backed(v)) /\ (reason[v] = "conflict" => Beaten(v))
      BY DEF SettledRows, Backed, Beaten
    <3> QED BY <1>1, <3>1, <3>2, VerdictsStay
  <2> QED BY <2>1, <2>2
<1>2. CASE \A v \in Versions : Kept(v)
  BY <1>1, <1>2 DEF SettledRows
<1>3. CASE UNCHANGED <<status, reason>>
  BY <1>2, <1>3
<1>4. ASSUME NEW x \in Writers, Commit(x) PROVE SettledRows'
  <2>1. \A v \in Versions : Kept(v)
    BY <1>4 DEF Commit, ColumnsOK
  <2> QED BY <1>2, <2>1
<1>5. ASSUME NEW w \in Workers, Sweep(w) PROVE SettledRows'
  <2>1. \A v \in Versions : Kept(v)
    BY <1>5 DEF Sweep
  <2> QED BY <1>2, <2>1
<1>6. ASSUME NEW w \in Workers, Claim(w) PROVE SettledRows'
  <2>1. \A v \in Versions : Kept(v)
    BY <1>6 DEF Claim, ColumnsOK
  <2> QED BY <1>2, <2>1
<1>7. ASSUME NEW w \in Workers, Settle(w) PROVE SettledRows'
  <2>1. PICK u \in Versions : u = job[w].version
    BY <1>7 DEF Settle, TicksInv, Pushing, Job
  <2>2. PICK n : n = job[w].attempt
    OBVIOUS
  <2>3. u <= seq /\ n \in Nat /\ answer[w] \in {"ok", "conflict", "refused", "error"}
    BY <1>7, <2>1, <2>2 DEF Settle, TicksInv, Pushing, Job, TicksOK, Answer
  <2>4. PICK a \in {answer[w]} \cup (IF answer[w] = "ok" THEN {"error"} ELSE {}) :
          IF Holds(w)
          THEN /\ status' = [status EXCEPT ![u] = Settled(a, n)[1]]
               /\ reason' = [reason EXCEPT ![u] = Settled(a, n)[2]]
          ELSE UNCHANGED <<status, reason>>
    BY <1>7, <2>1, <2>2 DEF Settle
  <2>5. \A v \in Versions : v # u => Kept(v)
    BY <2>4 DEF ColumnsOK
  <2>6. CASE Holds(w)
    <3>1. status'[u] = Settled(a, n)[1] /\ reason'[u] = Settled(a, n)[2]
      BY <2>4, <2>6 DEF ColumnsOK
    <3>2. a \in {"ok", "conflict", "refused", "error"}
      BY <2>3, <2>4
    <3>3. /\ status'[u] = "ACKED" => a = "ok"
          /\ reason'[u] = "conflict" => a = "conflict"
      BY <2>3, <3>1, <3>2, BoundsAssumption DEF Settled
    <3>4. (a = "ok" => answer[w] = "ok") /\ (a = "conflict" => answer[w] = "conflict")
      BY <2>4
    <3>5. /\ answer[w] = "ok" => Backed(u)
          /\ answer[w] = "conflict" => Beaten(u)
      BY <1>7, <2>1 DEF Settle, TicksInv
    <3>6. (status'[u] = "ACKED" => Backs(u)) /\ (reason'[u] = "conflict" => Beats(u))
      BY <2>3, <3>3, <3>4, <3>5, VerdictsStay
    <3> QED BY <1>1, <2>5, <3>6 DEF SettledRows
  <2>7. CASE ~Holds(w)
    BY <1>3, <2>4, <2>7
  <2> QED BY <2>6, <2>7
<1>8. CASE (\E v \in Versions : DeadlinePasses(v)) \/ Heartbeat \/ UNCHANGED vars
  BY <1>3, <1>8 DEF DeadlinePasses, Heartbeat, vars
<1>9. CASE \E x \in Writers : Begin(x) \/ Rollback(x)
  BY <1>3, <1>9 DEF Begin, Rollback
<1>10. ASSUME NEW w \in Workers, TickStart(w) \/ NothingToClaim(w) \/ Push(w)
                \/ PushTooLarge(w) \/ Timeout(w) \/ TickAborts(w)
       PROVE  SettledRows'
  BY <1>3, <1>10 DEF TickStart, NothingToClaim, Push, PushTooLarge, Timeout, TickAborts
<1>11. CASE Cloud
  BY <1>3, <1>11 DEF Cloud, Authorise, Reject, Apply, DeleteTenant, SetTenantActive
<1> QED
  BY <1>4, <1>5, <1>6, <1>7, <1>8, <1>9, <1>10, <1>11 DEF Next, Edit, Ticking

-----------------------------------------------------------------------------
\* What w has sent goes on without it, and w has no other push.
LEMMA AbandonedPush ==
    ASSUME IInv, [Next]_vars, NEW w \in Workers, requests' = Abandoned(w),
           \A x \in Workers : x # w => at'[x] = at[x] /\ job'[x] = job[x]
    PROVE  PushesInv'
<1> USE DEF IInv, RemoteOK
<1>1. seq' >= seq /\ seq \in Nat /\ seq' \in Nat
  BY PayloadFixed
<1>2. ASSUME NEW r \in requests'
      PROVE  \E q \in requests : /\ r.version = q.version /\ r.menu = q.menu
                                 /\ IF q.from = w THEN r.from = Nobody ELSE r = q
  <2>1. PICK q \in requests : r = IF q.from = w THEN [q EXCEPT !.from = Nobody] ELSE q
    BY <1>2 DEF Abandoned
  <2>2. q \in Request
    OBVIOUS
  <2> QED BY <2>1, <2>2 DEF Request
<1>3. ASSUME NEW r \in requests'
      PROVE  r.version <= seq' /\ r.menu = menu'[r.version]
  <2>1. PICK q \in requests : r.version = q.version /\ r.menu = q.menu
    BY <1>2
  <2>2. q.version \in Versions /\ q.version <= seq /\ q.menu = menu[q.version]
    BY DEF PushesInv, Request
  <2>3. menu'[q.version] = menu[q.version]
    BY <2>2, PayloadFixed
  <2> QED BY <1>1, <2>1, <2>2, <2>3 DEF Versions
<1>4. ASSUME NEW r \in requests', r.from # Nobody
      PROVE  r \in requests /\ r.from # w
  <2>1. PICK q \in requests : IF q.from = w THEN r.from = Nobody ELSE r = q
    BY <1>2
  <2> QED BY <1>4, <2>1
<1>5. ASSUME NEW r \in requests', r.from # Nobody
      PROVE  at'[r.from] = "await" /\ job'[r.from].version = r.version
  <2>1. r \in requests /\ r.from # w /\ r.from \in Workers
    BY <1>4, <1>5 DEF Request
  <2> QED BY <1>5, <2>1 DEF PushesInv
<1>6. ASSUME NEW r \in requests', NEW s \in requests', r.from = s.from, r.from # Nobody
      PROVE  r = s
  BY <1>4, <1>6 DEF PushesInv
<1> QED
  BY <1>3, <1>5, <1>6 DEF PushesInv

\* Nobody who waits for a push is disturbed by a step of another worker.
LEMMA QuietPush ==
    ASSUME IInv, [Next]_vars, requests' \subseteq requests,
           \A r \in requests' : r.from # Nobody =>
              at'[r.from] = at[r.from] /\ job'[r.from] = job[r.from]
    PROVE  PushesInv'
<1> USE DEF IInv, RemoteOK
<1>1. seq' >= seq /\ seq \in Nat /\ seq' \in Nat
  BY PayloadFixed
<1>2. ASSUME NEW r \in requests'
      PROVE  r.version <= seq' /\ r.menu = menu'[r.version]
  <2>1. r.version \in Versions /\ r.version <= seq /\ r.menu = menu[r.version]
    BY DEF PushesInv, Request
  <2>2. menu'[r.version] = menu[r.version]
    BY <2>1, PayloadFixed
  <2> QED BY <1>1, <2>1, <2>2 DEF Versions
<1>3. ASSUME NEW r \in requests', r.from # Nobody
      PROVE  at'[r.from] = "await" /\ job'[r.from].version = r.version
  BY <1>3 DEF PushesInv
<1>4. ASSUME NEW r \in requests', NEW s \in requests', r.from = s.from, r.from # Nobody
      PROVE  r = s
  BY <1>4 DEF PushesInv
<1> QED
  BY <1>2, <1>3, <1>4 DEF PushesInv

LEMMA PushesStep == ASSUME IInv, [Next]_vars PROVE PushesInv'
<1> USE DEF IInv, ticks, remote
<1>1. CASE UNCHANGED <<at, job, requests>>
  BY <1>1, QuietPush
<1>2. ASSUME NEW w \in Workers, at[w] # "await", UNCHANGED requests,
             \A x \in Workers : x # w => at'[x] = at[x] /\ job'[x] = job[x]
      PROVE  PushesInv'
  <2>1. \A r \in requests : r.from # Nobody => r.from \in Workers /\ r.from # w
    BY <1>2 DEF RemoteOK, Request, PushesInv
  <2> QED BY <1>2, <2>1, QuietPush
<1>3. CASE Edit
  BY <1>1, <1>3 DEF Edit, Begin, Commit, Rollback
<1>4. ASSUME NEW w \in Workers, TickStart(w) \/ Sweep(w) \/ Claim(w) \/ NothingToClaim(w)
               \/ PushTooLarge(w) \/ Settle(w)
      PROVE  PushesInv'
  <2>1. at[w] # "await" /\ UNCHANGED requests
    BY <1>4 DEF TickStart, Sweep, Claim, NothingToClaim, PushTooLarge, Settle
  <2>2. \A x \in Workers : x # w => at'[x] = at[x] /\ job'[x] = job[x]
    BY <1>4 DEF TickStart, Sweep, Claim, NothingToClaim, PushTooLarge, Settle, TicksOK
  <2> QED BY <1>2, <2>1, <2>2
<1>5. ASSUME NEW w \in Workers, Push(w) PROVE PushesInv'
  <2> DEFINE new == [version |-> job[w].version, menu |-> menu[job[w].version],
                     authorised |-> FALSE, from |-> w]
  <2>1. /\ requests' = requests \cup {new} /\ at[w] = "push"
        /\ at'[w] = "await" /\ \A x \in Workers : x # w => at'[x] = at[x]
        /\ UNCHANGED <<job, menu, seq>>
    BY <1>5 DEF Push, TicksOK, edits
  <2>2. \A r \in requests : r.from # Nobody => r.from \in Workers /\ r.from # w
    BY <2>1 DEF RemoteOK, Request, PushesInv
  <2>3. /\ new.version = job[w].version /\ new.menu = menu[job[w].version] /\ new.from = w
        /\ job[w].version <= seq
    BY <2>1 DEF TicksInv, Pushing
  <2> HIDE DEF new
  <2>4. \A r \in requests' : /\ r.version <= seq' /\ r.menu = menu'[r.version]
    BY <2>1, <2>3 DEF PushesInv
  <2>5. \A r \in requests' : r.from # Nobody =>
           at'[r.from] = "await" /\ job'[r.from].version = r.version
    BY <2>1, <2>2, <2>3 DEF PushesInv
  <2>6. \A r, s \in requests' : r.from = s.from /\ r.from # Nobody => r = s
    BY <2>1, <2>2, <2>3 DEF PushesInv
  <2> QED BY <2>4, <2>5, <2>6 DEF PushesInv
<1>6. ASSUME NEW w \in Workers, Timeout(w) \/ TickAborts(w) PROVE PushesInv'
  <2>1. requests' = Abandoned(w)
    BY <1>6 DEF Timeout, TickAborts
  <2>2. \A x \in Workers : x # w => at'[x] = at[x] /\ job'[x] = job[x]
    BY <1>6 DEF Timeout, TickAborts, TicksOK
  <2> QED BY <2>1, <2>2, AbandonedPush
<1>7. ASSUME NEW q \in requests, Authorise(q) PROVE PushesInv'
  <2> DEFINE new == [q EXCEPT !.authorised = TRUE]
  <2>1. /\ requests' = (requests \ {q}) \cup {new}
        /\ UNCHANGED <<at, job, menu, seq>>
    BY <1>7 DEF Authorise, edits
  <2>2. new.version = q.version /\ new.menu = q.menu /\ new.from = q.from
    BY DEF RemoteOK, Request
  <2> HIDE DEF new
  <2>3. \A r \in requests' : (r \in requests /\ r # q) \/ r = new
    BY <2>1
  <2>4. \A r \in requests' : /\ r.version <= seq' /\ r.menu = menu'[r.version]
    BY <2>1, <2>2, <2>3 DEF PushesInv
  <2>5. \A r \in requests' : r.from # Nobody =>
           at'[r.from] = "await" /\ job'[r.from].version = r.version
    BY <2>1, <2>2, <2>3 DEF PushesInv
  <2>6. \A r, s \in requests' : r.from = s.from /\ r.from # Nobody => r = s
    BY <2>2, <2>3 DEF PushesInv
  <2> QED BY <2>4, <2>5, <2>6 DEF PushesInv
<1>8. ASSUME NEW q \in requests, NEW a, Answered(q, a) PROVE PushesInv'
  <2>1. requests' = requests \ {q} /\ UNCHANGED job
    BY <1>8 DEF Answered
  <2>2. \A r \in requests' : r.from # Nobody => r.from \in Workers /\ r.from # q.from
    BY <2>1 DEF RemoteOK, Request, PushesInv
  <2>3. \A x \in Workers : x # q.from => at'[x] = at[x]
    BY <1>8 DEF Answered, TicksOK
  <2> QED BY <2>1, <2>2, <2>3, QuietPush
<1>9. ASSUME NEW q \in requests, Reject(q) \/ Apply(q) PROVE PushesInv'
  BY <1>8, <1>9 DEF Reject, Apply
<1>10. CASE DeleteTenant \/ SetTenantActive \/ (\E v \in Versions : DeadlinePasses(v))
             \/ Heartbeat \/ UNCHANGED vars
  BY <1>1, <1>10 DEF DeleteTenant, SetTenantActive, DeadlinePasses, Heartbeat, vars
<1> QED
  BY <1>3, <1>4, <1>5, <1>6, <1>7, <1>9, <1>10 DEF Next, Ticking, Cloud

\* A worker settles what it claimed by what the cloud answered to it.
LEMMA TicksInvStep == ASSUME IInv, [Next]_vars PROVE TicksInv'
<1> USE DEF IInv, ticks
<1> DEFINE Good(w) ==
             /\ Pushing(w)' => job'[w] \in Job /\ job'[w].version <= seq' /\ left'[w] > 0
             /\ at'[w] = "settle" =>
                   /\ answer'[w] # "none"
                   /\ answer'[w] = "ok" => Backed(job[w].version)'
                   /\ answer'[w] = "conflict" => Beaten(job[w].version)'
<1>1. ASSUME NEW w \in Workers, at'[w] = at[w], job'[w] = job[w], left'[w] = left[w],
             answer'[w] = answer[w]
      PROVE  Good(w)
  <2>1. seq' >= seq /\ seq \in Nat /\ seq' \in Nat
    BY PayloadFixed
  <2>2. CASE Pushing(w)
    <3>1. PICK v \in Versions : v = job[w].version
      BY <2>2 DEF TicksInv, Job
    <3>2. v <= seq /\ v \in Nat
      BY <2>2, <3>1 DEF TicksInv, Versions
    <3>3. /\ Backed(v) => cloud'.version > v \/ (cloud'.version = v /\ cloud'.menu = menu'[v])
          /\ Beaten(v) => cloud'.version > v \/ (cloud'.version = v /\ cloud'.menu # menu'[v])
      BY <3>2, VerdictsStay
    <3> QED BY <1>1, <2>1, <2>2, <3>1, <3>2, <3>3 DEF TicksInv, Pushing, Backed, Beaten
  <2>3. CASE ~Pushing(w)
    BY <1>1, <2>3 DEF Pushing
  <2> QED BY <2>2, <2>3
<1>2. CASE UNCHANGED ticks
  BY <1>1, <1>2 DEF TicksInv
<1>3. ASSUME NEW w \in Workers, Good(w),
             \A x \in Workers : x # w => /\ at'[x] = at[x] /\ job'[x] = job[x]
                                         /\ left'[x] = left[x] /\ answer'[x] = answer[x]
      PROVE  TicksInv'
  BY <1>1, <1>3 DEF TicksInv
<1>4. CASE Edit
  BY <1>2, <1>4 DEF Edit, Begin, Commit, Rollback
<1>5. ASSUME NEW w \in Workers, Ticking(w) \/ TickAborts(w)
      PROVE  \A x \in Workers : x # w => /\ at'[x] = at[x] /\ job'[x] = job[x]
                                         /\ left'[x] = left[x] /\ answer'[x] = answer[x]
  BY <1>5 DEF Ticking, TickStart, Sweep, Claim, NothingToClaim, Push, PushTooLarge,
     Timeout, Settle, TickAborts, TicksOK
<1>6. ASSUME NEW w \in Workers, TickStart(w) \/ Sweep(w) \/ NothingToClaim(w) \/ Settle(w)
               \/ TickAborts(w)
      PROVE  Good(w)
  <2>1. at'[w] \in {"sweep", "claim", "idle"}
    BY <1>6 DEF TickStart, Sweep, NothingToClaim, Settle, TickAborts, TicksOK
  <2> QED BY <2>1 DEF Pushing
<1>7. ASSUME NEW w \in Workers, Claim(w) PROVE Good(w)
  <2>1. PICK v \in Versions :
          /\ Claimable(v)
          /\ job' = [job EXCEPT ![w] = [version |-> v, attempt |-> attempts[v] + 1]]
    BY <1>7 DEF Claim
  <2>2. attempts[v] + 1 \in 1..MaxAttempts
    BY <2>1, BoundsAssumption DEF Claimable, ColumnsOK
  <2>3. job'[w] \in Job /\ job'[w].version = v
    BY <2>1, <2>2 DEF TicksOK, Job
  <2>4. v <= seq
    BY <2>1 DEF Claimable, Open, RowsInv, EditsOK, Versions
  <2> QED BY <1>7, <2>3, <2>4 DEF Claim, TicksOK, edits
<1>8. ASSUME NEW w \in Workers, Push(w) \/ PushTooLarge(w) \/ Timeout(w) PROVE Good(w)
  <2>1. Pushing(w) /\ job' = job /\ left' = left /\ seq' = seq
    BY <1>8 DEF Push, PushTooLarge, Timeout, Pushing, edits
  <2>2. at'[w] = "settle" => answer'[w] \in {"refused", "error"}
    BY <1>8 DEF Push, PushTooLarge, Timeout, TicksOK
  <2> QED BY <2>1, <2>2 DEF TicksInv
<1>9. ASSUME NEW q \in requests, NEW a, Answered(q, a), a # "none", seq' = seq, menu' = menu,
             a = "ok" => Backed(q.version)', a = "conflict" => Beaten(q.version)'
      PROVE  TicksInv'
  <2>1. CASE q.from = Nobody
    BY <1>2, <1>9, <2>1 DEF Answered
  <2>2. CASE q.from # Nobody
    <3> DEFINE w == q.from
    <3>1. w \in Workers /\ at[w] = "await" /\ job[w].version = q.version
      BY <2>2 DEF RemoteOK, Request, PushesInv
    <3>2. /\ at'[w] = "settle" /\ answer'[w] = a /\ job' = job /\ left' = left
          /\ \A x \in Workers : x # w => at'[x] = at[x] /\ answer'[x] = answer[x]
      BY <1>9, <2>2, <3>1 DEF Answered, TicksOK
    <3>3. job[w] \in Job /\ job[w].version <= seq /\ left[w] > 0
      BY <3>1 DEF TicksInv, Pushing
    <3>4. Good(w)
      BY <1>9, <3>1, <3>2, <3>3 DEF Backed, Beaten
    <3> QED BY <1>3, <3>1, <3>2, <3>4
  <2> QED BY <2>1, <2>2
<1>10. ASSUME NEW q \in requests, Reject(q) PROVE TicksInv'
  BY <1>9, <1>10 DEF Reject, edits
<1>11. ASSUME NEW q \in requests, Apply(q) PROVE TicksInv'
  <2>1. /\ q.version \in Nat /\ cloud.version \in Nat /\ q.menu = menu[q.version]
        /\ cloud \in CloudRow
    BY DEF RemoteOK, Request, CloudRow, PushesInv, Versions
  <2>2. seq' = seq /\ menu' = menu
    BY <1>11 DEF Apply, edits
  <2>3. CASE q.version > cloud.version
    <3>1. cloud'.version = q.version /\ cloud'.menu = q.menu /\ Answered(q, "ok")
      BY <1>11, <2>3 DEF Apply
    <3> QED BY <1>9, <2>1, <2>2, <3>1 DEF Backed
  <2>4. CASE ~(q.version > cloud.version)
    <3>1. /\ cloud' = cloud
          /\ Answered(q, IF q.version = cloud.version /\ q.menu = cloud.menu
                         THEN "ok" ELSE "conflict")
      BY <1>11, <2>4 DEF Apply
    <3> QED BY <1>9, <2>1, <2>2, <2>4, <3>1 DEF Backed, Beaten
  <2> QED BY <2>3, <2>4
<1>12. CASE (\E r \in requests : Authorise(r)) \/ DeleteTenant \/ SetTenantActive
            \/ (\E v \in Versions : DeadlinePasses(v)) \/ Heartbeat \/ UNCHANGED vars
  BY <1>2, <1>12 DEF Authorise, DeleteTenant, SetTenantActive, DeadlinePasses, Heartbeat, vars
<1>13. ASSUME NEW w \in Workers, Ticking(w) \/ TickAborts(w) PROVE Good(w)
  BY <1>6, <1>7, <1>8, <1>13 DEF Ticking
<1>14. ASSUME NEW w \in Workers, Ticking(w) \/ TickAborts(w) PROVE TicksInv'
  BY <1>3, <1>5, <1>13, <1>14
<1> QED
  BY <1>4, <1>10, <1>11, <1>12, <1>14 DEF Next, Cloud

THEOREM Invariance == Spec => []IInv
<1>1. IInv /\ [Next]_vars => IInv'
  <2> SUFFICES ASSUME IInv, [Next]_vars PROVE IInv'
    OBVIOUS
  <2>1. EditsOK' /\ FlagsOK'
    BY EditsStep, FlagsStep DEF IInv
  <2> QED
    BY <2>1, ColumnsStep, TicksStep, RemoteStep, RowsStep, TicksInvStep, PushesStep,
       OriginStep, SettledStep DEF IInv
<1> QED
  BY InitIInv, <1>1, PTL DEF Spec

-----------------------------------------------------------------------------
\* The variables of outbox, workers and cloud keep their types.
THEOREM MenuTypeCorrect == Spec => []TypeOK
<1>1. IInv => TypeOK
  BY BoundsAssumption DEF IInv, EditsOK, ColumnsOK, TicksOK, RemoteOK, FlagsOK, TypeOK,
     Job, Origin, CloudRow
<1> QED
  BY Invariance, <1>1, PTL

\* No row is settled that the cloud does not back, with any number of workers
\* that take expired leases over from each other (MenuProjectionRuntime.push
\* against applyMenuPublication).
THEOREM MenuSettledRows == Spec => []SettledRows
<1>1. IInv => SettledRows
  BY DEF IInv
<1> QED
  BY Invariance, <1>1, PTL

\* An edit is in its own publication and in all whose transaction began after
\* it had committed, an edit older than the first publication in all
\* (enqueueMenuProjection).
THEOREM MenuPublicationCarriesEdits == Spec => []PublicationCarriesEdits
<1>1. IInv => PublicationCarriesEdits
  BY DEF IInv
<1> QED
  BY Invariance, <1>1, PTL

-----------------------------------------------------------------------------
\* After n changes the tenant is shut, or there was a further change.
Closed(n) == toggles > n \/ Shut(n)

LEMMA ClosedStep ==
    ASSUME NEW n \in 1..MaxToggles, IInv, [Next]_vars, Closed(n)
    PROVE  Closed(n)'
<1> USE DEF IInv, RemoteOK, tenant, remote
<1>1. CASE toggles' > n
  BY <1>1 DEF Closed
<1>2. CASE toggles > n
  <2>1. toggles' >= toggles
    <3>1. CASE DeleteTenant \/ SetTenantActive
      BY <3>1, BoundsAssumption DEF DeleteTenant, SetTenantActive
    <3>2. CASE UNCHANGED toggles
      BY <3>2, BoundsAssumption
    <3>3. CASE Edit \/ Heartbeat \/ (\E v \in Versions : DeadlinePasses(v)) \/ UNCHANGED vars
      BY <3>2, <3>3 DEF Edit, Begin, Commit, Rollback, Heartbeat, DeadlinePasses, vars
    <3>4. ASSUME NEW w \in Workers, Ticking(w) \/ TickAborts(w) PROVE UNCHANGED toggles
      BY <3>4 DEF Ticking, TickStart, Sweep, Claim, NothingToClaim, Push, PushTooLarge,
         Timeout, Settle, TickAborts
    <3>5. ASSUME NEW r \in requests, Authorise(r) \/ Reject(r) \/ Apply(r) PROVE UNCHANGED toggles
      BY <3>5 DEF Authorise, Reject, Apply
    <3> QED BY <3>1, <3>2, <3>3, <3>4, <3>5 DEF Next, Cloud
  <2> QED BY <1>1, <1>2, <2>1, RemoteStep, BoundsAssumption
<1>3. CASE Shut(n)
  <2> USE <1>3 DEF Shut
  <2>1. CASE UNCHANGED <<toggles, cloud, tenantActive>> /\ \A r \in requests' : ~r.authorised
    BY <2>1 DEF Closed
  <2>2. CASE UNCHANGED <<toggles, cloud, tenantActive, requests>>
    BY <2>1, <2>2
  <2>3. CASE Edit \/ Heartbeat \/ (\E v \in Versions : DeadlinePasses(v)) \/ UNCHANGED vars
    <3>1. UNCHANGED <<toggles, cloud, tenantActive, requests>>
      BY <2>3 DEF Edit, Begin, Commit, Rollback, Heartbeat, DeadlinePasses, vars
    <3> QED BY <2>2, <3>1
  <2>4. ASSUME NEW w \in Workers, TickStart(w) \/ Sweep(w) \/ Claim(w) \/ NothingToClaim(w)
                 \/ PushTooLarge(w) \/ Settle(w)
        PROVE  Closed(n)'
    <3>1. UNCHANGED <<toggles, cloud, tenantActive, requests>>
      BY <2>4 DEF TickStart, Sweep, Claim, NothingToClaim, PushTooLarge, Settle
    <3> QED BY <2>2, <3>1
  <2>5. ASSUME NEW w \in Workers, Push(w) PROVE Closed(n)'
    <3>1. UNCHANGED <<toggles, cloud, tenantActive>> /\ \A r \in requests' : ~r.authorised
      BY <2>5 DEF Push
    <3> QED BY <2>1, <3>1
  <2>6. ASSUME NEW w \in Workers, Timeout(w) \/ TickAborts(w) PROVE Closed(n)'
    <3>1. UNCHANGED <<toggles, cloud, tenantActive>> /\ requests' = Abandoned(w)
      BY <2>6 DEF Timeout, TickAborts
    <3>2. ASSUME NEW r \in requests' PROVE ~r.authorised
      <4>1. PICK q \in requests : r = IF q.from = w THEN [q EXCEPT !.from = Nobody] ELSE q
        BY <3>1, <3>2 DEF Abandoned
      <4> QED BY <4>1 DEF Request
    <3> QED BY <2>1, <3>1, <3>2
  <2>7. ASSUME NEW q \in requests, Authorise(q) PROVE Closed(n)'
    BY <2>7 DEF Authorise
  <2>8. ASSUME NEW q \in requests, Reject(q) PROVE Closed(n)'
    <3>1. UNCHANGED <<toggles, cloud, tenantActive>> /\ \A r \in requests' : ~r.authorised
      BY <2>8 DEF Reject, Answered
    <3> QED BY <2>1, <3>1
  <2>9. ASSUME NEW q \in requests, Apply(q) PROVE Closed(n)'
    BY <2>9 DEF Apply
  <2>10. CASE DeleteTenant \/ SetTenantActive
    BY <1>1, <2>10, BoundsAssumption DEF DeleteTenant, SetTenantActive
  <2> QED
    BY <2>3, <2>4, <2>5, <2>6, <2>7, <2>8, <2>9, <2>10 DEF Next, Ticking, Cloud
<1> QED
  BY <1>2, <1>3 DEF Closed

LEMMA ShutStays ==
    ASSUME NEW n \in 1..MaxToggles
    PROVE  Spec => [](Shut(n) => [](toggles = n => cloud.hidden))
<1>1. Shut(n) => Closed(n)
  BY DEF Closed
<1>2. IInv /\ [Next]_vars /\ Closed(n) => Closed(n)'
  BY ClosedStep
<1>3. IInv /\ Closed(n) => (toggles = n => cloud.hidden)
  BY BoundsAssumption DEF Closed, Shut, IInv, RemoteOK
<1> QED
  BY <1>1, <1>2, <1>3, Invariance, PTL DEF Spec

\* A deleted tenant's menu stays hidden once the pushes authenticated before
\* have left the cloud (authenticateCloudMenuSync, applyMenuPublication).
THEOREM MenuDisabledStaysHidden == Spec => DisabledStaysHidden
  BY ShutStays DEF DisabledStaysHidden

-----------------------------------------------------------------------------
\* The snapshots that have been published.
Published == {[version |-> v, menu |-> menu[v]] : v \in 1..seq}

LEMMA PublishedKept ==
    ASSUME UNCHANGED <<menu, seq, cloud>>
    PROVE  UNCHANGED <<Published, cloud>>
  BY DEF Published

LEMMA RegisterStep ==
    ASSUME IInv, [Next]_vars
    PROVE  [Register!Publish \/ Register!Show \/ Register!Hide]_<<Published, cloud>>
<1> USE DEF IInv, edits, remote
<1>1. CASE UNCHANGED <<menu, seq, cloud>>
  BY <1>1, PublishedKept
<1>2. CASE Heartbeat \/ SetTenantActive \/ (\E v \in Versions : DeadlinePasses(v))
            \/ UNCHANGED vars
  BY <1>1, <1>2 DEF Heartbeat, SetTenantActive, DeadlinePasses, vars
<1>3. CASE \E x \in Writers : Begin(x) \/ Rollback(x)
  BY <1>1, <1>3 DEF Begin, Rollback
<1>4. ASSUME NEW w \in Workers, Ticking(w) \/ TickAborts(w) PROVE UNCHANGED <<menu, seq, cloud>>
  BY <1>4 DEF Ticking, TickStart, Sweep, Claim, NothingToClaim, Push, PushTooLarge,
     Timeout, Settle, TickAborts
<1>5. ASSUME NEW r \in requests, Authorise(r) \/ Reject(r) PROVE UNCHANGED <<menu, seq, cloud>>
  BY <1>5 DEF Authorise, Reject
<1>6. ASSUME NEW x \in Writers, Commit(x)
      PROVE  Register!Publish
  <2> DEFINE n == seq + 1
             s == [version |-> n, menu |-> menu'[n]]
  <2>1. n \in Versions /\ seq \in Nat /\ seq' = n /\ UNCHANGED cloud
    BY <1>6 DEF Commit, EditsOK
  <2>2. menu'[n] \in Menus
    BY <2>1, EditsStep DEF EditsOK
  <2>3. \A v \in 1..seq : v # n /\ menu'[v] = menu[v]
    BY <2>1, PayloadFixed, BoundsAssumption DEF Versions
  <2>4. \A v : v \in 1..seq' <=> v \in 1..seq \/ v = n
    BY <2>1
  <2>5. Published' = Published \cup {s}
    BY <2>3, <2>4 DEF Published
  <2>6. s \in Register!Snapshot
    BY <2>1, <2>2 DEF Register!Snapshot
  <2>7. \A t \in Published : s.version > t.version
    BY <2>1 DEF Published
  <2> QED BY <2>1, <2>5, <2>6, <2>7 DEF Register!Publish, Published
<1>7. ASSUME NEW r \in requests, Apply(r)
      PROVE  Register!Show \/ UNCHANGED <<Published, cloud>>
  <2>1. UNCHANGED <<menu, seq>>
    BY <1>7 DEF Apply
  <2>2. CASE r.version > cloud.version
    <3>1. cloud' = [version |-> r.version, menu |-> r.menu, hidden |-> FALSE]
      BY <1>7, <2>2 DEF Apply
    <3>2. /\ r.version \in 1..seq /\ r.menu = menu[r.version]
      BY DEF RemoteOK, Request, PushesInv, EditsOK, Versions
    <3> DEFINE s == [version |-> r.version, menu |-> menu[r.version]]
    <3>3. s \in Published
      BY <3>2 DEF Published
    <3>4. UNCHANGED Published
      BY <2>1 DEF Published
    <3> QED BY <2>2, <3>1, <3>2, <3>3, <3>4 DEF Register!Show, Published
  <2>3. CASE ~(r.version > cloud.version)
    BY <1>7, <2>1, <2>3, PublishedKept DEF Apply
  <2> QED BY <2>2, <2>3
<1>8. CASE DeleteTenant
  <2>1. UNCHANGED <<menu, seq>> /\ UNCHANGED Published
    BY <1>8 DEF DeleteTenant, Published
  <2>2. CASE cloud.hidden \/ cloud.version > 0
    <3>1. cloud' = [cloud EXCEPT !.hidden = TRUE]
      BY <1>8, <2>2 DEF DeleteTenant
    <3> QED BY <2>1, <3>1 DEF Register!Hide, Published
  <2>3. CASE ~(cloud.hidden \/ cloud.version > 0)
    <3>1. cloud' = [cloud EXCEPT !.hidden = FALSE] /\ cloud.hidden = FALSE
      BY <1>8, <2>3 DEF DeleteTenant, RemoteOK, CloudRow
    <3>2. cloud' = cloud
      BY <3>1 DEF RemoteOK, CloudRow
    <3> QED BY <2>1, <3>2
  <2> QED BY <2>2, <2>3
<1> QED
  BY <1>1, <1>2, <1>3, <1>4, <1>5, <1>6, <1>7, <1>8, PublishedKept DEF Next, Edit, Cloud

\* The cloud shows only published snapshots, moves to newer versions only, and
\* reveals a hidden menu only with one: what the register promises a reader
\* (enqueueMenuProjection, MenuProjectionRuntime, applyMenuPublication).
THEOREM MenuShowsPublished == Spec => ShowsPublished
<1>1. Init => Register!RegisterInit
  BY DEF Init, Register!RegisterInit
<1>2. IInv /\ [Next]_vars =>
        [Register!Publish \/ Register!Show \/ Register!Hide]_<<Published, cloud>>
  BY RegisterStep
<1> QED
  BY <1>1, <1>2, Invariance, PTL DEF Spec, ShowsPublished, Register!RegisterSpec, Published
=============================================================================
