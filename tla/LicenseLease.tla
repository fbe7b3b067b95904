---------------------------- MODULE LicenseLease ----------------------------
(***************************************************************************)
(* The license of one restaurant.  The cloud keeps a row per license key:  *)
(* to which machine it is bound, until when it is paid, and what the       *)
(* operators decided about it.  A restaurant's computer activates a key    *)
(* once and asks again every hour; each answer is a signed license, good   *)
(* for some days without the cloud, which the computer stores and checks   *)
(* by itself before everything it does.                                    *)
(*                                                                         *)
(* The cloud handles a call in three statements (read, conditional write,  *)
(* read back and sign) between which operators decide and other machines   *)
(* call.  A call whose caller gave up goes on in the cloud.                *)
(*                                                                         *)
(* Time is counted in days that are left, of a membership and of a signed  *)
(* license; nothing is left at 0.                                          *)
(***************************************************************************)
EXTENDS Naturals, FiniteSets

CONSTANTS
    Machines,   \* computers, each with its fingerprint
    Online,     \* those whose timer runs and that reach the cloud now and then
    Keys,       \* license keys that may be created for the restaurant
    MaxGrace,   \* most days without the cloud an operator may grant (30)
    MaxLife,    \* bound: days of a membership
    MaxCalls,   \* bound: calls under way at once
    MaxEvents,  \* bound: decisions of operators and failures of machines
    None        \* no machine; no file; no answer yet

ASSUME LicenseAssumption ==
    /\ MaxGrace \in Nat /\ MaxLife \in Nat /\ MaxCalls \in Nat
    /\ MaxEvents \in Nat
    /\ None \notin Machines /\ Online \subseteq Machines

VARIABLES
    row,            \* row[k]: the license in the cloud
    tenantActive,   \* the restaurant's account
    calls,          \* HTTP calls on their way, in the cloud, or answered
    file,           \* file[m]: license.json of a machine
    token,          \* token[m]: it has a menu-sync-token.json
    behind,         \* behind[m]: its clock is behind the cloud's, by more than
                    \* the tolerance
    \* history: what operators last decided on a key, with the machine that
    \* used it first; days since a machine was last entitled; the bound
    decided, since, events

cloud == <<row, tenantActive, decided>>
disk == <<file, token>>
vars == <<cloud, calls, disk, behind, since, events>>

Status == {"none", "PENDING", "ACTIVE", "SUSPENDED", "REVOKED"}
Row == [status : Status, hw : Machines \cup {None}, life : 0..MaxLife,
        grace : 0..MaxGrace]
\* What a signed license says: whether the machine may work, and for how many
\* days.  "old" is history: the cloud decided otherwise after it was signed.
Lease == [active : BOOLEAN, left : 0..MaxGrace, old : BOOLEAN]
License == [key : Keys, lease : Lease]
Call == [from : Machines, key : Keys, kind : {"activate", "heartbeat"},
         at : {"sent", "checked", "written", "answered"}, live : BOOLEAN,
         answer : Lease \cup {None}]

ASSUME NoneAssumption == None \notin License \cup Lease

TypeOK ==
    /\ row \in [Keys -> Row]
    /\ tenantActive \in BOOLEAN
    /\ calls \in SUBSET Call
    /\ \A r \in calls : r.at = "answered" <=> r.answer # None
    /\ file \in [Machines -> License \cup {None}]
    /\ token \in [Machines -> BOOLEAN]
    /\ behind \in [Machines -> BOOLEAN]
    /\ decided \in [Keys -> [status : Status, hw : Machines \cup {None}]]
    /\ since \in [Machines -> 0..MaxGrace]
    /\ events \in 0..MaxEvents

NoRow == [status |-> "none", hw |-> None, life |-> 0, grace |-> 0]

Init ==
    /\ row = [k \in Keys |-> NoRow]
    /\ tenantActive = TRUE
    /\ calls = {}
    /\ file = [m \in Machines |-> None]
    /\ token = [m \in Machines |-> FALSE]
    /\ behind = [m \in Machines |-> FALSE]
    /\ decided = [k \in Keys |-> [status |-> "none", hw |-> None]]
    /\ since = [m \in Machines |-> MaxGrace]
    /\ events = 0

-----------------------------------------------------------------------------
\* Who may work

\* The cloud's view, of key k and machine m.
Entitled(r, active, m) ==
    active /\ r.status = "ACTIVE" /\ r.hw = m /\ r.life > 0

\* The machine's own, from its file (checkLocalLicense), if its clock is right;
\* one that is behind locks it, or makes a day last longer.
Operational(m) == file[m] # None /\ file[m].lease.active /\ file[m].lease.left > 0

\* Every step keeps count of the days a machine is without a claim.
Counts(missing) ==
    since' = [m \in Machines |->
                 IF \E k \in Keys : Entitled(row'[k], tenantActive', m)
                 THEN 0 ELSE missing[m]]

Event == events < MaxEvents /\ events' = events + 1

-----------------------------------------------------------------------------
\* The machine

Waiting(m) == \E r \in calls : r.from = m /\ r.live

\* Mutation: operations of one machine overlap.
MaySendAnyTime(m) == TRUE

\* enqueue: one operation after the other.
MaySend(m) == ~Waiting(m)

Send(m, k, kind) ==
    /\ MaySend(m)
    /\ Cardinality(calls) < MaxCalls
    /\ calls' = calls \cup
           {[from |-> m, key |-> k, kind |-> kind, at |-> "sent",
             live |-> TRUE, answer |-> None]}
    /\ UNCHANGED <<cloud, disk, behind, since, events>>

\* A key that staff enter at the computer.
Activate(m, k) == row[k].status # "none" /\ Send(m, k, "activate")

\* The timer, or staff who press "try again"; without a file there is nothing
\* to send.
Heartbeat(m) == file[m] # None /\ Send(m, file[m].key, "heartbeat")

\* Mutation: a heartbeat stores a valid license only, as an activation does.
AcceptsValidOnly(r) == r.answer.active /\ r.answer.left > 0 /\ ~behind[r.from]

\* What a machine stores.  Activation wants a license that is valid here and
\* now; a heartbeat also stores one that has run out, and a lock whatever the
\* clock says.
Accepts(r) ==
    IF r.kind = "activate"
    THEN r.answer.active /\ r.answer.left > 0 /\ ~behind[r.from]
    ELSE ~r.answer.active \/ ~behind[r.from]

\* persist: license.json is replaced, then the token is written or removed;
\* the process may die in between (cut).
Store(r) ==
    /\ r.live /\ r.at = "answered"
    /\ Accepts(r)
    /\ file' = [file EXCEPT ![r.from] = [key |-> r.key, lease |-> r.answer]]
    /\ \E cut \in BOOLEAN :
          token' = IF cut THEN token
                   ELSE [token EXCEPT ![r.from] = r.answer.active]
    /\ calls' = calls \ {r}
    /\ UNCHANGED <<cloud, behind, since, events>>

Reject(r) ==
    /\ r.live /\ r.at = "answered"
    /\ ~Accepts(r)
    /\ calls' = calls \ {r}
    /\ UNCHANGED <<cloud, disk, behind, since, events>>

\* Fifteen seconds are over, or the process ended: an answer will find nobody,
\* but what is in the cloud goes on.  Only an activation still to be written
\* matters then.
GiveUp(r) ==
    /\ r.live
    /\ calls' = (calls \ {r}) \cup
           (IF r.kind = "activate" /\ r.at \in {"sent", "checked"}
            THEN {[r EXCEPT !.live = FALSE]} ELSE {})
    /\ UNCHANGED <<cloud, disk, behind, since, events>>

\* license.json is lost or unreadable.
FileLost(m) ==
    /\ Event
    /\ file[m] # None
    /\ file' = [file EXCEPT ![m] = None]
    /\ UNCHANGED <<cloud, calls, token, behind, since>>

\* A flat battery; staff set the clock right, as the lock screen asks.
ClockFails(m) ==
    /\ Event
    /\ ~behind[m]
    /\ behind' = [behind EXCEPT ![m] = TRUE]
    /\ UNCHANGED <<cloud, calls, disk, since>>

ClockSet(m) ==
    /\ behind[m]
    /\ behind' = [behind EXCEPT ![m] = FALSE]
    /\ UNCHANGED <<cloud, calls, disk, since, events>>

-----------------------------------------------------------------------------
\* The cloud handles a call

\* First read: may this machine use the key at all?
Admits(r) ==
    LET k == row[r.key] IN
    IF r.kind = "activate"
    THEN /\ k.status \in {"PENDING", "ACTIVE"}
         /\ tenantActive
         /\ k.hw \in {None, r.from}
         /\ k.life > 0
    ELSE k.status # "PENDING" /\ k.hw = r.from

Moves(r, place) ==
    /\ calls' = (calls \ {r}) \cup {[r EXCEPT !.at = place]}
    /\ UNCHANGED <<disk, behind, events>>

Check(r) ==
    /\ r.at = "sent" /\ Admits(r)
    /\ Moves(r, "checked")
    /\ UNCHANGED <<cloud, since>>

\* Mutation: the write trusts what was read.
TrustsTheRead(r) == TRUE

\* The WHERE of the write asks again, all but the account.
StillAdmits(r) ==
    LET k == row[r.key] IN
    IF r.kind = "activate"
    THEN /\ k.status \in {"PENDING", "ACTIVE"}
         /\ k.hw \in {None, r.from}
         /\ k.life > 0
    ELSE k.status # "PENDING" /\ k.hw = r.from

\* An activation binds the key to the machine; a heartbeat writes when it came.
Write(r) ==
    /\ r.at = "checked" /\ StillAdmits(r)
    /\ Moves(r, "written")
    /\ IF r.kind = "activate"
       THEN /\ row' = [row EXCEPT ![r.key].status = "ACTIVE",
                                  ![r.key].hw = r.from]
            /\ decided' = [decided EXCEPT ![r.key].hw = IF @ = None THEN r.from ELSE @]
            /\ UNCHANGED tenantActive
            /\ Counts(since)
       ELSE UNCHANGED <<cloud, since>>

Least(m, n) == IF m <= n THEN m ELSE n

\* Mutation: good for as long as the membership.
OfflineForLife(k) == k.life

\* offlineUntil: never later than the membership ends.
Offline(k) == Least(k.life, k.grace)

\* Mutation: the decision of the account is not signed.
SignedByStatus(k) ==
    [active |-> k.status = "ACTIVE", left |-> Offline(k), old |-> FALSE]

\* sign, for the machine that asked.
Signed(k) ==
    [active |-> tenantActive /\ k.status = "ACTIVE", left |-> Offline(k), old |-> FALSE]

\* Read back: the same questions once more, and a PENDING row is never signed.
\* A caller that gave up hears nothing.
Answer(r) ==
    LET k == row[r.key] IN
    /\ r.at = "written"
    /\ k.hw = r.from
    /\ k.status # "PENDING"
    /\ r.kind = "activate" => k.status = "ACTIVE" /\ k.life > 0
    /\ calls' = (calls \ {r}) \cup
           (IF r.live THEN {[r EXCEPT !.at = "answered", !.answer = Signed(k)]}
                      ELSE {})
    /\ UNCHANGED <<cloud, disk, behind, since, events>>

\* Refused at one of the three places, answered with an error, or cut off with
\* the cloud's process or the connection.
Refuse(r) ==
    /\ r.at # "answered"
    /\ calls' = calls \ {r}
    /\ UNCHANGED <<cloud, disk, behind, since, events>>

-----------------------------------------------------------------------------
\* The operators of the cloud.  Each of their operations is one serializable
\* transaction.

Older(lease) == [lease EXCEPT !.old = TRUE]

\* Answers and files that are about one of the keys are from before.
Outdates(ks) ==
    /\ calls' = {IF r.key \in ks /\ r.at = "answered"
                 THEN [r EXCEPT !.answer = Older(@)] ELSE r : r \in calls}
    /\ file' = [m \in Machines |->
                   IF file[m] # None /\ file[m].key \in ks
                   THEN [file[m] EXCEPT !.lease = Older(@)] ELSE file[m]]

Sets(k, new) ==
    /\ row' = [row EXCEPT ![k] = new]
    /\ decided' = [decided EXCEPT ![k] = [status |-> new.status, hw |-> new.hw]]
    /\ Outdates({k})
    /\ UNCHANGED <<tenantActive, token, behind>>
    /\ Counts(since)

\* One key of the restaurant that is not revoked: a partial unique index.
Create(k) == \E life \in 1..MaxLife, grace \in 0..MaxGrace :
    /\ row[k].status = "none" /\ tenantActive
    /\ \A l \in Keys : row[l].status \in {"none", "REVOKED"}
    /\ Sets(k, [status |-> "PENDING", hw |-> None, life |-> life, grace |-> grace])
    /\ UNCHANGED events

\* assertNotRevoked
Open(k) == row[k].status \notin {"none", "REVOKED"}

\* Decisions that give something back are not counted.
Decide(k, new) == Open(k) /\ Event /\ Sets(k, new)
Restore(k, new) == Open(k) /\ Sets(k, new) /\ UNCHANGED events

Update(k) == \E grace \in 0..MaxGrace \ {row[k].grace} :
    Decide(k, [row[k] EXCEPT !.grace = grace])

\* From today, or from the end of a membership that has not run out.
Extend(k) == \E life \in (row[k].life + 1)..MaxLife :
    Restore(k, [row[k] EXCEPT !.life = life])

Suspend(k) ==
    /\ row[k].status # "SUSPENDED"
    /\ Decide(k, [row[k] EXCEPT !.status = "SUSPENDED"])

Resume(k) ==
    /\ row[k].status = "SUSPENDED" /\ row[k].life > 0
    /\ Restore(k, [row[k] EXCEPT !.status = IF row[k].hw = None THEN "PENDING" ELSE "ACTIVE"])

Revoke(k) == Decide(k, [row[k] EXCEPT !.status = "REVOKED"])

ResetActivation(k) ==
    /\ row[k].hw # None
    /\ Decide(k, [row[k] EXCEPT !.hw = None,
                     !.status = IF @ = "SUSPENDED" THEN @ ELSE "PENDING"])

Rebind(k) == \E m \in Machines \ {row[k].hw} :
    /\ row[k].status # "SUSPENDED" /\ row[k].life > 0
    /\ Decide(k, [row[k] EXCEPT !.hw = m, !.status = "ACTIVE"])

\* The account is disabled, or its row is edited to be active again.
SetTenant ==
    /\ tenantActive' = ~tenantActive
    /\ IF tenantActive THEN Event ELSE UNCHANGED events
    /\ Outdates(Keys)
    /\ UNCHANGED <<row, decided, token, behind>>
    /\ Counts(since)

-----------------------------------------------------------------------------
\* Time

DayLater(n) == IF n = 0 THEN 0 ELSE n - 1

Day ==
    /\ row' = [k \in Keys |-> [row[k] EXCEPT !.life = DayLater(@)]]
    /\ calls' = {IF r.at = "answered" THEN [r EXCEPT !.answer.left = DayLater(@)]
                 ELSE r : r \in calls}
    /\ file' = [m \in Machines |->
                   IF file[m] = None THEN None
                   ELSE [file[m] EXCEPT !.lease.left = DayLater(@)]]
    /\ UNCHANGED <<tenantActive, decided, token, behind, events>>
    /\ Counts([m \in Machines |-> Least(since[m] + 1, MaxGrace)])

-----------------------------------------------------------------------------
Machine(m) ==
    \/ \E k \in Keys : Activate(m, k)
    \/ Heartbeat(m) \/ FileLost(m) \/ ClockFails(m) \/ ClockSet(m)

Handles(r) == Check(r) \/ Write(r) \/ Answer(r) \/ Refuse(r)

Hears(r) == Store(r) \/ Reject(r) \/ GiveUp(r)

Operator(k) ==
    \/ Create(k) \/ Update(k) \/ Extend(k) \/ Suspend(k) \/ Resume(k)
    \/ Revoke(k) \/ ResetActivation(k) \/ Rebind(k)

Next ==
    \/ \E m \in Machines : Machine(m)
    \/ \E r \in calls : Handles(r) \/ Hears(r)
    \/ \E k \in Keys : Operator(k)
    \/ SetTenant
    \/ Day

Spec == Init /\ [][Next]_vars

\* The heartbeats of a machine that still waits for them.
Beats(m) == {r \in calls : r.from = m /\ r.kind = "heartbeat" /\ r.live}

\* Fifteen seconds are far less than a day: an answer is mostly as good as one
\* signed now; and not every power failure comes between two renames.
StoresToday(m) == \E r \in Beats(m) :
    /\ r.at = "answered"
    /\ r.answer.left = Offline(row[r.key])
    /\ Store(r)
    /\ token'[m] = r.answer.active

\* The timer sends heartbeats, and not all fail at the same place for ever;
\* no call is waited for without end; a clock is set right; what is in the
\* cloud is handled; days pass.
Fairness ==
    /\ WF_vars(Day)
    /\ WF_vars(\E r \in calls : ~r.live /\ Handles(r))
    /\ \A m \in Online :
          /\ WF_vars(ClockSet(m))
          /\ WF_vars(\E r \in calls : r.from = m /\ Hears(r))
          /\ SF_vars(Heartbeat(m))
          /\ SF_vars(\E r \in Beats(m) : Check(r))
          /\ SF_vars(\E r \in Beats(m) : Write(r))
          /\ SF_vars(\E r \in Beats(m) : Answer(r))
          /\ SF_vars(StoresToday(m))

FairSpec == Spec /\ Fairness

-----------------------------------------------------------------------------
\* A machine whose clock is right works only if the cloud has had it as the
\* active machine of a paid key within the days of grace: after a suspension,
\* a revocation, a move to another computer or the end of a membership, a
\* license that is stored or on its way runs out in that time, whatever was
\* signed or delivered late.
LeaseBacked == \A m \in Machines :
    Operational(m) /\ ~behind[m] => since[m] < MaxGrace

\* What operators decided stands until they decide otherwise.  Calls that were
\* let in before a decision can neither make a suspended or revoked license
\* active nor take a key from the machine that has it: they only make a
\* pending license active, for the first machine.
DecisionsStand == \A k \in Keys :
    /\ row[k].hw = decided[k].hw
    /\ \/ row[k].status = decided[k].status
       \/ row[k].status = "ACTIVE" /\ decided[k].status = "PENDING"

\* What a machine stores replaces no newer answer about the same key: an
\* active license from before a suspension does not undo the lock.
NewestKept ==
    [][\A m \in Machines :
         file[m] # None /\ file'[m] # None /\ file'[m].key = file[m].key
         /\ ~file[m].lease.old /\ file'[m].lease.old
         => <<row, tenantActive>>' # <<row, tenantActive>>]_vars

\* A machine with a network follows the cloud: it works again and again while
\* it is entitled, and is locked for good once no key entitles it any longer,
\* be it suspended, revoked, disabled with its account, moved, reset or expired.
\* Its token goes with the lock where the cloud still answers it: for a key
\* that is its own and is suspended, revoked or disabled.  After a move or a
\* reset the heartbeat is refused, and after the end of a membership a license
\* without days is signed, with a token: there only the signed days run out,
\* and the token stays on the disk.
Follows == \A m \in Online :
    /\ \A k \in Keys :
          <>[](/\ Entitled(row[k], tenantActive, m) /\ row[k].grace > 0
               /\ file[m] # None /\ file[m].key = k)
             => []<>(Operational(m) /\ ~behind[m] /\ token[m])
    /\ <>[](\A k \in Keys : ~Entitled(row[k], tenantActive, m))
          => <>[]~Operational(m)
    /\ \A k \in Keys :
          <>[](/\ row[k].hw = m /\ row[k].status # "PENDING"
               /\ ~(tenantActive /\ row[k].status = "ACTIVE")
               /\ file[m] # None /\ file[m].key = k)
             => <>[]~token[m]

=============================================================================
