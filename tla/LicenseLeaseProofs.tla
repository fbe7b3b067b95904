------------------------- MODULE LicenseLeaseProofs -------------------------
(***************************************************************************)
(* What a license guarantees for any number of machines, keys, calls and   *)
(* failures.  The days of a lease and the days since the machine was       *)
(* entitled never exceed the grace together (LeaseInv): both change by one *)
(* a day, and a lease is signed for a machine that is entitled (CountInv). *)
(* A machine waits for one call at a time, so no answer to it can be older *)
(* than the license it has stored for the same key (FreshInv).             *)
(***************************************************************************)
EXTENDS LicenseLease, TLAPS

\* A machine that is entitled has gone no day without a claim.
CountInv == \A k \in Keys, m \in Machines :
    Entitled(row[k], tenantActive, m) => since[m] = 0

\* n days without a claim and what is left of a lease.
Within(n, lease) == lease.active => n + lease.left <= MaxGrace

LeaseInv ==
    /\ \A m \in Machines : file[m] # None => Within(since[m], file[m].lease)
    /\ \A r \in calls : r.at = "answered" => Within(since[r.from], r.answer)

FreshInv ==
    /\ \A r, s \in calls : r.live /\ s.live /\ r.from = s.from => r = s
    /\ \A r \in calls :
          /\ r.live /\ r.at = "answered"
          /\ file[r.from] # None /\ file[r.from].key = r.key
          /\ ~file[r.from].lease.old
          => ~r.answer.old

IInv == TypeOK /\ CountInv /\ LeaseInv /\ FreshInv /\ DecisionsStand

-----------------------------------------------------------------------------
LEMMA InitIInv == Init => IInv
BY LicenseAssumption
   DEF Init, IInv, TypeOK, Row, NoRow, Status, CountInv, LeaseInv, FreshInv,
       DecisionsStand, Entitled

\* A decision keeps the count of an entitled machine at zero and lengthens
\* nobody's.
LEMMA CountsType ==
    ASSUME NEW missing \in [Machines -> 0..MaxGrace], Counts(missing)
    PROVE  /\ since' \in [Machines -> 0..MaxGrace]
           /\ \A m \in Machines : since'[m] <= missing[m]
           /\ \A k \in Keys, m \in Machines :
                 Entitled(row'[k], tenantActive', m) => since'[m] = 0
<1>1. \A m \in Machines : missing[m] \in Nat /\ 0 \in 0..MaxGrace
  BY LicenseAssumption
<1>2. \A m \in Machines :
         since'[m] = IF \E k \in Keys : Entitled(row'[k], tenantActive', m)
                     THEN 0 ELSE missing[m]
  BY DEF Counts
<1>3. since' \in [Machines -> 0..MaxGrace]
  BY <1>1, <1>2, Zenon DEF Counts
<1>4. \A m \in Machines : since'[m] = 0 \/ since'[m] = missing[m]
  BY <1>2
<1>5. \A k \in Keys, m \in Machines :
         Entitled(row'[k], tenantActive', m) => since'[m] = 0
  BY <1>2, Zenon
<1> QED BY <1>1, <1>3, <1>4, <1>5

-----------------------------------------------------------------------------
\* What most steps do to calls and files: every answer was there before, a
\* machine waits for one call, and nothing stored changes.

Kin(s, r) ==
    /\ r.at = "answered"
    /\ s.from = r.from /\ s.key = r.key /\ s.answer = r.answer
    /\ s.live => r.live

Quiet ==
    /\ \A s \in calls' : s.at = "answered" => \E r \in calls : Kin(s, r)
    /\ \A r, s \in calls' : r.live /\ s.live /\ r.from = s.from => r = s
    /\ file' = file

LEMMA QuietKeeps ==
    ASSUME IInv, TypeOK', Quiet,
           \A m \in Machines : since'[m] <= since[m]
    PROVE  LeaseInv' /\ FreshInv'
<1> USE DEF IInv
<1>1. \A m \in Machines : since[m] \in Nat /\ since'[m] \in Nat
  BY LicenseAssumption DEF TypeOK
<1>2. \A m \in Machines, lease \in Lease :
         Within(since[m], lease) => Within(since'[m], lease)
  BY <1>1, LicenseAssumption DEF Within, Lease
<1>3. \A m \in Machines : file[m] # None => file[m].lease \in Lease
  BY DEF TypeOK, License
<1>4. \A r \in calls : r.at = "answered" => r.answer \in Lease /\ r.from \in Machines
  BY DEF TypeOK, Call
<1>5. \A m \in Machines : file'[m] # None => Within(since'[m], file'[m].lease)
  BY <1>2, <1>3 DEF Quiet, LeaseInv
<1>6. \A s \in calls' : s.at = "answered" => Within(since'[s.from], s.answer)
  BY <1>2, <1>4 DEF Quiet, Kin, LeaseInv
<1>7. FreshInv'
  BY DEF Quiet, Kin, FreshInv
<1> QED BY <1>5, <1>6, <1>7 DEF LeaseInv

-----------------------------------------------------------------------------
\* Types, one action at a time

LEMMA TypeSend ==
    ASSUME TypeOK, NEW m \in Machines, NEW k \in Keys,
           NEW kind \in {"activate", "heartbeat"}, Send(m, k, kind)
    PROVE  TypeOK'
<1> DEFINE s == [from |-> m, key |-> k, kind |-> kind, at |-> "sent",
                 live |-> TRUE, answer |-> None]
<1>1. s \in Call /\ s.at = "sent" /\ s.answer = None
  BY DEF Call
<1>2. \A q \in calls' : q \in calls \/ q = s
  BY DEF Send
<1> HIDE DEF s
<1>3. calls' \in SUBSET Call /\ \A q \in calls' : q.at = "answered" <=> q.answer # None
  BY <1>1, <1>2 DEF TypeOK
<1> QED BY <1>3 DEF Send, TypeOK, cloud, disk

LEMMA TypeStore ==
    ASSUME TypeOK, NEW r \in calls, Store(r)
    PROVE  TypeOK'
<1>1. r \in Call /\ r.answer # None
  BY DEF TypeOK, Store
<1>2. r.from \in Machines /\ [key |-> r.key, lease |-> r.answer] \in License /\ r.answer.active \in BOOLEAN
  BY <1>1 DEF Call, License, Lease
<1>3. file' \in [Machines -> License \cup {None}] /\ token' \in [Machines -> BOOLEAN]
  BY <1>2 DEF Store, TypeOK
<1> QED BY <1>3 DEF Store, TypeOK, cloud

LEMMA TypeLeave ==
    ASSUME TypeOK, NEW r \in calls, Reject(r) \/ GiveUp(r) \/ Refuse(r)
    PROVE  TypeOK'
<1>1. [r EXCEPT !.live = FALSE] \in Call
  BY DEF TypeOK, Call
<1>2. [r EXCEPT !.live = FALSE].at = r.at /\ [r EXCEPT !.live = FALSE].answer = r.answer
  BY DEF TypeOK, Call
<1>3. \A s \in calls' : s \in calls \/ s = [r EXCEPT !.live = FALSE]
  BY DEF Reject, GiveUp, Refuse
<1>4. calls' \in SUBSET Call /\ \A s \in calls' : s.at = "answered" <=> s.answer # None
  BY <1>1, <1>2, <1>3 DEF TypeOK
<1> QED BY <1>4 DEF Reject, GiveUp, Refuse, TypeOK, cloud, disk

LEMMA TypeMachine ==
    ASSUME TypeOK, NEW m \in Machines, FileLost(m) \/ ClockFails(m) \/ ClockSet(m)
    PROVE  TypeOK'
<1>1. FileLost(m) \/ ClockFails(m) => events' \in 0..MaxEvents
  BY LicenseAssumption DEF TypeOK, FileLost, ClockFails, Event
<1> QED BY <1>1 DEF FileLost, ClockFails, ClockSet, Event, TypeOK, cloud, disk

LEMMA TypeMoves ==
    ASSUME TypeOK, NEW r \in calls, NEW place \in {"checked", "written"},
           r.at \in {"sent", "checked"}, Moves(r, place)
    PROVE  /\ calls' \in SUBSET Call
           /\ \A s \in calls' : s.at = "answered" <=> s.answer # None
<1>1. [r EXCEPT !.at = place] \in Call /\ [r EXCEPT !.at = place].at = place
  BY DEF TypeOK, Call
<1>2. [r EXCEPT !.at = place].answer = r.answer /\ r.answer = None
  BY DEF TypeOK, Call
<1> QED BY <1>1, <1>2 DEF Moves, TypeOK

LEMMA TypeCheck ==
    ASSUME TypeOK, NEW r \in calls, Check(r)
    PROVE  TypeOK'
<1>1. Moves(r, "checked") /\ r.at = "sent"
  BY DEF Check
<1> QED BY <1>1, TypeMoves DEF Check, Moves, TypeOK, cloud, disk

LEMMA TypeWrite ==
    ASSUME TypeOK, NEW r \in calls, Write(r)
    PROVE  TypeOK'
<1>1. Moves(r, "written") /\ r.at = "checked"
  BY DEF Write
<1>2. r.key \in Keys /\ r.from \in Machines
  BY DEF TypeOK, Call
<1>3. row' \in [Keys -> Row]
  BY <1>2 DEF Write, cloud, TypeOK, Row, Status
<1>4. decided' \in [Keys -> [status : Status, hw : Machines \cup {None}]]
  BY <1>2 DEF Write, cloud, TypeOK, Row, Status
<1>5. since' \in [Machines -> 0..MaxGrace]
  BY CountsType DEF Write, TypeOK
<1> QED BY <1>1, <1>3, <1>4, <1>5, TypeMoves DEF Write, Moves, TypeOK, cloud, disk

LEMMA SignedType ==
    ASSUME TypeOK, NEW k \in Keys
    PROVE  Signed(row[k]) \in Lease /\ Offline(row[k]) <= row[k].life
<1>1. row[k].life \in 0..MaxLife /\ row[k].grace \in 0..MaxGrace
  BY DEF TypeOK, Row
<1>2. Offline(row[k]) \in 0..MaxGrace /\ Offline(row[k]) <= row[k].life
  BY <1>1, LicenseAssumption DEF Offline, Least
<1> QED BY <1>2 DEF Signed, Lease, TypeOK

LEMMA TypeAnswer ==
    ASSUME TypeOK, NEW r \in calls, Answer(r)
    PROVE  TypeOK'
<1> DEFINE s == [r EXCEPT !.at = "answered", !.answer = Signed(row[r.key])]
<1>1. r \in Call /\ r.key \in Keys
  BY DEF TypeOK, Call
<1>2. Signed(row[r.key]) \in Lease
  BY <1>1, SignedType
<1>3. s \in Call /\ s.at = "answered" /\ s.answer # None
  BY <1>1, <1>2, NoneAssumption DEF Call
<1>4. \A q \in calls' : q \in calls \/ q = s
  BY DEF Answer
<1> HIDE DEF s
<1>5. calls' \in SUBSET Call /\ \A q \in calls' : q.at = "answered" <=> q.answer # None
  BY <1>3, <1>4 DEF TypeOK
<1> QED BY <1>5 DEF Answer, TypeOK, cloud, disk

LEMMA OutdatesType ==
    ASSUME TypeOK, NEW ks \in SUBSET Keys, Outdates(ks)
    PROVE  /\ calls' \in SUBSET Call
           /\ \A s \in calls' : s.at = "answered" <=> s.answer # None
           /\ file' \in [Machines -> License \cup {None}]
<1>1. \A lease \in Lease : Older(lease) \in Lease
  BY DEF Older, Lease
<1>2. \A r \in calls : r.at = "answered" =>
         /\ [r EXCEPT !.answer = Older(@)] \in Call
         /\ [r EXCEPT !.answer = Older(@)].at = "answered"
         /\ [r EXCEPT !.answer = Older(@)].answer # None
  BY <1>1, NoneAssumption DEF TypeOK, Call
<1>3. calls' \in SUBSET Call /\ \A s \in calls' : s.at = "answered" <=> s.answer # None
  <2> DEFINE new(r) == IF r.key \in ks /\ r.at = "answered"
                       THEN [r EXCEPT !.answer = Older(@)] ELSE r
  <2>1. \A r \in calls : new(r) \in Call /\ (new(r).at = "answered" <=> new(r).answer # None)
    BY <1>2 DEF TypeOK
  <2>2. calls' = {new(r) : r \in calls}
    BY DEF Outdates
  <2> HIDE DEF new
  <2> QED BY <2>1, <2>2
<1>4. \A m \in Machines : file[m] # None => [file[m] EXCEPT !.lease = Older(@)] \in License
  BY <1>1 DEF TypeOK, License
<1> QED BY <1>3, <1>4 DEF Outdates, TypeOK

LEMMA TypeSets ==
    ASSUME TypeOK, NEW k \in Keys, NEW new \in Row, Sets(k, new),
           events' \in 0..MaxEvents
    PROVE  TypeOK'
<1>1. new.status \in Status /\ new.hw \in Machines \cup {None}
  BY DEF Row
<1>2. /\ row' \in [Keys -> Row]
      /\ decided' \in [Keys -> [status : Status, hw : Machines \cup {None}]]
  BY <1>1 DEF Sets, TypeOK
<1>3. since' \in [Machines -> 0..MaxGrace]
  BY CountsType DEF Sets, TypeOK
<1>4. Outdates({k}) /\ {k} \in SUBSET Keys
  BY DEF Sets
<1> QED BY <1>2, <1>3, <1>4, OutdatesType DEF Sets, TypeOK

LEMMA TypeTenant ==
    ASSUME TypeOK, SetTenant
    PROVE  TypeOK'
<1>1. since' \in [Machines -> 0..MaxGrace]
  BY CountsType DEF SetTenant, TypeOK
<1>2. events' \in 0..MaxEvents /\ tenantActive' \in BOOLEAN
  BY LicenseAssumption DEF SetTenant, Event, TypeOK
<1>3. Outdates(Keys)
  BY DEF SetTenant
<1> QED BY <1>1, <1>2, <1>3, OutdatesType DEF SetTenant, TypeOK

LEMMA TypeDay ==
    ASSUME TypeOK, Day
    PROVE  /\ TypeOK'
           /\ \A m \in Machines : since'[m] <= since[m] + 1
           /\ \A k \in Keys, m \in Machines :
                 Entitled(row'[k], tenantActive', m) => since'[m] = 0
<1> DEFINE missing == [m \in Machines |-> Least(since[m] + 1, MaxGrace)]
<1>1. missing \in [Machines -> 0..MaxGrace] /\ \A m \in Machines : missing[m] <= since[m] + 1
  BY LicenseAssumption DEF TypeOK, Least
<1>2. Counts(missing)
  BY DEF Day
<1> HIDE DEF missing
<1>3. since' \in [Machines -> 0..MaxGrace] /\ \A m \in Machines : since'[m] <= missing[m]
  BY <1>1, <1>2, CountsType
<1>4. \A m \in Machines : since'[m] <= since[m] + 1
  BY <1>1, <1>3, LicenseAssumption DEF TypeOK
<1>5. \A n \in 0..MaxGrace : DayLater(n) \in 0..MaxGrace
  BY LicenseAssumption DEF DayLater
<1>6. \A n \in 0..MaxLife : DayLater(n) \in 0..MaxLife
  BY LicenseAssumption DEF DayLater
<1>7. row' \in [Keys -> Row]
  BY <1>6 DEF Day, TypeOK, Row
<1>8. \A r \in calls : r.at = "answered" =>
         /\ [r EXCEPT !.answer.left = DayLater(@)] \in Call
         /\ [r EXCEPT !.answer.left = DayLater(@)].at = "answered"
         /\ [r EXCEPT !.answer.left = DayLater(@)].answer \in Lease
  <2> SUFFICES ASSUME NEW r \in calls, r.at = "answered"
               PROVE  /\ [r EXCEPT !.answer.left = DayLater(@)] \in Call
                      /\ [r EXCEPT !.answer.left = DayLater(@)].at = "answered"
                      /\ [r EXCEPT !.answer.left = DayLater(@)].answer \in Lease
    OBVIOUS
  <2>1. r \in Call /\ r.answer \in Lease
    BY DEF TypeOK, Call
  <2>2. [r.answer EXCEPT !.left = DayLater(@)] \in Lease
    BY <1>5, <2>1 DEF Lease
  <2>3. [r EXCEPT !.answer.left = DayLater(@)]
           = [r EXCEPT !.answer = [r.answer EXCEPT !.left = DayLater(@)]]
    BY <2>1 DEF Call
  <2> QED BY <2>1, <2>2, <2>3 DEF Call
<1>9. calls' \in SUBSET Call /\ \A s \in calls' : s.at = "answered" <=> s.answer # None
  <2> DEFINE new(r) == IF r.at = "answered"
                       THEN [r EXCEPT !.answer.left = DayLater(@)] ELSE r
  <2>1. \A r \in calls : new(r) \in Call /\ (new(r).at = "answered" <=> new(r).answer # None)
    BY <1>8, NoneAssumption DEF TypeOK
  <2>2. calls' = {new(r) : r \in calls}
    BY DEF Day
  <2> HIDE DEF new
  <2> QED BY <2>1, <2>2
<1>10. \A m \in Machines : file[m] # None =>
          [file[m] EXCEPT !.lease.left = DayLater(@)] \in License
  BY <1>5 DEF TypeOK, License, Lease
<1>11. file' \in [Machines -> License \cup {None}]
  BY <1>10 DEF Day, TypeOK
<1>12. \A k \in Keys, m \in Machines :
          Entitled(row'[k], tenantActive', m) => since'[m] = 0
  BY <1>1, <1>2, CountsType
<1> QED BY <1>3, <1>4, <1>7, <1>9, <1>11, <1>12 DEF Day, TypeOK

-----------------------------------------------------------------------------
\* The invariant, one action at a time

LEMMA SendIInv ==
    ASSUME IInv, NEW m \in Machines, NEW k \in Keys,
           NEW kind \in {"activate", "heartbeat"}, Send(m, k, kind)
    PROVE  IInv'
<1> USE DEF IInv
<1>1. TypeOK'
  BY TypeSend
<1> DEFINE s == [from |-> m, key |-> k, kind |-> kind, at |-> "sent",
                 live |-> TRUE, answer |-> None]
<1>2. s.at = "sent" /\ s.from = m
  OBVIOUS
<1>3. calls' = calls \cup {s} /\ \A r \in calls : ~(r.from = m /\ r.live)
  BY DEF Send, MaySend, Waiting
<1> HIDE DEF s
<1>4. \A q \in calls' : q.at = "answered" => \E r \in calls : Kin(q, r)
  BY <1>2, <1>3 DEF Kin
<1>5. \A q, r \in calls' : q.live /\ r.live /\ q.from = r.from => q = r
  BY <1>2, <1>3 DEF FreshInv
<1>6. UNCHANGED <<row, tenantActive, decided, file, since>>
  BY DEF Send, cloud, disk
<1>7. Quiet
  BY <1>4, <1>5, <1>6 DEF Quiet
<1>8. \A n \in Machines : since'[n] <= since[n]
  BY <1>6, LicenseAssumption DEF TypeOK
<1>9. LeaseInv' /\ FreshInv'
  BY <1>1, <1>7, <1>8, QuietKeeps
<1> QED BY <1>1, <1>6, <1>9 DEF CountInv, DecisionsStand, Entitled

LEMMA LeaveIInv ==
    ASSUME IInv, NEW r \in calls, Reject(r) \/ GiveUp(r) \/ Refuse(r)
    PROVE  IInv'
<1> USE DEF IInv
<1>1. TypeOK'
  BY TypeLeave
<1> DEFINE s == [r EXCEPT !.live = FALSE]
<1>2. s.at = r.at /\ s.live = FALSE /\ s.from = r.from /\ s.key = r.key /\ s.answer = r.answer
  BY DEF TypeOK, Call
<1>3. \A q \in calls' : q \in calls \/ q = s
  BY DEF Reject, GiveUp, Refuse
<1> HIDE DEF s
<1>4. \A q \in calls' : q.at = "answered" => \E p \in calls : Kin(q, p)
  BY <1>2, <1>3 DEF Kin
<1>5. \A p, q \in calls' : p.live /\ q.live /\ p.from = q.from => p = q
  BY <1>2, <1>3 DEF FreshInv
<1>6. UNCHANGED <<row, tenantActive, decided, file, since>>
  BY DEF Reject, GiveUp, Refuse, cloud, disk
<1>7. Quiet
  BY <1>4, <1>5, <1>6 DEF Quiet
<1>8. \A n \in Machines : since'[n] <= since[n]
  BY <1>6, LicenseAssumption DEF TypeOK
<1>9. LeaseInv' /\ FreshInv'
  BY <1>1, <1>7, <1>8, QuietKeeps
<1> QED BY <1>1, <1>6, <1>9 DEF CountInv, DecisionsStand, Entitled

LEMMA MachineIInv ==
    ASSUME IInv, NEW m \in Machines, FileLost(m) \/ ClockFails(m) \/ ClockSet(m)
    PROVE  IInv'
<1> USE DEF IInv
<1>1. TypeOK'
  BY TypeMachine
<1>2. UNCHANGED <<row, tenantActive, decided, calls, since>>
  BY DEF FileLost, ClockFails, ClockSet, cloud
<1>3. \A n \in Machines : file'[n] = None \/ file'[n] = file[n]
  BY DEF FileLost, ClockFails, ClockSet, disk, TypeOK
<1>4. \A r \in calls : r.from \in Machines
  BY DEF TypeOK, Call
<1>5. LeaseInv'
  BY <1>2, <1>3 DEF LeaseInv
<1>6. FreshInv'
  BY <1>2, <1>3, <1>4 DEF FreshInv
<1> QED BY <1>1, <1>2, <1>5, <1>6 DEF CountInv, DecisionsStand, Entitled

\* A step of the cloud under a call: the call goes to another place.
LEMMA MovesQuiet ==
    ASSUME IInv, NEW r \in calls, NEW place \in {"checked", "written"},
           Moves(r, place)
    PROVE  Quiet
<1> USE DEF IInv
<1> DEFINE s == [r EXCEPT !.at = place]
<1>1. s.at = place /\ s.live = r.live /\ s.from = r.from
  BY DEF TypeOK, Call
<1>2. calls' = (calls \ {r}) \cup {s}
  BY DEF Moves
<1> HIDE DEF s
<1>3. \A q \in calls' : q.at = "answered" => \E p \in calls : Kin(q, p)
  BY <1>1, <1>2 DEF Kin
<1>4. \A p, q \in calls' : p.live /\ q.live /\ p.from = q.from => p = q
  BY <1>1, <1>2 DEF FreshInv
<1> QED BY <1>3, <1>4 DEF Quiet, Moves, disk

LEMMA CheckIInv ==
    ASSUME IInv, NEW r \in calls, Check(r)
    PROVE  IInv'
<1> USE DEF IInv
<1>1. TypeOK' /\ Quiet
  BY TypeCheck, MovesQuiet DEF Check
<1>2. UNCHANGED <<row, tenantActive, decided, since>>
  BY DEF Check, cloud
<1>3. \A n \in Machines : since'[n] <= since[n]
  BY <1>2, LicenseAssumption DEF TypeOK
<1>4. LeaseInv' /\ FreshInv'
  BY <1>1, <1>3, QuietKeeps
<1> QED BY <1>1, <1>2, <1>4 DEF CountInv, DecisionsStand, Entitled

\* The write of an activation takes a key only that is free or the machine's
\* own, and wakes only a pending license.
LEMMA WriteIInv ==
    ASSUME IInv, NEW r \in calls, Write(r)
    PROVE  IInv'
<1> USE DEF IInv
<1>1. TypeOK' /\ Quiet
  BY TypeWrite, MovesQuiet DEF Write
<1>2. r.key \in Keys /\ r.from \in Machines
  BY DEF TypeOK, Call
<1>3. CASE r.kind = "activate"
  <2>1. /\ row' = [row EXCEPT ![r.key].status = "ACTIVE", ![r.key].hw = r.from]
        /\ decided' = [decided EXCEPT ![r.key].hw = IF @ = None THEN r.from ELSE @]
        /\ Counts(since)
    BY <1>3 DEF Write
  <2>2. row[r.key].status \in {"PENDING", "ACTIVE"} /\ row[r.key].hw \in {None, r.from}
    BY <1>3 DEF Write, StillAdmits
  <2>3. (\A m \in Machines : since'[m] <= since[m]) /\ CountInv'
    BY <2>1, CountsType DEF CountInv, TypeOK
  <2>4. LeaseInv' /\ FreshInv'
    BY <1>1, <2>3, QuietKeeps
  <2>5. /\ row'[r.key].status = "ACTIVE" /\ row'[r.key].hw = r.from
        /\ \A k \in Keys \ {r.key} : row'[k] = row[k] /\ decided'[k] = decided[k]
    BY <1>2, <2>1 DEF TypeOK, Row
  <2>6. /\ decided'[r.key].status = decided[r.key].status
        /\ decided'[r.key].hw = IF decided[r.key].hw = None THEN r.from ELSE decided[r.key].hw
    BY <1>2, <2>1 DEF TypeOK
  <2>7. decided[r.key].hw = row[r.key].hw
    BY <1>2 DEF DecisionsStand
  <2>8. decided'[r.key].hw = r.from
    BY <2>2, <2>6, <2>7
  <2>9. decided[r.key].status \in {"PENDING", "ACTIVE"}
    BY <1>2, <2>2 DEF DecisionsStand
  <2>10. DecisionsStand'
    BY <2>5, <2>6, <2>8, <2>9 DEF DecisionsStand
  <2> QED BY <1>1, <2>3, <2>4, <2>10
<1>4. CASE r.kind # "activate"
  <2>1. UNCHANGED <<row, tenantActive, decided, since>>
    BY <1>4 DEF Write, cloud
  <2>2. \A n \in Machines : since'[n] <= since[n]
    BY <2>1, LicenseAssumption DEF TypeOK
  <2>3. LeaseInv' /\ FreshInv'
    BY <1>1, <2>2, QuietKeeps
  <2> QED BY <1>1, <2>1, <2>3 DEF CountInv, DecisionsStand, Entitled
<1> QED BY <1>3, <1>4

\* What is signed as active is signed for a machine that is entitled, or for
\* no time at all.
LEMMA AnswerIInv ==
    ASSUME IInv, NEW r \in calls, Answer(r)
    PROVE  IInv'
<1> USE DEF IInv
<1>1. TypeOK'
  BY TypeAnswer
<1> DEFINE s == [r EXCEPT !.at = "answered", !.answer = Signed(row[r.key])]
<1>2. s.from = r.from /\ s.key = r.key /\ s.live = r.live /\ s.answer = Signed(row[r.key])
  BY DEF TypeOK, Call
<1>3. \A q \in calls' : q = s \/ q \in calls \ {r}
  BY DEF Answer
<1>4. s.live => r.live
  BY <1>2
<1> HIDE DEF s
<1>5. UNCHANGED <<row, tenantActive, decided, file, since>>
  BY DEF Answer, cloud, disk
<1>6. r.from \in Machines /\ r.key \in Keys /\ row[r.key].hw = r.from
  BY DEF TypeOK, Call, Answer
<1>7. Within(since[r.from], Signed(row[r.key]))
  <2>1. Signed(row[r.key]) \in Lease /\ Offline(row[r.key]) <= row[r.key].life
    BY <1>6, SignedType
  <2>2. Signed(row[r.key]).left = Offline(row[r.key])
    BY DEF Signed
  <2>3. since[r.from] \in 0..MaxGrace /\ row[r.key].life \in Nat /\ MaxGrace \in Nat
    BY <1>6, LicenseAssumption DEF TypeOK, Row
  <2>4. Signed(row[r.key]).left \in 0..MaxGrace
    BY <2>1 DEF Lease
  <2>5. CASE row[r.key].life = 0
    BY <2>1, <2>2, <2>3, <2>4, <2>5 DEF Within
  <2>6. CASE row[r.key].life > 0 /\ Signed(row[r.key]).active
    <3>1. since[r.from] = 0
      BY <1>6, <2>6 DEF CountInv, Entitled, Signed
    <3> QED BY <2>3, <2>4, <3>1 DEF Within
  <2> QED BY <2>3, <2>5, <2>6 DEF Within
<1>8. LeaseInv'
  BY <1>2, <1>3, <1>5, <1>7 DEF LeaseInv
<1>9. Signed(row[r.key]).old = FALSE
  BY DEF Signed
<1>10. \A p, q \in calls' : p.live /\ q.live /\ p.from = q.from => p = q
  BY <1>2, <1>3, <1>4 DEF FreshInv
<1>11. FreshInv'
  BY <1>2, <1>3, <1>5, <1>9, <1>10 DEF FreshInv
<1> QED BY <1>1, <1>5, <1>8, <1>11 DEF CountInv, DecisionsStand, Entitled

LEMMA StoreIInv ==
    ASSUME IInv, NEW r \in calls, Store(r)
    PROVE  IInv'
<1> USE DEF IInv
<1>1. TypeOK'
  BY TypeStore
<1>2. /\ r.live /\ r.at = "answered" /\ calls' = calls \ {r}
      /\ file' = [file EXCEPT ![r.from] = [key |-> r.key, lease |-> r.answer]]
      /\ UNCHANGED <<row, tenantActive, decided, since>>
  BY DEF Store, cloud
<1>3. r.from \in Machines
  BY DEF TypeOK, Call
<1>4. file'[r.from].lease = r.answer /\ \A m \in Machines \ {r.from} : file'[m] = file[m]
  BY <1>2, <1>3 DEF TypeOK
<1>5. LeaseInv'
  BY <1>2, <1>4 DEF LeaseInv
<1>6. \A q \in calls' : q.from \in Machines /\ (q.live => q.from # r.from)
  BY <1>2 DEF FreshInv, TypeOK, Call
<1>7. FreshInv'
  BY <1>2, <1>4, <1>6 DEF FreshInv
<1> QED BY <1>1, <1>2, <1>5, <1>7 DEF CountInv, DecisionsStand, Entitled

\* A decision makes nothing newer: what it does not mark, it does not touch.
LEMMA OutdatesKeeps ==
    ASSUME IInv, NEW ks \in SUBSET Keys, Outdates(ks),
           since' \in [Machines -> 0..MaxGrace],
           \A m \in Machines : since'[m] <= since[m]
    PROVE  LeaseInv' /\ FreshInv'
<1> USE DEF IInv
<1> DEFINE new(r) == IF r.key \in ks /\ r.at = "answered"
                     THEN [r EXCEPT !.answer = Older(@)] ELSE r
<1>1. \A r \in calls : r \in Call /\ (r.at = "answered" => r.answer \in Lease)
  BY DEF TypeOK, Call
<1>2. \A lease \in Lease : /\ Older(lease).active = lease.active
                           /\ Older(lease).left = lease.left
                           /\ Older(lease).old = TRUE
  BY DEF Older, Lease
<1>3. \A r \in calls :
         /\ new(r).at = r.at /\ new(r).live = r.live
         /\ new(r).from = r.from /\ new(r).key = r.key
         /\ new(r).answer = IF r.key \in ks /\ r.at = "answered"
                            THEN Older(r.answer) ELSE r.answer
  BY <1>1 DEF Call
<1>4. calls' = {new(r) : r \in calls}
  BY DEF Outdates
<1> HIDE DEF new
<1>5. \A m \in Machines : since[m] \in Nat /\ since'[m] \in Nat /\ since'[m] <= since[m]
  BY LicenseAssumption DEF TypeOK
<1>6. \A m \in Machines, lease \in Lease :
         Within(since[m], lease) => Within(since'[m], lease) /\ Within(since'[m], Older(lease))
  BY <1>2, <1>5, LicenseAssumption DEF Within, Lease
<1>7. \A r \in calls : r.at = "answered" => Within(since'[r.from], new(r).answer)
  <2> SUFFICES ASSUME NEW r \in calls, r.at = "answered"
               PROVE  Within(since'[r.from], new(r).answer)
    OBVIOUS
  <2>1. r.from \in Machines /\ r.answer \in Lease /\ Within(since[r.from], r.answer)
    BY <1>1 DEF Call, LeaseInv
  <2>2. new(r).answer = r.answer \/ new(r).answer = Older(r.answer)
    BY <1>3
  <2> QED BY <1>6, <2>1, <2>2
<1>8. \A q \in calls' : q.at = "answered" => Within(since'[q.from], q.answer)
  BY <1>3, <1>4, <1>7
<1>9. \A m \in Machines :
         /\ file[m] = None => file'[m] = None
         /\ file[m] # None =>
               /\ file'[m] # None /\ file'[m].key = file[m].key
               /\ file'[m].lease = IF file[m].key \in ks
                                   THEN Older(file[m].lease) ELSE file[m].lease
  <2> SUFFICES ASSUME NEW m \in Machines
               PROVE  /\ file[m] = None => file'[m] = None
                      /\ file[m] # None =>
                            /\ file'[m] # None /\ file'[m].key = file[m].key
                            /\ file'[m].lease = IF file[m].key \in ks
                                   THEN Older(file[m].lease) ELSE file[m].lease
    OBVIOUS
  <2>1. file'[m] = IF file[m] # None /\ file[m].key \in ks
                   THEN [file[m] EXCEPT !.lease = Older(@)] ELSE file[m]
    BY DEF Outdates
  <2>2. file'[m] \in License \cup {None} /\ file[m] \in License \cup {None}
    BY OutdatesType DEF TypeOK
  <2>3. CASE file[m] \in License
    <3>1. file[m] # None /\ file[m] = [key |-> file[m].key, lease |-> file[m].lease]
      BY <2>3, NoneAssumption DEF License
    <3>2. Older(file[m].lease) \in Lease
      BY <2>3 DEF License, Lease, Older
    <3>3. [file[m] EXCEPT !.lease = Older(@)] = [key |-> file[m].key, lease |-> Older(file[m].lease)]
      BY <3>1
    <3>4. [file[m] EXCEPT !.lease = Older(@)] \in License
      BY <2>3, <3>2, <3>3 DEF License
    <3> QED BY <2>1, <3>1, <3>3, <3>4, NoneAssumption
  <2> QED BY <2>1, <2>2, <2>3
<1>10. \A m \in Machines : file[m] # None => file[m].lease \in Lease
  BY DEF TypeOK, License
<1>11. \A m \in Machines : file'[m] # None => Within(since'[m], file'[m].lease)
  BY <1>6, <1>9, <1>10 DEF LeaseInv
<1>12. \A p, q \in calls' : p.live /\ q.live /\ p.from = q.from => p = q
  BY <1>3, <1>4 DEF FreshInv
<1>13. \A r \in calls :
          /\ new(r).live /\ new(r).at = "answered"
          /\ file'[new(r).from] # None /\ file'[new(r).from].key = new(r).key
          /\ ~file'[new(r).from].lease.old
          => ~new(r).answer.old
  <2> SUFFICES ASSUME NEW r \in calls, r.live, r.at = "answered",
                      file'[r.from] # None, file'[r.from].key = r.key,
                      ~file'[r.from].lease.old
               PROVE  ~new(r).answer.old
    BY <1>3
  <2>1. r.from \in Machines
    BY <1>1 DEF Call
  <2>2. file[r.from] # None /\ file[r.from].key = r.key
    BY <1>9, <2>1
  <2>3. r.key \notin ks
    BY <1>2, <1>9, <1>10, <2>1, <2>2
  <2>4. ~file[r.from].lease.old
    BY <1>9, <2>1, <2>2, <2>3
  <2> QED BY <1>3, <2>2, <2>3, <2>4 DEF FreshInv
<1>14. FreshInv'
  BY <1>4, <1>12, <1>13 DEF FreshInv
<1> QED BY <1>8, <1>11, <1>14 DEF LeaseInv

LEMMA SetsIInv ==
    ASSUME IInv, NEW k \in Keys, NEW new \in Row, Sets(k, new),
           events' \in 0..MaxEvents
    PROVE  IInv'
<1> USE DEF IInv
<1>1. TypeOK'
  BY TypeSets
<1>2. Counts(since) /\ since \in [Machines -> 0..MaxGrace] /\ Outdates({k}) /\ {k} \in SUBSET Keys
  BY DEF Sets, TypeOK
<1>3. (\A m \in Machines : since'[m] <= since[m]) /\ CountInv'
  BY <1>2, CountsType DEF CountInv
<1>4. LeaseInv' /\ FreshInv'
  BY <1>1, <1>2, <1>3, OutdatesKeeps DEF TypeOK
<1>5. /\ row'[k] = new /\ decided'[k].status = new.status /\ decided'[k].hw = new.hw
      /\ \A l \in Keys \ {k} : row'[l] = row[l] /\ decided'[l] = decided[l]
  BY DEF Sets, TypeOK
<1>6. DecisionsStand'
  BY <1>5 DEF DecisionsStand
<1> QED BY <1>1, <1>3, <1>4, <1>6

LEMMA SetTenantIInv ==
    ASSUME IInv, SetTenant
    PROVE  IInv'
<1> USE DEF IInv
<1>1. TypeOK'
  BY TypeTenant
<1>2. Counts(since) /\ since \in [Machines -> 0..MaxGrace] /\ Outdates(Keys)
  BY DEF SetTenant, TypeOK
<1>3. (\A m \in Machines : since'[m] <= since[m]) /\ CountInv'
  BY <1>2, CountsType DEF CountInv
<1>4. LeaseInv' /\ FreshInv'
  BY <1>1, <1>2, <1>3, OutdatesKeeps DEF TypeOK
<1>5. DecisionsStand'
  BY DEF SetTenant, DecisionsStand
<1> QED BY <1>1, <1>3, <1>4, <1>5

\* A day takes one from what is left and adds at most one to what is missing.
LEMMA DayIInv ==
    ASSUME IInv, Day
    PROVE  IInv'
<1> USE DEF IInv
<1>1. /\ TypeOK' /\ CountInv'
      /\ \A m \in Machines : since'[m] <= since[m] + 1
  BY TypeDay DEF CountInv
<1> DEFINE new(r) == IF r.at = "answered"
                     THEN [r EXCEPT !.answer.left = DayLater(@)] ELSE r
<1>2. \A r \in calls : r \in Call /\ (r.at = "answered" => r.answer \in Lease)
  BY DEF TypeOK, Call
<1>3. \A r \in calls :
         /\ new(r).at = r.at /\ new(r).live = r.live
         /\ new(r).from = r.from /\ new(r).key = r.key
  BY <1>2 DEF Call
<1>4. \A r \in calls : r.at = "answered" =>
         /\ new(r).answer.active = r.answer.active
         /\ new(r).answer.old = r.answer.old
         /\ new(r).answer.left = DayLater(r.answer.left)
  BY <1>2 DEF Call, Lease
<1>5. calls' = {new(r) : r \in calls}
  BY DEF Day
<1> HIDE DEF new
<1>6. \A m \in Machines : since[m] \in 0..MaxGrace /\ since'[m] \in 0..MaxGrace
  BY <1>1 DEF TypeOK
<1>7. \A m \in Machines, lease \in Lease : \A later :
         /\ Within(since[m], lease)
         /\ later.active = lease.active /\ later.left = DayLater(lease.left)
         => Within(since'[m], later)
  BY <1>1, <1>6, LicenseAssumption DEF Within, Lease, DayLater
<1>8. \A r \in calls : r.at = "answered" => Within(since'[r.from], new(r).answer)
  BY <1>2, <1>4, <1>7 DEF Call, LeaseInv
<1>9. \A q \in calls' : q.at = "answered" => Within(since'[q.from], q.answer)
  BY <1>3, <1>5, <1>8
<1>10. \A m \in Machines :
          /\ file[m] = None => file'[m] = None
          /\ file[m] # None =>
                /\ file'[m] # None /\ file'[m].key = file[m].key
                /\ file'[m].lease.active = file[m].lease.active
                /\ file'[m].lease.old = file[m].lease.old
                /\ file'[m].lease.left = DayLater(file[m].lease.left)
  <2> SUFFICES ASSUME NEW m \in Machines
               PROVE  /\ file[m] = None => file'[m] = None
                      /\ file[m] # None =>
                            /\ file'[m] # None /\ file'[m].key = file[m].key
                            /\ file'[m].lease.active = file[m].lease.active
                            /\ file'[m].lease.old = file[m].lease.old
                            /\ file'[m].lease.left = DayLater(file[m].lease.left)
    OBVIOUS
  <2>1. file'[m] = IF file[m] = None THEN None
                   ELSE [file[m] EXCEPT !.lease.left = DayLater(@)]
    BY DEF Day
  <2>2. file'[m] \in License \cup {None} /\ file[m] \in License \cup {None}
    BY <1>1 DEF TypeOK
  <2>3. CASE file[m] \in License
    <3>1. DayLater(file[m].lease.left) \in 0..MaxGrace
      BY <2>3, LicenseAssumption DEF License, Lease, DayLater
    <3>2. /\ [file[m] EXCEPT !.lease.left = DayLater(@)] \in License
          /\ [file[m] EXCEPT !.lease.left = DayLater(@)].key = file[m].key
          /\ [file[m] EXCEPT !.lease.left = DayLater(@)].lease.active = file[m].lease.active
          /\ [file[m] EXCEPT !.lease.left = DayLater(@)].lease.old = file[m].lease.old
          /\ [file[m] EXCEPT !.lease.left = DayLater(@)].lease.left = DayLater(file[m].lease.left)
      BY <2>3, <3>1 DEF License, Lease
    <3>3. file[m] # None
      BY <2>3, NoneAssumption
    <3> QED BY <2>1, <3>2, <3>3, NoneAssumption
  <2> QED BY <2>1, <2>2, <2>3
<1>11. \A m \in Machines : file[m] # None => file[m].lease \in Lease
  BY DEF TypeOK, License
<1>12. \A m \in Machines : file'[m] # None => Within(since'[m], file'[m].lease)
  BY <1>7, <1>10, <1>11 DEF LeaseInv
<1>13. \A p, q \in calls' : p.live /\ q.live /\ p.from = q.from => p = q
  BY <1>3, <1>5 DEF FreshInv
<1>14. \A r \in calls :
          /\ new(r).live /\ new(r).at = "answered"
          /\ file'[new(r).from] # None /\ file'[new(r).from].key = new(r).key
          /\ ~file'[new(r).from].lease.old
          => ~new(r).answer.old
  <2> SUFFICES ASSUME NEW r \in calls, r.live, r.at = "answered",
                      file'[r.from] # None, file'[r.from].key = r.key,
                      ~file'[r.from].lease.old
               PROVE  ~new(r).answer.old
    BY <1>3
  <2>1. r.from \in Machines
    BY <1>2 DEF Call
  <2>2. file[r.from] # None /\ file[r.from].key = r.key /\ ~file[r.from].lease.old
    BY <1>10, <2>1
  <2> QED BY <1>4, <2>2 DEF FreshInv
<1>15. FreshInv'
  BY <1>5, <1>13, <1>14 DEF FreshInv
<1>16. \A k \in Keys : row'[k].status = row[k].status /\ row'[k].hw = row[k].hw
  BY DEF Day, TypeOK, Row
<1>17. DecisionsStand'
  BY <1>16 DEF Day, DecisionsStand
<1> QED BY <1>1, <1>9, <1>12, <1>15, <1>17 DEF LeaseInv

-----------------------------------------------------------------------------
\* Every operation of an operator sets the row of one key, and changes it.
LEMMA OperatorSets ==
    ASSUME TypeOK, NEW k \in Keys, Operator(k)
    PROVE  /\ events' \in 0..MaxEvents
           /\ \E new \in Row : new # row[k] /\ Sets(k, new)
<1>1. row[k] \in Row
  BY DEF TypeOK
<1>2. Event => events' \in 0..MaxEvents
  BY LicenseAssumption DEF TypeOK, Event
<1>3. CASE Create(k)
  <2>1. PICK life \in 1..MaxLife, grace \in 0..MaxGrace :
           /\ row[k].status = "none"
           /\ Sets(k, [status |-> "PENDING", hw |-> None, life |-> life, grace |-> grace])
           /\ UNCHANGED events
    BY <1>3 DEF Create
  <2> DEFINE new == [status |-> "PENDING", hw |-> None, life |-> life, grace |-> grace]
  <2>2. life \in 0..MaxLife
    BY LicenseAssumption
  <2>3. new \in Row /\ new.status # row[k].status
    BY <2>1, <2>2 DEF Row, Status
  <2> QED BY <2>1, <2>3 DEF TypeOK
<1>4. CASE Update(k)
  <2>1. PICK grace \in 0..MaxGrace \ {row[k].grace} :
           Decide(k, [row[k] EXCEPT !.grace = grace])
    BY <1>4 DEF Update
  <2>2. [row[k] EXCEPT !.grace = grace] \in Row /\ [row[k] EXCEPT !.grace = grace] # row[k]
    BY <1>1, <2>1 DEF Row
  <2> QED BY <1>2, <2>1, <2>2 DEF Decide
<1>5. CASE Extend(k)
  <2>1. PICK life \in (row[k].life + 1)..MaxLife :
           Restore(k, [row[k] EXCEPT !.life = life])
    BY <1>5 DEF Extend
  <2>2. row[k].life \in Nat /\ life \in 0..MaxLife /\ life # row[k].life
    BY <1>1, <2>1, LicenseAssumption DEF Row
  <2>3. [row[k] EXCEPT !.life = life] \in Row /\ [row[k] EXCEPT !.life = life] # row[k]
    BY <1>1, <2>2 DEF Row
  <2> QED BY <2>1, <2>3 DEF Restore, TypeOK
<1>6. CASE Suspend(k)
  <2>1. /\ [row[k] EXCEPT !.status = "SUSPENDED"] \in Row
        /\ [row[k] EXCEPT !.status = "SUSPENDED"] # row[k]
    BY <1>1, <1>6 DEF Row, Status, Suspend
  <2> QED BY <1>2, <1>6, <2>1 DEF Suspend, Decide
<1>7. CASE Resume(k)
  <2> DEFINE to == IF row[k].hw = None THEN "PENDING" ELSE "ACTIVE"
  <2>1. to \in Status /\ to # row[k].status
    BY <1>7 DEF Resume, Status
  <2>2. Restore(k, [row[k] EXCEPT !.status = to])
    BY <1>7 DEF Resume
  <2> HIDE DEF to
  <2>3. [row[k] EXCEPT !.status = to] \in Row /\ [row[k] EXCEPT !.status = to] # row[k]
    BY <1>1, <2>1 DEF Row
  <2> QED BY <2>2, <2>3 DEF Restore, TypeOK
<1>8. CASE Revoke(k)
  <2>1. /\ [row[k] EXCEPT !.status = "REVOKED"] \in Row
        /\ [row[k] EXCEPT !.status = "REVOKED"] # row[k]
    BY <1>1, <1>8 DEF Row, Status, Revoke, Decide, Open
  <2> QED BY <1>2, <1>8, <2>1 DEF Revoke, Decide
<1>9. CASE ResetActivation(k)
  <2> DEFINE to == IF row[k].status = "SUSPENDED" THEN row[k].status ELSE "PENDING"
  <2>1. to \in Status /\ row[k].hw # None
    BY <1>9 DEF ResetActivation, Status
  <2>2. [row[k] EXCEPT !.hw = None, !.status = IF @ = "SUSPENDED" THEN @ ELSE "PENDING"]
           = [row[k] EXCEPT !.hw = None, !.status = to]
    BY <1>1 DEF Row
  <2>3. Decide(k, [row[k] EXCEPT !.hw = None, !.status = to])
    BY <1>9, <2>2 DEF ResetActivation
  <2> HIDE DEF to
  <2>4. [row[k] EXCEPT !.hw = None, !.status = to] \in Row
    BY <1>1, <2>1 DEF Row
  <2>5. [row[k] EXCEPT !.hw = None, !.status = to].hw # row[k].hw
    BY <1>1, <2>1 DEF Row
  <2> QED BY <1>2, <2>3, <2>4, <2>5 DEF Decide
<1>10. CASE Rebind(k)
  <2>1. PICK m \in Machines \ {row[k].hw} :
           Decide(k, [row[k] EXCEPT !.hw = m, !.status = "ACTIVE"])
    BY <1>10 DEF Rebind
  <2>2. [row[k] EXCEPT !.hw = m, !.status = "ACTIVE"] \in Row
    BY <1>1, <2>1 DEF Row, Status
  <2>3. [row[k] EXCEPT !.hw = m, !.status = "ACTIVE"].hw # row[k].hw
    BY <1>1, <2>1 DEF Row
  <2> QED BY <1>2, <2>1, <2>2, <2>3 DEF Decide
<1> QED BY <1>3, <1>4, <1>5, <1>6, <1>7, <1>8, <1>9, <1>10 DEF Operator

LEMMA StepIInv == IInv /\ [Next]_vars => IInv'
<1> SUFFICES ASSUME IInv, [Next]_vars PROVE IInv'
  OBVIOUS
<1>1. CASE \E m \in Machines : Machine(m)
  <2>1. PICK m \in Machines : Machine(m)
    BY <1>1
  <2>2. CASE \E k \in Keys : Activate(m, k)
    BY <2>2, SendIInv DEF Activate
  <2>3. CASE Heartbeat(m)
    <3>1. file[m].key \in Keys
      BY <2>3 DEF Heartbeat, IInv, TypeOK, License
    <3> QED BY <2>3, <3>1, SendIInv DEF Heartbeat
  <2>4. CASE FileLost(m) \/ ClockFails(m) \/ ClockSet(m)
    BY <2>4, MachineIInv
  <2> QED BY <2>1, <2>2, <2>3, <2>4 DEF Machine
<1>2. CASE \E r \in calls : Handles(r) \/ Hears(r)
  BY <1>2, CheckIInv, WriteIInv, AnswerIInv, StoreIInv, LeaveIInv DEF Handles, Hears
<1>3. CASE \E k \in Keys : Operator(k)
  BY <1>3, OperatorSets, SetsIInv DEF IInv
<1>4. CASE SetTenant
  BY <1>4, SetTenantIInv
<1>5. CASE Day
  BY <1>5, DayIInv
<1>6. CASE UNCHANGED vars
  BY <1>6 DEF vars, cloud, disk, IInv, TypeOK, CountInv, LeaseInv, FreshInv,
              DecisionsStand, Entitled, Within
<1> QED BY <1>1, <1>2, <1>3, <1>4, <1>5, <1>6 DEF Next

\* Only a decision that changes the cloud's rows makes a stored license old,
\* and what a machine stores is not older than what it has.
LEMMA StepKeepsNewest ==
    ASSUME IInv, [Next]_vars, NEW m \in Machines,
           file[m] # None, file'[m] # None, file'[m].key = file[m].key,
           ~file[m].lease.old, file'[m].lease.old
    PROVE  <<row, tenantActive>>' # <<row, tenantActive>>
<1> USE DEF IInv
<1>1. CASE \E n \in Machines : Machine(n)
  <2>1. file'[m] = None \/ file'[m] = file[m]
    BY <1>1 DEF Machine, Activate, Heartbeat, Send, FileLost, ClockFails, ClockSet,
                disk, TypeOK
  <2> QED BY <2>1
<1>2. CASE \E r \in calls : Handles(r) \/ Reject(r) \/ GiveUp(r)
  <2>1. file' = file
    BY <1>2 DEF Handles, Check, Write, Answer, Refuse, Moves, Reject, GiveUp, disk
  <2> QED BY <2>1
<1>3. CASE \E r \in calls : Store(r)
  <2>1. PICK r \in calls : Store(r)
    BY <1>3
  <2>2. r.from \in Machines /\ r.live /\ r.at = "answered"
    BY <2>1 DEF Store, TypeOK, Call
  <2>3. /\ file'[r.from] = [key |-> r.key, lease |-> r.answer]
        /\ \A n \in Machines \ {r.from} : file'[n] = file[n]
    BY <2>1, <2>2 DEF Store, TypeOK
  <2>4. m = r.from /\ r.key = file[m].key /\ r.answer.old
    BY <2>3
  <2> QED BY <2>2, <2>4 DEF FreshInv
<1>4. CASE \E k \in Keys : Operator(k)
  <2>1. PICK k \in Keys : \E new \in Row : new # row[k] /\ Sets(k, new)
    BY <1>4, OperatorSets
  <2>2. row'[k] # row[k]
    BY <2>1 DEF Sets, TypeOK
  <2> QED BY <2>2
<1>5. CASE SetTenant
  BY <1>5 DEF SetTenant, TypeOK
<1>6. CASE Day
  <2>1. file'[m] = [file[m] EXCEPT !.lease.left = DayLater(@)]
    BY <1>6 DEF Day
  <2>2. file'[m].lease.old = file[m].lease.old
    BY <2>1 DEF TypeOK, License, Lease
  <2> QED BY <2>2
<1>7. CASE UNCHANGED vars
  BY <1>7 DEF vars, disk
<1> QED BY <1>1, <1>2, <1>3, <1>4, <1>5, <1>6, <1>7 DEF Next, Hears

LEMMA SpecIInv == Spec => []IInv
BY InitIInv, StepIInv, PTL DEF Spec

-----------------------------------------------------------------------------
\* Rows, calls and files keep their shape: an answer is in a call exactly when
\* the cloud has signed it (license.service.ts, client.ts).
THEOREM LicenseTypeCorrect == Spec => []TypeOK
<1>1. IInv => TypeOK
  BY DEF IInv
<1> QED BY <1>1, SpecIInv, PTL

\* A suspended, revoked, moved or unpaid license runs out within the days of
\* grace on every machine, whatever was signed or delivered late.
THEOREM LicenseLeaseBacked == Spec => []LeaseBacked
<1>1. IInv => LeaseBacked
  <2> SUFFICES ASSUME IInv, NEW m \in Machines, Operational(m)
               PROVE  since[m] < MaxGrace
    BY DEF LeaseBacked
  <2>1. file[m] # None /\ file[m].lease.active /\ file[m].lease.left > 0
    BY DEF Operational
  <2>2. since[m] \in 0..MaxGrace /\ file[m].lease.left \in 0..MaxGrace
    BY <2>1 DEF IInv, TypeOK, License, Lease
  <2>3. since[m] + file[m].lease.left <= MaxGrace
    BY <2>1 DEF IInv, LeaseInv, Within
  <2> QED BY <2>1, <2>2, <2>3, LicenseAssumption
<1> QED BY <1>1, SpecIInv, PTL

\* The conditional write of an activation (license.service.ts) never undoes
\* what an operator decided while the call was under way.
THEOREM LicenseDecisionsStand == Spec => []DecisionsStand
<1>1. IInv => DecisionsStand
  BY DEF IInv
<1> QED BY <1>1, SpecIInv, PTL

\* With one operation of a machine at a time (enqueue), no late answer
\* replaces a newer license of the same key.
THEOREM LicenseNewestKept == Spec => NewestKept
<1>1. IInv /\ [Next]_vars =>
         [\A m \in Machines :
            file[m] # None /\ file'[m] # None /\ file'[m].key = file[m].key
            /\ ~file[m].lease.old /\ file'[m].lease.old
            => <<row, tenantActive>>' # <<row, tenantActive>>]_vars
  BY StepKeepsNewest
<1> QED BY <1>1, SpecIInv, PTL DEF Spec, NewestKept

=============================================================================
