-------------------------- MODULE OrderLedgerProofs --------------------------
(***************************************************************************)
(* Any number of requests on any number of orders.                         *)
(*                                                                         *)
(* IInv is what survives every overlap: types, payments and their sum, the *)
(* ticket of a cancelled line.  The totals and the tables need more:       *)
(*                                                                         *)
(* Base      what two requests share is torn, a locked row stays as it was *)
(*           written from, and lines stay with their order;                *)
(* TotalInv  on an order that nothing has torn, what was read is what is   *)
(*           there, and the total is right or about to be written;         *)
(* TableInv  a table that nothing has torn is right or about to be         *)
(*           written, and marks are what the transaction leaves behind.    *)
(***************************************************************************)
EXTENDS OrderLedger, FiniteSetTheorems, TLAPS

OnLine == {"item", "quantity"}
Holds(q) == /\ q.kind \in {"create", "status", "transfer", "delete"}
            /\ q.at \in {"count", "mark", "commit"}

\* A row whose sum is that of its payments, all of them but n known.
Honest(row, o, n) == row.paid = row.payments /\ row.paid <= taken[o] + n

\* The rows a request works on are there: no operation removes one.
Placed(q) ==
    /\ q.at = "read" => q.kind \in OnOrder
    /\ q.at \in {"reread", "total"} => q.kind \in OnLine
    /\ q.at = "commit" => Holds(q)
    /\ q.at \in {"count", "mark"} => q.sync # <<>>
    /\ q.kind \in OnOrder => q.order \in Orders /\ orders[q.order] \in Row
    /\ q.kind \in OnLine => q.line \in Lines /\ lines[q.line] \in Line
    /\ q.kind = "create" => q.line \in Lines
    /\ q.kind = "create" /\ q.at = "find" => q.order = None
    /\ q.kind = "create" /\ q.at = "write" /\ q.order # None =>
          orders[q.order] \in Row
    /\ q.kind \in {"transfer", "cleanup"} => q.table \in Tables
    /\ q.kind = "quantity" => q.number \in 1..MaxQuantity

\* What a request has read, or written and not committed.
Known(q) ==
    /\ q.at = "write" /\ q.kind \in OnOrder /\ q.kind # "delete" => q.row \in Row
    /\ q.at = "write" /\ q.kind \in OnLine => q.old \in Line
    /\ q.at = "total" => q.row \in Row
    /\ q.at = "write" /\ q.kind = "status" => Honest(q.row, q.order, 0)
    /\ q.at = "write" /\ q.kind = "item" /\ q.old.cancelled =>
          tickets[q.line] > 0
    /\ Holds(q) => /\ q.order \in Orders /\ q.row \in Row
                   /\ Honest(q.row, q.order, q.number)

Sound(q) == Placed(q) /\ Known(q)

LineInv == \A l \in Lines : lines[l] # None => orders[lines[l].order] \in Row

\* Everything but what requests are at.
RowInv ==
    /\ LineInv
    /\ PaidIsPayments
    /\ CancelledHasTicket

IInv ==
    /\ TypeOK
    /\ \A r \in Requests : Sound(request[r])
    /\ RowInv

RowType ==
    /\ orders \in [Orders -> Row \cup {None}]
    /\ lines \in [Lines -> Line \cup {None}]
    /\ tables \in [Tables -> TableStatus]
    /\ tickets \in [Lines -> Nat]
    /\ taken \in [Orders -> Nat]
    /\ cancels \in [Lines -> Nat]
    /\ torn \subseteq Orders \cup Tables
    /\ starts \in 0..MaxStarts

-----------------------------------------------------------------------------
\* Idle is a request that asks for nothing.
LEMMA IdleSound == Idle \in Request /\ Sound(Idle) /\ Sound(Idle)'
<1>1. Idle \in Request
  BY DEF Idle, Request, Place, Kind, Status
<1>2. /\ Idle.at = "idle" /\ Idle.kind = "none"
  BY DEF Idle
<1> QED BY <1>1, <1>2 DEF Sound, Placed, Known, Holds, OnOrder, OnLine

LEMMA InitIInv == Init => IInv
<1> SUFFICES ASSUME Init PROVE IInv
  OBVIOUS
<1> USE DEF Init
<1>1. TypeOK
  BY IdleSound, BoundsType DEF TypeOK, TableStatus
<1>2. \A r \in Requests : Sound(request[r])
  BY IdleSound
<1>3. PaidIsPayments /\ CancelledHasTicket
  BY DEF PaidIsPayments, CancelledHasTicket
<1>4. LineInv
  BY DEF LineInv
<1> QED BY <1>1, <1>2, <1>3, <1>4 DEF IInv, RowInv

-----------------------------------------------------------------------------
\* Rows stay and what is known only grows, so a request stays sound.
Grows ==
    /\ \A o \in Orders : /\ orders[o] \in Row => orders'[o] \in Row
                         /\ taken[o] <= taken'[o]
    /\ \A l \in Lines : /\ lines[l] \in Line => lines'[l] \in Line
                        /\ tickets[l] <= tickets'[l]

LEMMA StaysSound ==
    ASSUME RowType, RowType', Grows, NEW q \in Request, Sound(q)
    PROVE  Sound(q)'
<1>1. q.order \in Orders \cup {None}
  BY DEF Request
<1>2. Placed(q)'
  BY <1>1 DEF Sound, Placed, Grows, Holds, OnOrder, OnLine
<1>3. ASSUME NEW row \in Row, NEW o \in Orders, NEW n \in Nat, Honest(row, o, n)
      PROVE  Honest(row, o, n)'
  BY <1>3 DEF Honest, Grows, RowType, Row
<1>4. q.number \in Nat
  BY DEF Request
<1>5. q.at = "write" /\ q.kind = "status" => Honest(q.row, q.order, 0)'
  BY <1>3 DEF Sound, Known, Placed, OnOrder
<1>6. Holds(q) => Honest(q.row, q.order, q.number)'
  BY <1>3, <1>4 DEF Sound, Known
<1>7. q.at = "write" /\ q.kind = "item" /\ q.old.cancelled => tickets'[q.line] > 0
  BY DEF Sound, Known, Placed, Grows, RowType, OnLine
<1>8. Known(q)'
  BY <1>5, <1>6, <1>7 DEF Sound, Known, Holds
<1> QED BY <1>2, <1>8 DEF Sound

\* A step of one request that grows the rows.
LEMMA StepIInv ==
    ASSUME IInv, NEW r \in Requests, NEW m \in Request, Sound(m)',
           request' = [request EXCEPT ![r] = m], RowType', Grows, RowInv'
    PROVE  IInv'
<1>1. TypeOK'
  BY DEF IInv, TypeOK, RowType
<1>2. ASSUME NEW q \in Requests
      PROVE  Sound(request[q])'
  <2>1. CASE q = r
    <3>1. request'[q] = m
      BY <2>1 DEF IInv, TypeOK
    <3> QED BY <3>1 DEF Sound, Placed, Known, Honest, Holds
  <2>2. CASE q # r
    <3>1. request[q] \in Request /\ Sound(request[q]) /\ RowType
      BY DEF IInv, TypeOK, RowType
    <3>2. PICK p \in Request : p = request[q]
      BY <3>1
    <3>3. Sound(p)
      BY <3>1, <3>2
    <3>4. Sound(p)'
      BY <3>1, <3>3, StaysSound
    <3>5. request'[q] = p
      BY <2>2, <3>2 DEF IInv, TypeOK
    <3> QED BY <3>4, <3>5 DEF Sound, Placed, Known, Honest, Holds
  <2> QED BY <2>1, <2>2
<1> QED BY <1>1, <1>2 DEF IInv

\* A step of one request that leaves the rows alone.
LEMMA StillIInv ==
    ASSUME IInv, NEW r \in Requests, NEW m \in Request, Sound(m),
           request' = [request EXCEPT ![r] = m],
           UNCHANGED <<rows, taken, cancels>>,
           torn' \subseteq Orders \cup Tables, starts' \in 0..MaxStarts
    PROVE  IInv'
<1>1. /\ UNCHANGED <<orders, lines, tables, tickets>>
      /\ UNCHANGED <<taken, cancels>>
  BY DEF rows
<1>2. RowType'
  BY <1>1 DEF IInv, TypeOK, RowType
<1>3. Grows
  BY <1>1 DEF Grows, IInv, TypeOK
<1>4. RowInv'
  BY <1>1 DEF IInv, RowInv, LineInv, PaidIsPayments, CancelledHasTicket
<1>5. Sound(m)'
  BY <1>1 DEF Sound, Placed, Known, Honest, Holds
<1> QED BY <1>2, <1>3, <1>4, <1>5, StepIInv

LEMMA RequestSound ==
    ASSUME IInv, NEW r \in Requests
    PROVE  request[r] \in Request /\ Sound(request[r])
  BY DEF IInv, TypeOK

-----------------------------------------------------------------------------
\* Beginnings and ends

LEMMA TouchedType ==
    ASSUME TypeOK, NEW q \in Request, Placed(q)
    PROVE  Touched(q) \subseteq Orders \cup Tables
<1>1. q.order \in Orders \cup {None} /\ q.table \in Tables \cup {None}
  BY DEF Request
<1>2. q.kind \in OnOrder => orders[q.order].table \in Tables \cup {None}
  BY DEF Placed, Row
<1> QED BY <1>1, <1>2 DEF Touched, OnOrder

LEMMA StartIInv ==
    ASSUME IInv, NEW r \in Requests, NEW m \in Request, Sound(m), Start(r, m)
    PROVE  IInv'
<1>1. \A p \in Requests : Touched(request[p]) \subseteq Orders \cup Tables
  BY RequestSound, TouchedType DEF IInv, Sound
<1>2. Touched(m) \subseteq Orders \cup Tables
  BY TouchedType DEF IInv, Sound
<1>3. torn' \subseteq Orders \cup Tables
  BY <1>1, <1>2 DEF Start, IInv, TypeOK
<1>4. starts' \in 0..MaxStarts
  BY BoundsType DEF Start, IInv, TypeOK
<1>5. /\ request' = [request EXCEPT ![r] = m]
      /\ UNCHANGED <<rows, taken, cancels>>
  BY DEF Start
<1> QED BY <1>3, <1>4, <1>5, StillIInv

LEMMA DiesIInv ==
    ASSUME IInv, NEW r \in Requests, Dies(r)
    PROVE  IInv'
<1>1. Touched(request[r]) \subseteq Orders \cup Tables
  BY RequestSound, TouchedType DEF IInv, Sound
<1>2. torn' \subseteq Orders \cup Tables /\ starts' \in 0..MaxStarts
  BY <1>1 DEF Dies, IInv, TypeOK
<1>3. /\ request' = [request EXCEPT ![r] = Idle]
      /\ UNCHANGED <<rows, taken, cancels>>
  BY DEF Dies, Done, To
<1> QED BY <1>2, <1>3, IdleSound, StillIInv

\* A request just begun is sound.
Asks(m) == m \in Request /\ Sound(m)

LEMMA CreateAsks ==
    ASSUME NEW t \in Tables \cup {None}, NEW at \in {"find", "write"}, NEW l \in Lines
    PROVE  Asks([Idle EXCEPT !.at = at, !.kind = "create", !.table = t, !.line = l])
<1> DEFINE m == [Idle EXCEPT !.at = at, !.kind = "create", !.table = t, !.line = l]
<1>1. m \in Request
  BY IdleSound DEF Request, Place, Kind
<1>2. Sound(m)
  BY DEF Idle, Sound, Placed, Known, Holds, OnOrder, OnLine
<1> QED BY <1>1, <1>2 DEF Asks

LEMMA OrderAsks ==
    ASSUME NEW o \in Orders, orders[o] \in Row
    PROVE  LET q == [Idle EXCEPT !.at = "read", !.order = o]
           IN  /\ \A s \in Status, n \in 0..MaxAmount :
                     Asks([q EXCEPT !.kind = "status", !.status = s, !.number = n])
               /\ \A t \in Tables : Asks([q EXCEPT !.kind = "transfer", !.table = t])
               /\ Asks([q EXCEPT !.kind = "delete", !.at = "write"])
               /\ Asks([q EXCEPT !.kind = "hide"])
<1> DEFINE q == [Idle EXCEPT !.at = "read", !.order = o]
<1> USE IdleSound DEF Asks, Request, Place, Kind, Idle, Sound, Placed, Known,
                      Holds, OnOrder, OnLine
<1>1. ASSUME NEW s \in Status, NEW n \in 0..MaxAmount
      PROVE  Asks([q EXCEPT !.kind = "status", !.status = s, !.number = n])
  <2>1. n \in Nat
    BY BoundsType
  <2> QED BY <2>1
<1>2. ASSUME NEW t \in Tables
      PROVE  Asks([q EXCEPT !.kind = "transfer", !.table = t])
  OBVIOUS
<1>3. Asks([q EXCEPT !.kind = "delete", !.at = "write"])
  OBVIOUS
<1>4. Asks([q EXCEPT !.kind = "hide"])
  OBVIOUS
<1> QED BY <1>1, <1>2, <1>3, <1>4

LEMMA LineAsks ==
    ASSUME NEW l \in Lines, lines[l] \in Line, NEW o \in Orders, orders[o] \in Row
    PROVE  LET q == [Idle EXCEPT !.at = "read", !.line = l, !.order = o]
           IN  /\ \A c, x \in BOOLEAN :
                     Asks([q EXCEPT !.kind = "item", !.cancel = c, !.treat = x])
               /\ \A n \in 1..MaxQuantity :
                     Asks([q EXCEPT !.kind = "quantity", !.number = n])
<1> DEFINE q == [Idle EXCEPT !.at = "read", !.line = l, !.order = o]
<1> USE IdleSound DEF Asks, Request, Place, Kind, Idle, Sound, Placed, Known,
                      Holds, OnOrder, OnLine
<1>1. ASSUME NEW c \in BOOLEAN, NEW x \in BOOLEAN
      PROVE  Asks([q EXCEPT !.kind = "item", !.cancel = c, !.treat = x])
  <2> DEFINE m == [q EXCEPT !.kind = "item", !.cancel = c, !.treat = x]
  <2>1. m \in Request
    OBVIOUS
  <2>2. Sound(m)
    OBVIOUS
  <2> QED BY <2>1, <2>2
<1>2. ASSUME NEW n \in 1..MaxQuantity
      PROVE  Asks([q EXCEPT !.kind = "quantity", !.number = n])
  <2>1. n \in Nat
    BY BoundsType
  <2> QED BY <2>1
<1> QED BY <1>1, <1>2

LEMMA AllAsk ==
    /\ Asks([Idle EXCEPT !.at = "write", !.kind = "clear"])
    /\ \A t \in Tables :
          Asks([Idle EXCEPT !.at = "find", !.kind = "cleanup", !.table = t])
<1> DEFINE m == [Idle EXCEPT !.at = "write", !.kind = "clear"]
           n(t) == [Idle EXCEPT !.at = "find", !.kind = "cleanup", !.table = t]
<1>1. m \in Request /\ \A t \in Tables : n(t) \in Request
  BY IdleSound DEF Request, Place, Kind
<1>2. Sound(m) /\ \A t \in Tables : Sound(n(t))
  BY DEF Idle, Sound, Placed, Known, Holds, OnOrder, OnLine
<1> QED BY <1>1, <1>2 DEF Asks

LEMMA BeginIInv ==
    ASSUME IInv, NEW r \in Requests, Begin(r)
    PROVE  IInv'
<1> SUFFICES \E m : Asks(m) /\ Start(r, m)
  BY StartIInv DEF Asks
<1>1. CASE StartCreate(r)
  <2>1. PICK t \in Tables \cup {None}, at \in {"find", "write"}, l \in Lines :
            Start(r, [Idle EXCEPT !.at = at, !.kind = "create", !.table = t,
                                  !.line = l])
    BY <1>1 DEF StartCreate
  <2> QED BY <2>1, CreateAsks
<1>2. CASE StartOnOrder(r)
  <2>1. PICK o \in Orders : orders[o] # None /\
            LET q == [Idle EXCEPT !.at = "read", !.order = o]
            IN  \/ \E s \in Status, n \in 0..MaxAmount :
                      Start(r, [q EXCEPT !.kind = "status", !.status = s, !.number = n])
                \/ \E t \in Tables :
                      Start(r, [q EXCEPT !.kind = "transfer", !.table = t])
                \/ Start(r, [q EXCEPT !.kind = "delete", !.at = "write"])
                \/ Start(r, [q EXCEPT !.kind = "hide"])
    BY <1>2 DEF StartOnOrder
  <2>2. orders[o] \in Row
    BY <2>1 DEF IInv, TypeOK
  <2> QED BY <2>1, <2>2, OrderAsks
<1>3. CASE StartOnLine(r)
  <2>1. PICK l \in Lines : lines[l] # None /\
            LET q == [Idle EXCEPT !.at = "read", !.line = l, !.order = lines[l].order]
            IN  \/ \E c, x \in BOOLEAN :
                      Start(r, [q EXCEPT !.kind = "item", !.cancel = c, !.treat = x])
                \/ \E n \in 1..MaxQuantity :
                      Start(r, [q EXCEPT !.kind = "quantity", !.number = n])
    BY <1>3 DEF StartOnLine
  <2>2. /\ lines[l] \in Line
        /\ lines[l].order \in Orders /\ orders[lines[l].order] \in Row
    BY <2>1 DEF IInv, TypeOK, RowInv, LineInv, Line
  <2> QED BY <2>1, <2>2, LineAsks
<1>4. CASE StartClear(r)
  BY <1>4, AllAsk DEF StartClear
<1>5. CASE StartCleanup(r)
  BY <1>5, AllAsk DEF StartCleanup
<1> QED BY <1>1, <1>2, <1>3, <1>4, <1>5 DEF Begin

-----------------------------------------------------------------------------
\* Reads, and writes a transaction keeps to itself

LEMMA QuietIInv ==
    ASSUME IInv, NEW r \in Requests, NEW m \in Request, Sound(m), To(r, m),
           UNCHANGED <<rows, history, starts>>
    PROVE  IInv'
<1>1. torn' \subseteq Orders \cup Tables /\ starts' \in 0..MaxStarts
  BY DEF IInv, TypeOK, history
<1>2. UNCHANGED <<rows, taken, cancels>> /\ request' = [request EXCEPT ![r] = m]
  BY DEF history, To
<1> QED BY <1>1, <1>2, StillIInv

LEMMA RowsHonest ==
    ASSUME IInv, NEW o \in Orders, orders[o] \in Row
    PROVE  Honest(orders[o], o, 0)
<1>1. orders[o] # None
  BY NoneType
<1> QED BY <1>1 DEF IInv, TypeOK, RowInv, PaidIsPayments, Honest, Row

LEMMA DoneIInv ==
    ASSUME IInv, NEW r \in Requests, Done(r), UNCHANGED <<rows, history, starts>>
    PROVE  IInv'
  BY IdleSound, QuietIInv DEF Done

LEMMA FindOrderIInv ==
    ASSUME IInv, NEW r \in Requests, FindOrder(r)
    PROVE  IInv'
<1> DEFINE q == request[r]
<1>1. q \in Request /\ Sound(q) /\ q.kind = "create"
  BY RequestSound DEF FindOrder
<1>2. ASSUME NEW o \in Orders, Active(orders[o])
      PROVE  Asks([q EXCEPT !.at = "write", !.order = o])
  <2> DEFINE m == [q EXCEPT !.at = "write", !.order = o]
  <2>1. m \in Request
    BY <1>1 DEF Request, Place
  <2>2. orders[o] \in Row
    BY <1>2 DEF Active, IInv, TypeOK
  <2>3. Sound(m)
    BY <1>1, <2>2 DEF Request, Sound, Placed, Known, Holds, OnOrder, OnLine
  <2> QED BY <2>1, <2>3 DEF Asks
<1>3. Asks([q EXCEPT !.at = "write"])
  <2> DEFINE m == [q EXCEPT !.at = "write"]
  <2>1. m \in Request
    BY <1>1 DEF Request, Place
  <2>2. Sound(m)
    BY <1>1 DEF FindOrder, Request, Sound, Placed, Known, Holds, OnOrder, OnLine
  <2> QED BY <2>1, <2>2 DEF Asks
<1>4. CASE To(r, [q EXCEPT !.at = "write"])
  BY <1>3, <1>4, QuietIInv DEF FindOrder, Asks
<1>5. CASE \E o \in Orders : /\ Active(orders[o])
                            /\ To(r, [q EXCEPT !.at = "write", !.order = o])
  BY <1>2, <1>5, QuietIInv DEF FindOrder, Asks
<1> QED BY <1>4, <1>5 DEF FindOrder

LEMMA ReadIInv ==
    ASSUME IInv, NEW r \in Requests, Read(r)
    PROVE  IInv'
<1> DEFINE q == request[r]
           m == [q EXCEPT !.at = "write", !.row = orders[q.order],
                          !.old = IF q.line = None THEN None ELSE lines[q.line]]
<1>1. q \in Request /\ Sound(q) /\ q.at = "read"
  BY RequestSound DEF Read
<1>2. /\ q.order \in Orders /\ orders[q.order] \in Row
      /\ Honest(orders[q.order], q.order, 0)
  BY <1>1, RowsHonest DEF Sound, Placed
<1>3. /\ q.line # None => lines[q.line] \in Line \cup {None}
      /\ q.kind \in OnLine => q.line # None
  BY <1>1, NoneType DEF Request, IInv, TypeOK, Sound, Placed
<1>4. q.kind \in OnLine /\ lines[q.line].cancelled => tickets[q.line] > 0
  BY <1>1, NoneType DEF Sound, Placed, IInv, RowInv, CancelledHasTicket
<1>5. m \in Request
  BY <1>1, <1>2, <1>3 DEF Request, Place
<1>6. Sound(m)
  BY <1>1, <1>2, <1>3, <1>4
  DEF Request, Sound, Placed, Known, Holds, OnOrder, OnLine
<1> QED BY <1>5, <1>6, QuietIInv DEF Read

LEMMA NewOrderIInv ==
    ASSUME IInv, NEW r \in Requests, NewOrder(r)
    PROVE  IInv'
<1> DEFINE q == request[r]
           row == [table |-> q.table, status |-> "PENDING", hidden |-> FALSE,
                   total |-> 1, paid |-> 0, payments |-> 0]
           m(o) == [q EXCEPT !.order = o, !.row = row, !.sync = SyncOf(row),
                             !.at = IF q.table = None THEN "commit" ELSE "count"]
<1>1. q \in Request /\ Sound(q) /\ q.kind = "create"
  BY RequestSound DEF NewOrder
<1>2. PICK o \in Orders : To(r, m(o))
  BY DEF NewOrder
<1>3. row \in Row /\ row.table = q.table /\ row.paid = 0 /\ row.payments = 0
  BY <1>1 DEF Row, Status, Request
<1>4. SyncOf(row) \in Seq(Tables) /\ (q.table # None => SyncOf(row) # <<>>)
  BY <1>1, <1>3 DEF SyncOf, Request
<1>5. m(o) \in Request
  BY <1>1, <1>3, <1>4 DEF Request, Place
<1>6. taken[o] + q.number >= 0
  BY <1>1 DEF Request, IInv, TypeOK
<1>7. Sound(m(o))
  <2> HIDE DEF row
  <2> QED BY <1>1, <1>3, <1>4, <1>6
          DEF Request, Sound, Placed, Known, Holds, Honest, OnOrder, OnLine
<1> QED BY <1>2, <1>5, <1>7, QuietIInv DEF NewOrder

LEMMA WroteIInv ==
    ASSUME IInv, NEW r \in Requests, NEW row \in Row, NEW sync \in Seq(Tables),
           request[r].at = "write", request[r].kind \in {"status", "transfer", "delete"},
           Honest(row, request[r].order, request[r].number),
           Wrote(r, row, sync), UNCHANGED <<rows, history, starts>>
    PROVE  IInv'
<1> DEFINE q == request[r]
           m == [q EXCEPT !.at = IF sync = <<>> THEN "commit" ELSE "count",
                          !.row = row, !.sync = sync]
<1>1. q \in Request /\ Sound(q)
  BY RequestSound
<1>2. m \in Request
  BY <1>1 DEF Request, Place
<1>3. /\ m.at = IF sync = <<>> THEN "commit" ELSE "count"
      /\ m.row = row /\ m.sync = sync /\ m.kind = q.kind /\ m.order = q.order
      /\ m.number = q.number /\ m.table = q.table /\ m.line = q.line
  BY <1>1 DEF Request
<1>4. Sound(m)
  <2> HIDE DEF m
  <2>1. Placed(m)
    BY <1>1, <1>3 DEF Sound, Placed, Holds, OnOrder, OnLine
  <2>2. Known(m)
    BY <1>1, <1>3 DEF Sound, Placed, Known, Holds, OnOrder, OnLine
  <2> QED BY <2>1, <2>2 DEF Sound
<1> QED BY <1>2, <1>4, QuietIInv DEF Wrote

LEMMA SyncOfType == ASSUME NEW row \in Row PROVE SyncOf(row) \in Seq(Tables)
  BY DEF SyncOf, Row

LEMMA WriteStatusIInv ==
    ASSUME IInv, NEW r \in Requests, WriteStatus(r)
    PROVE  IInv'
<1> DEFINE q == request[r]
           row == [orders[q.order] EXCEPT !.status = Paid(q),
                                          !.paid = q.row.paid + q.number,
                                          !.payments = q.row.payments + q.number]
<1>1. /\ q \in Request /\ Sound(q)
      /\ q.kind = "status" /\ q.at = "write"
  BY RequestSound DEF WriteStatus
<1>2. /\ q.order \in Orders /\ orders[q.order] \in Row /\ q.row \in Row
      /\ Honest(q.row, q.order, 0) /\ q.number \in Nat
  BY <1>1 DEF Request, Sound, Placed, Known, OnOrder
<1>3. Paid(q) \in Status
  BY <1>1 DEF Paid, Request, Status
<1>4. row \in Row /\ row.paid = q.row.paid + q.number
                 /\ row.payments = q.row.payments + q.number
  <2>1. /\ q.row.paid + q.number \in Nat
        /\ q.row.payments + q.number \in Nat
    BY <1>2 DEF Row
  <2> DEFINE s == Paid(q)
             paid == q.row.paid + q.number
             payments == q.row.payments + q.number
  <2>2. s \in Status /\ paid \in Nat /\ payments \in Nat
    BY <1>3, <2>1
  <2> HIDE DEF s, paid, payments
  <2>3. LET new == [orders[q.order] EXCEPT !.status = s, !.paid = paid,
                                           !.payments = payments]
        IN  new \in Row /\ new.paid = paid /\ new.payments = payments
    BY <1>2, <2>2 DEF Row
  <2> QED BY <2>3 DEF s, paid, payments
<1>5. Honest(row, q.order, q.number)
  <2> HIDE DEF row
  <2> QED BY <1>2, <1>4 DEF Honest, IInv, TypeOK, Row
<1> QED BY <1>1, <1>4, <1>5, SyncOfType, WroteIInv DEF WriteStatus

LEMMA WriteTransferIInv ==
    ASSUME IInv, NEW r \in Requests, WriteTransfer(r)
    PROVE  IInv'
<1> DEFINE q == request[r]
           row == [orders[q.order] EXCEPT !.table = q.table]
<1>1. /\ q \in Request /\ Sound(q)
      /\ q.kind = "transfer" /\ q.at = "write"
  BY RequestSound DEF WriteTransfer
<1>2. /\ q.order \in Orders /\ orders[q.order] \in Row /\ q.row \in Row
      /\ q.table \in Tables /\ q.number \in Nat
  BY <1>1 DEF Request, Sound, Placed, Known, OnOrder, OnLine
<1>3. CASE q.row.table \in {None, q.table}
  BY <1>3, DoneIInv DEF WriteTransfer
<1>4. CASE q.row.table \notin {None, q.table}
  <2>1. row \in Row /\ row.paid = orders[q.order].paid
                   /\ row.payments = orders[q.order].payments
    BY <1>2 DEF Row
  <2>2. Honest(row, q.order, q.number)
    <3> HIDE DEF row
    <3>1. Honest(orders[q.order], q.order, 0)
      BY <1>2, RowsHonest
    <3> QED BY <1>2, <2>1, <3>1 DEF Honest, IInv, TypeOK, Row
  <2>3. <<q.table, q.row.table>> \in Seq(Tables)
    BY <1>2, <1>4 DEF Row
  <2> QED BY <1>1, <1>4, <2>1, <2>2, <2>3, WroteIInv DEF WriteTransfer
<1> QED BY <1>3, <1>4

LEMMA WriteDeleteIInv ==
    ASSUME IInv, NEW r \in Requests, WriteDelete(r)
    PROVE  IInv'
<1> DEFINE q == request[r]
           row == [orders[q.order] EXCEPT !.hidden = TRUE, !.status = "CANCELLED"]
<1>1. /\ q \in Request /\ Sound(q)
      /\ q.kind = "delete" /\ q.at = "write"
  BY RequestSound DEF WriteDelete
<1>2. /\ q.order \in Orders /\ orders[q.order] \in Row /\ q.number \in Nat
  BY <1>1 DEF Request, Sound, Placed, OnOrder
<1>3. row \in Row /\ row.paid = orders[q.order].paid
                 /\ row.payments = orders[q.order].payments
  BY <1>2 DEF Row, Status
<1>4. Honest(row, q.order, q.number)
  <2> HIDE DEF row
  <2>1. Honest(orders[q.order], q.order, 0)
    BY <1>2, RowsHonest
  <2> QED BY <1>2, <1>3, <2>1 DEF Honest, IInv, TypeOK, Row
<1> QED BY <1>1, <1>3, <1>4, SyncOfType, WroteIInv DEF WriteDelete

\* A sum of prices is a number, because only finitely many lines have one.
LEMMA SumType == ASSUME NEW some PROVE Sum(some) \in Nat
<1>1. IsFiniteSet(1..MaxQuantity)
  BY BoundsType, FS_Interval
<1>2. IsFiniteSet(Lines \X (1..MaxQuantity))
  BY <1>1, LinesFinite, FS_Product
<1>3. IsFiniteSet({u \in Lines \X (1..MaxQuantity) :
                      u[1] \in some /\ u[2] <= lines[u[1]].price})
  BY <1>2, FS_Subset
<1> QED BY <1>3, FS_CardinalityType DEF Sum

LEMMA RereadIInv ==
    ASSUME IInv, NEW r \in Requests, Reread(r)
    PROVE  IInv'
<1> DEFINE q == request[r]
           row == [orders[q.order] EXCEPT
                      !.total = Due(q.order),
                      !.status = IF Charged(q.order) = {} THEN "CANCELLED" ELSE @]
           m == [q EXCEPT !.at = "total", !.row = row]
<1>1. q \in Request /\ Sound(q) /\ q.at = "reread"
  BY RequestSound DEF Reread
<1>2. q.kind \in OnLine /\ q.order \in Orders /\ orders[q.order] \in Row
  BY <1>1 DEF Sound, Placed, OnLine, OnOrder
<1>3. row \in Row
  BY <1>2, SumType DEF Row, Status, Due
<1>4. m \in Request
  BY <1>1, <1>3 DEF Request, Place
<1>5. Sound(m)
  <2> HIDE DEF row
  <2> QED BY <1>1, <1>2, <1>3
          DEF Request, Sound, Placed, Known, Holds, OnOrder, OnLine
<1> QED BY <1>4, <1>5, QuietIInv DEF Reread

LEMMA CountActiveIInv ==
    ASSUME IInv, NEW r \in Requests, CountActive(r)
    PROVE  IInv'
<1>1. PICK b \in BOOLEAN : To(r, [request[r] EXCEPT !.at = "mark", !.active = b])
  BY DEF CountActive
<1> DEFINE q == request[r]
           m == [q EXCEPT !.at = "mark", !.active = b]
<1>2. q \in Request /\ Sound(q) /\ q.at = "count"
  BY RequestSound DEF CountActive
<1>3. m \in Request
  BY <1>2 DEF Request, Place
<1>4. Sound(m)
  BY <1>2 DEF Request, Sound, Placed, Known, Holds, OnOrder, OnLine
<1> QED BY <1>1, <1>3, <1>4, QuietIInv DEF CountActive

LEMMA LookForOrdersIInv ==
    ASSUME IInv, NEW r \in Requests, LookForOrders(r)
    PROVE  IInv'
<1> DEFINE q == request[r]
           m == [q EXCEPT !.at = "free"]
<1>1. q \in Request /\ Sound(q) /\ q.kind = "cleanup"
  BY RequestSound DEF LookForOrders
<1>2. m \in Request
  BY <1>1 DEF Request, Place
<1>3. Sound(m)
  BY <1>1 DEF Request, Sound, Placed, Known, Holds, OnOrder, OnLine
<1>4. Done(r) \/ To(r, m)
  BY DEF LookForOrders
<1> QED BY <1>2, <1>3, <1>4, DoneIInv, QuietIInv DEF LookForOrders

-----------------------------------------------------------------------------
\* Writes that others see

LEMMA RowTypeNow == IInv => RowType
  BY DEF IInv, TypeOK, RowType

LEMMA EndIInv ==
    ASSUME IInv, NEW r \in Requests, Done(r), RowType', Grows, RowInv'
    PROVE  IInv'
  BY IdleSound, StepIInv DEF Done, To

\* A step that writes only tables.
LEMMA TablesIInv ==
    ASSUME IInv, NEW r \in Requests, NEW m \in Request, Sound(m), To(r, m),
           tables' \in [Tables -> TableStatus],
           UNCHANGED <<orders, lines, tickets, history, starts>>
    PROVE  IInv'
<1>1. RowType'
  BY DEF IInv, TypeOK, RowType, history
<1>2. Grows
  BY DEF Grows, IInv, TypeOK, history
<1>3. RowInv'
  BY DEF IInv, RowInv, LineInv, PaidIsPayments, CancelledHasTicket, history
<1>4. Sound(m)'
  BY DEF Sound, Placed, Known, Honest, Holds, history
<1> QED BY <1>1, <1>2, <1>3, <1>4, StepIInv DEF To

LEMMA FreeIInv ==
    ASSUME IInv, NEW r \in Requests, FreeAll(r) \/ FreeTable(r)
    PROVE  IInv'
<1>1. tables' \in [Tables -> TableStatus]
  BY DEF FreeAll, FreeTable, IInv, TypeOK, TableStatus
<1>2. To(r, Idle) /\ UNCHANGED <<orders, lines, tickets, history, starts>>
  BY DEF FreeAll, FreeTable, Done
<1> QED BY <1>1, <1>2, IdleSound, TablesIInv

LEMMA SetTableIInv ==
    ASSUME IInv, NEW t \in Tables, NEW s \in TableStatus, SetTable(t, s)
    PROVE  IInv'
<1> USE DEF SetTable
<1>1. TypeOK'
  BY BoundsType DEF IInv, TypeOK
<1>2. \A r \in Requests : Sound(request[r])'
  BY DEF IInv, Sound, Placed, Known, Honest, Holds
<1>3. RowInv'
  BY DEF IInv, RowInv, LineInv, PaidIsPayments, CancelledHasTicket
<1> QED BY <1>1, <1>2, <1>3 DEF IInv

LEMMA MarkTableIInv ==
    ASSUME IInv, NEW r \in Requests, MarkTable(r)
    PROVE  IInv'
<1> DEFINE q == request[r]
           t == Head(q.sync)
           s == IF q.active THEN "OCCUPIED" ELSE "AVAILABLE"
           at == IF Tail(q.sync) = <<>> THEN "commit" ELSE "count"
           m == [[q EXCEPT !.sync = Tail(@)] EXCEPT !.marks[t] = s, !.at = at]
<1>1. q \in Request /\ Sound(q) /\ q.at = "mark"
  BY RequestSound DEF MarkTable
<1>2. q.sync \in Seq(Tables) /\ q.sync # <<>>
  BY <1>1 DEF Request, Sound, Placed
<1>3. t \in Tables /\ Tail(q.sync) \in Seq(Tables) /\ s \in TableStatus
  BY <1>2 DEF TableStatus
<1>4. CASE InTransaction(r)
  <2>1. m \in Request
    BY <1>1, <1>3 DEF Request, Place
  <2>2. /\ m.kind = q.kind /\ m.at = at /\ m.order = q.order /\ m.row = q.row
        /\ m.number = q.number /\ m.line = q.line /\ m.table = q.table
        /\ m.sync = Tail(q.sync)
    BY <1>1 DEF Request
  <2>3. Holds(q)
    BY <1>4 DEF InTransaction, Holds
  <2>4. Sound(m)
    <3> HIDE DEF m
    <3>1. Placed(m)
      BY <1>1, <2>2, <2>3 DEF Sound, Placed, Holds, OnOrder, OnLine
    <3>2. Known(m)
      BY <1>1, <2>2, <2>3 DEF Sound, Known, Holds
    <3> QED BY <3>1, <3>2 DEF Sound
  <2>5. To(r, m) /\ UNCHANGED <<rows, history, starts>>
    BY <1>4 DEF MarkTable, rows
  <2> QED BY <2>1, <2>4, <2>5, QuietIInv
<1>5. CASE ~InTransaction(r)
  <2>1. To(r, Idle) /\ tables' = [tables EXCEPT ![t] = s]
    BY <1>5 DEF MarkTable, Done
  <2>2. tables' \in [Tables -> TableStatus]
    BY <1>3, <2>1 DEF IInv, TypeOK
  <2> QED BY <2>1, <2>2, IdleSound, TablesIInv DEF MarkTable
<1> QED BY <1>4, <1>5

LEMMA NewLineType == ASSUME NEW o \in Orders PROVE NewLine(o) \in Line
  BY BoundsType DEF NewLine, Line

LEMMA AppendLineIInv ==
    ASSUME IInv, NEW r \in Requests, AppendLine(r)
    PROVE  IInv'
<1> DEFINE q == request[r]
           o == q.order
<1>1. q \in Request /\ Sound(q) /\ q.kind = "create" /\ q.at = "write" /\ o # None
  BY RequestSound DEF AppendLine
<1>2. o \in Orders /\ orders[o] \in Row /\ q.line \in Lines
  BY <1>1 DEF Request, Sound, Placed
<1>3. /\ orders' = [orders EXCEPT ![o].total = @ + 1]
      /\ lines' = [lines EXCEPT ![q.line] = NewLine(o)]
      /\ UNCHANGED <<tables, tickets, taken, cancels, torn, starts>>
  BY DEF AppendLine, history
<1>4. /\ orders'[o] \in Row /\ orders'[o].paid = orders[o].paid
      /\ orders'[o].payments = orders[o].payments
      /\ \A p \in Orders \ {o} : orders'[p] = orders[p]
  BY <1>2, <1>3 DEF IInv, TypeOK, Row
<1>5. NewLine(o) \in Line /\ NewLine(o).order = o /\ ~NewLine(o).cancelled
  BY <1>2, NewLineType DEF NewLine
<1>6. RowType'
  BY <1>2, <1>3, <1>4, <1>5 DEF IInv, TypeOK, RowType
<1>7. Grows
  BY <1>3, <1>4, <1>5 DEF Grows, IInv, TypeOK
<1>8. LineInv'
  BY <1>2, <1>3, <1>4, <1>5 DEF IInv, TypeOK, RowInv, LineInv
<1>9. PaidIsPayments'
  BY <1>2, <1>3, <1>4, RowsHonest DEF IInv, RowInv, PaidIsPayments, Honest, Row, TypeOK
<1>10. CancelledHasTicket'
  BY <1>2, <1>3, <1>5 DEF IInv, TypeOK, RowInv, CancelledHasTicket
<1> QED BY <1>6, <1>7, <1>8, <1>9, <1>10, EndIInv DEF AppendLine, RowInv

\* A row of which neither the payments nor their sum change.
SameMoney(o) == /\ orders'[o] \in Row
                /\ orders'[o].paid = orders[o].paid
                /\ orders'[o].payments = orders[o].payments

LEMMA OrdersIInv ==
    ASSUME IInv, NEW r \in Requests, NEW m \in Request, Sound(m)', To(r, m),
           orders' \in [Orders -> Row \cup {None}],
           \A o \in Orders : orders'[o] = orders[o]
                             \/ (orders[o] \in Row /\ SameMoney(o)),
           tables' \in [Tables -> TableStatus], torn' \subseteq Orders \cup Tables,
           UNCHANGED <<lines, tickets, taken, cancels, starts>>
    PROVE  IInv'
<1>1. RowType'
  BY DEF IInv, TypeOK, RowType
<1>2. Grows
  BY DEF Grows, IInv, TypeOK, SameMoney
<1>3. LineInv'
  BY DEF IInv, TypeOK, RowInv, LineInv, SameMoney, Line
<1>4. ASSUME NEW o \in Orders, orders'[o] # None
      PROVE  orders'[o].paid = orders'[o].payments /\ orders'[o].paid <= taken'[o]
  <2>1. CASE orders'[o] = orders[o]
    BY <1>4, <2>1 DEF IInv, RowInv, PaidIsPayments
  <2>2. CASE orders[o] \in Row /\ SameMoney(o)
    BY <2>2, NoneType DEF IInv, RowInv, PaidIsPayments, SameMoney
  <2> QED BY <2>1, <2>2
<1>5. PaidIsPayments'
  BY <1>4 DEF PaidIsPayments
<1>6. CancelledHasTicket'
  BY DEF IInv, RowInv, CancelledHasTicket
<1> QED BY <1>1, <1>2, <1>3, <1>5, <1>6, StepIInv DEF RowInv, To

LEMMA WriteHideIInv ==
    ASSUME IInv, NEW r \in Requests, WriteHide(r)
    PROVE  IInv'
<1> DEFINE q == request[r]
<1>1. q \in Request /\ Sound(q) /\ q.kind = "hide" /\ q.at = "write"
  BY RequestSound DEF WriteHide
<1>2. q.order \in Orders /\ orders[q.order] \in Row /\ q.row \in Row
  BY <1>1 DEF Sound, Placed, Known, OnOrder
<1>3. /\ orders' = [orders EXCEPT ![q.order].hidden = ~q.row.hidden]
      /\ torn' = torn \cup (Tables \cap {orders[q.order].table})
      /\ To(r, Idle) /\ UNCHANGED <<lines, tables, tickets, taken, cancels, starts>>
  BY DEF WriteHide, Done
<1>4. SameMoney(q.order) /\ \A p \in Orders \ {q.order} : orders'[p] = orders[p]
  BY <1>2, <1>3 DEF IInv, TypeOK, Row, SameMoney
<1>5. /\ orders' \in [Orders -> Row \cup {None}]
      /\ torn' \subseteq Orders \cup Tables
  BY <1>2, <1>3, <1>4 DEF IInv, TypeOK, SameMoney
<1>6. tables' \in [Tables -> TableStatus]
  BY <1>3 DEF IInv, TypeOK
<1> QED BY <1>2, <1>3, <1>4, <1>5, <1>6, IdleSound, OrdersIInv

LEMMA WriteTotalIInv ==
    ASSUME IInv, NEW r \in Requests, WriteTotal(r)
    PROVE  IInv'
<1> DEFINE q == request[r]
           m == [q EXCEPT !.at = "count", !.sync = <<q.row.table>>]
<1>1. q \in Request /\ Sound(q) /\ q.at = "total"
  BY RequestSound DEF WriteTotal
<1>2. /\ q.kind \in OnLine /\ q.order \in Orders /\ orders[q.order] \in Row
      /\ q.row \in Row
  BY <1>1 DEF Sound, Placed, Known, OnLine, OnOrder
<1>3. /\ orders' = [orders EXCEPT ![q.order].total = q.row.total,
                                  ![q.order].status = q.row.status]
      /\ UNCHANGED <<lines, tables, tickets, taken, cancels, torn, starts>>
  BY DEF WriteTotal, history
<1>4. SameMoney(q.order) /\ \A p \in Orders \ {q.order} : orders'[p] = orders[p]
  BY <1>2, <1>3 DEF IInv, TypeOK, Row, SameMoney
<1>5. /\ orders' \in [Orders -> Row \cup {None}]
      /\ torn' \subseteq Orders \cup Tables /\ tables' \in [Tables -> TableStatus]
  BY <1>2, <1>3, <1>4 DEF IInv, TypeOK, SameMoney
<1>6. CASE q.row.table = None
  <2>1. To(r, Idle)
    BY <1>6 DEF WriteTotal, Done
  <2> QED BY <1>2, <1>3, <1>4, <1>5, <2>1, IdleSound, OrdersIInv
<1>7. CASE q.row.table # None
  <2>1. To(r, m)
    BY <1>7 DEF WriteTotal
  <2>2. <<q.row.table>> \in Seq(Tables)
    BY <1>2, <1>7 DEF Row
  <2>3. m \in Request
    BY <1>1, <2>2 DEF Request, Place
  <2>4. Sound(m)
    BY <1>1, <1>2, <2>2
    DEF Request, Sound, Placed, Known, Holds, OnOrder, OnLine
  <2>5. \A n \in Request : n.at = "count" /\ n.kind \in OnLine /\ Sound(n) => Sound(n)'
    BY <1>2, <1>3, <1>4
    DEF Sound, Placed, Known, Holds, OnOrder, OnLine, SameMoney
  <2>6. PICK n \in Request : n = m
    BY <2>3
  <2>7. n.at = "count" /\ n.kind \in OnLine
    BY <1>1, <1>2, <2>6 DEF Request
  <2>8. Sound(n)'
    BY <2>4, <2>5, <2>6, <2>7
  <2>9. To(r, n)
    BY <2>1, <2>6
  <2> QED BY <1>2, <1>3, <1>4, <1>5, <2>8, <2>9, OrdersIInv
<1> QED BY <1>6, <1>7

LEMMA ClearOrdersIInv ==
    ASSUME IInv, NEW r \in Requests, ClearOrders(r)
    PROVE  IInv'
<1> DEFINE shown == {o \in Orders : orders[o] # None /\ ~orders[o].hidden}
           m == [request[r] EXCEPT !.at = "free"]
<1>1. /\ request[r] \in Request /\ Sound(request[r])
      /\ request[r].kind = "clear" /\ request[r].at = "write"
  BY RequestSound DEF ClearOrders
<1>2. /\ orders' = [o \in Orders |->
                      IF o \in shown
                      THEN [orders[o] EXCEPT !.hidden = TRUE, !.status = "CANCELLED"]
                      ELSE orders[o]]
      /\ To(r, m)
      /\ UNCHANGED <<lines, tables, tickets, taken, cancels, torn, starts>>
  BY DEF ClearOrders, history
<1>3. ASSUME NEW o \in shown
      PROVE  orders[o] \in Row /\ SameMoney(o)
  <2>1. orders[o] \in Row
    BY DEF IInv, TypeOK
  <2>2. orders'[o] = [orders[o] EXCEPT !.hidden = TRUE, !.status = "CANCELLED"]
    BY <1>2
  <2> QED BY <2>1, <2>2 DEF Row, Status, SameMoney
<1>4. \A o \in Orders : orders'[o] = orders[o] \/ (orders[o] \in Row /\ SameMoney(o))
  BY <1>2, <1>3
<1>5. orders' \in [Orders -> Row \cup {None}]
  <2>1. \A o \in Orders : orders'[o] \in Row \cup {None}
    BY <1>4 DEF IInv, TypeOK, SameMoney
  <2>2. orders' = [o \in Orders |-> orders'[o]]
    BY <1>2
  <2> QED BY <2>1, <2>2
<1>6. torn' \subseteq Orders \cup Tables /\ tables' \in [Tables -> TableStatus]
  BY <1>2 DEF IInv, TypeOK
<1>7. PICK n \in Request : n = m
  BY <1>1 DEF Request, Place
<1>8. n.kind = "clear" /\ n.at = "free"
  BY <1>1, <1>7 DEF Request
<1>9. Sound(n)'
  BY <1>8 DEF Sound, Placed, Known, Holds, OnOrder, OnLine
<1> QED BY <1>2, <1>4, <1>5, <1>6, <1>7, <1>9, OrdersIInv

\* A step that writes one line, which keeps its order.
LEMMA LinesIInv ==
    ASSUME IInv, NEW r \in Requests, NEW l \in Lines, lines[l] \in Line,
           NEW new \in Line, new.order = lines[l].order,
           lines' = [lines EXCEPT ![l] = new],
           tickets' \in [Lines -> Nat], \A k \in Lines : tickets[k] <= tickets'[k],
           new.cancelled => tickets'[l] > 0, cancels' \in [Lines -> Nat],
           request[r].at = "write", request[r].kind \in OnLine,
           To(r, [request[r] EXCEPT !.at = "reread"]),
           UNCHANGED <<orders, tables, taken, torn, starts>>
    PROVE  IInv'
<1>1. request[r] \in Request /\ Sound(request[r])
  BY RequestSound
<1>2. RowType'
  BY DEF IInv, TypeOK, RowType
<1>3. Grows
  BY DEF Grows, IInv, TypeOK
<1>4. LineInv'
  BY NoneType DEF IInv, TypeOK, RowInv, LineInv
<1>5. PaidIsPayments'
  BY DEF IInv, RowInv, PaidIsPayments
<1>6. CancelledHasTicket'
  <2> SUFFICES ASSUME NEW k \in Lines, lines'[k] # None, lines'[k].cancelled
               PROVE  tickets'[k] > 0
    BY DEF CancelledHasTicket
  <2>1. CASE k = l
    BY <2>1 DEF IInv, TypeOK
  <2>2. CASE k # l
    <3>1. lines'[k] = lines[k]
      BY <2>2 DEF IInv, TypeOK
    <3>2. tickets[k] > 0 /\ tickets[k] \in Nat /\ tickets'[k] \in Nat
      BY <3>1 DEF IInv, TypeOK, RowInv, CancelledHasTicket
    <3> QED BY <3>2
  <2> QED BY <2>1, <2>2
<1>7. PICK m \in Request : m = [request[r] EXCEPT !.at = "reread"]
  BY <1>1 DEF Request, Place
<1>8. Sound(m)
  BY <1>1, <1>7 DEF Request, Sound, Placed, Known, Holds, OnOrder, OnLine
<1>9. Sound(m)'
  BY <1>2, <1>3, <1>8, RowTypeNow, StaysSound
<1> QED BY <1>2, <1>3, <1>4, <1>5, <1>6, <1>7, <1>9, StepIInv DEF RowInv, To

LEMMA WriteItemIInv ==
    ASSUME IInv, NEW r \in Requests, WriteItem(r)
    PROVE  IInv'
<1> DEFINE q == request[r]
           now == lines[q.line]
           treat == q.treat \/ (now.treat /\ ~q.old.treat)
           price == CASE q.treat -> 0
                      [] ~q.treat /\ q.old.treat -> q.old.quantity
                      [] OTHER -> now.price
           new == [now EXCEPT !.cancelled = q.cancel, !.treat = treat, !.price = price]
<1>1. q \in Request /\ Sound(q) /\ q.kind = "item" /\ q.at = "write"
  BY RequestSound DEF WriteItem
<1>2. /\ q.line \in Lines /\ now \in Line /\ q.old \in Line
      /\ q.treat \in BOOLEAN /\ q.cancel \in BOOLEAN
      /\ q.old.cancelled => tickets[q.line] > 0
  BY <1>1 DEF Request, Sound, Placed, Known, OnLine
<1>3. price \in 0..MaxQuantity
  BY <1>2, BoundsType DEF Line
<1>4. treat \in BOOLEAN
  OBVIOUS
<1>5. new \in Line /\ new.order = now.order /\ new.cancelled = q.cancel
  <2> HIDE DEF price, treat
  <2> QED BY <1>2, <1>3, <1>4 DEF Line
<1>6. /\ lines' = [lines EXCEPT ![q.line] = new]
      /\ tickets' = [tickets EXCEPT ![q.line] = IF Trigger(q) THEN @ + 1 ELSE @]
      /\ cancels' = [cancels EXCEPT ![q.line] =
                        IF q.cancel /\ ~now.cancelled THEN @ + 1 ELSE @]
      /\ To(r, [q EXCEPT !.at = "reread"])
      /\ UNCHANGED <<orders, tables, taken, torn, starts>>
  BY DEF WriteItem
<1>7. /\ tickets' \in [Lines -> Nat] /\ \A k \in Lines : tickets[k] <= tickets'[k]
      /\ cancels' \in [Lines -> Nat]
  BY <1>2, <1>6 DEF IInv, TypeOK
<1>8. q.cancel => tickets'[q.line] > 0
  BY <1>2, <1>6 DEF IInv, TypeOK, Trigger
<1> QED
  <2> HIDE DEF new
  <2> QED BY <1>1, <1>2, <1>5, <1>6, <1>7, <1>8, LinesIInv DEF OnLine

LEMMA WriteQuantityIInv ==
    ASSUME IInv, NEW r \in Requests, WriteQuantity(r)
    PROVE  IInv'
<1> DEFINE q == request[r]
           price == IF q.old.treat THEN 0 ELSE q.number
           new == [lines[q.line] EXCEPT !.quantity = q.number, !.price = price]
<1>1. q \in Request /\ Sound(q) /\ q.kind = "quantity" /\ q.at = "write"
  BY RequestSound DEF WriteQuantity
<1>2. /\ q.line \in Lines /\ lines[q.line] \in Line
      /\ q.number \in 1..MaxQuantity /\ price \in 0..MaxQuantity
  BY <1>1, BoundsType DEF Sound, Placed, OnLine
<1>3. /\ new \in Line /\ new.order = lines[q.line].order
      /\ new.cancelled = lines[q.line].cancelled
  <2> HIDE DEF price
  <2> QED BY <1>2 DEF Line
<1>4. /\ lines' = [lines EXCEPT ![q.line] = new]
      /\ To(r, [q EXCEPT !.at = "reread"])
      /\ UNCHANGED <<orders, tables, tickets, taken, cancels, torn, starts>>
  BY <1>2 DEF WriteQuantity, history, IInv, TypeOK
<1>5. /\ tickets' \in [Lines -> Nat] /\ cancels' \in [Lines -> Nat]
      /\ \A k \in Lines : tickets[k] <= tickets'[k]
  BY <1>4 DEF IInv, TypeOK
<1>6. new.cancelled => tickets'[q.line] > 0
  BY <1>2, <1>3, <1>4, NoneType DEF IInv, RowInv, CancelledHasTicket
<1> QED
  <2> HIDE DEF new
  <2> QED BY <1>1, <1>2, <1>3, <1>4, <1>5, <1>6, LinesIInv DEF OnLine

LEMMA CommitIInv ==
    ASSUME IInv, NEW r \in Requests, Commit(r)
    PROVE  IInv'
<1> DEFINE q == request[r]
           o == q.order
<1>1. q \in Request /\ Sound(q) /\ q.at = "commit"
  BY RequestSound DEF Commit
<1>2. /\ o \in Orders /\ q.row \in Row /\ q.number \in Nat
      /\ Honest(q.row, o, q.number)
      /\ q.kind = "create" => q.line \in Lines
      /\ \A t \in Tables : q.marks[t] \in TableStatus \cup {None}
  BY <1>1 DEF Request, Sound, Placed, Known
<1>3. /\ orders' = [orders EXCEPT ![o] = q.row]
      /\ tables' = [t \in Tables |->
                       IF q.marks[t] = None THEN tables[t] ELSE q.marks[t]]
      /\ lines' = IF q.kind = "create"
                  THEN [lines EXCEPT ![q.line] = NewLine(o)]
                  ELSE lines
      /\ taken' = [taken EXCEPT ![o] = @ + q.number]
      /\ UNCHANGED <<tickets, cancels, torn, starts>>
  BY DEF Commit
<1>4. NewLine(o) \in Line /\ NewLine(o).order = o /\ ~NewLine(o).cancelled
  BY <1>2, NewLineType DEF NewLine
<1>5. orders' \in [Orders -> Row \cup {None}] /\ orders'[o] = q.row
      /\ \A p \in Orders \ {o} : orders'[p] = orders[p]
  BY <1>2, <1>3 DEF IInv, TypeOK
<1>6. /\ taken' \in [Orders -> Nat] /\ taken'[o] = taken[o] + q.number
      /\ \A p \in Orders : taken[p] \in Nat /\ taken[p] <= taken'[p]
  BY <1>2, <1>3 DEF IInv, TypeOK
<1>7. lines' \in [Lines -> Line \cup {None}]
      /\ \A l \in Lines : lines'[l] = lines[l] \/ lines'[l] = NewLine(o)
  BY <1>2, <1>3, <1>4 DEF IInv, TypeOK
<1>8. tables' \in [Tables -> TableStatus]
  BY <1>2, <1>3 DEF IInv, TypeOK
<1>9. RowType'
  BY <1>3, <1>5, <1>6, <1>7, <1>8 DEF IInv, TypeOK, RowType
<1>10. Grows
  BY <1>2, <1>3, <1>4, <1>5, <1>6, <1>7 DEF Grows, IInv, TypeOK
<1>11. LineInv'
  <2> SUFFICES ASSUME NEW l \in Lines, lines'[l] # None
               PROVE  orders'[lines'[l].order] \in Row
    BY DEF LineInv
  <2>1. CASE lines'[l] = NewLine(o)
    BY <1>2, <1>4, <1>5, <2>1
  <2>2. CASE lines'[l] = lines[l]
    BY <1>2, <1>5, <2>2 DEF IInv, TypeOK, RowInv, LineInv, Line
  <2> QED BY <1>7, <2>1, <2>2
<1>12. PaidIsPayments'
  <2> SUFFICES ASSUME NEW p \in Orders, orders'[p] # None
               PROVE  /\ orders'[p].paid = orders'[p].payments
                      /\ orders'[p].paid <= taken'[p]
    BY DEF PaidIsPayments
  <2>1. CASE p = o
    BY <1>2, <1>5, <1>6, <2>1 DEF Honest
  <2>2. CASE p # o
    <3>1. orders'[p] = orders[p] /\ orders[p] \in Row
      BY <1>5, <2>2 DEF IInv, TypeOK
    <3>2. orders[p].paid \in Nat /\ taken[p] \in Nat /\ taken'[p] \in Nat
      BY <1>6, <3>1 DEF Row
    <3>3. orders[p].paid = orders[p].payments /\ orders[p].paid <= taken[p]
      BY <3>1 DEF IInv, RowInv, PaidIsPayments
    <3> QED BY <1>6, <3>1, <3>2, <3>3
  <2> QED BY <2>1, <2>2
<1>13. CancelledHasTicket'
  BY <1>3, <1>4, <1>7 DEF IInv, RowInv, CancelledHasTicket
<1> QED BY <1>9, <1>10, <1>11, <1>12, <1>13, EndIInv DEF Commit, RowInv

-----------------------------------------------------------------------------
LEMMA NextIInv == IInv /\ [Next]_vars => IInv'
<1> SUFFICES ASSUME IInv, [Next]_vars PROVE IInv'
  OBVIOUS
<1>1. ASSUME NEW r \in Requests, Begin(r) PROVE IInv'
  BY <1>1, BeginIInv
<1>2. ASSUME NEW r \in Requests, Proceed(r) PROVE IInv'
  <2>1. CASE FindOrder(r) \/ AppendLine(r) \/ NewOrder(r) \/ Read(r)
    BY <2>1, FindOrderIInv, AppendLineIInv, NewOrderIInv, ReadIInv
  <2>2. CASE WriteStatus(r) \/ WriteTransfer(r) \/ WriteDelete(r) \/ WriteHide(r)
    BY <2>2, WriteStatusIInv, WriteTransferIInv, WriteDeleteIInv, WriteHideIInv
  <2>3. CASE WriteItem(r) \/ WriteQuantity(r) \/ Reread(r) \/ WriteTotal(r)
    BY <2>3, WriteItemIInv, WriteQuantityIInv, RereadIInv, WriteTotalIInv
  <2>4. CASE CountActive(r) \/ MarkTable(r) \/ Commit(r)
    BY <2>4, CountActiveIInv, MarkTableIInv, CommitIInv
  <2>5. CASE ClearOrders(r) \/ FreeAll(r) \/ LookForOrders(r) \/ FreeTable(r)
    BY <2>5, ClearOrdersIInv, FreeIInv, LookForOrdersIInv
  <2> QED BY <1>2, <2>1, <2>2, <2>3, <2>4, <2>5 DEF Proceed
<1>3. ASSUME NEW r \in Requests, Dies(r) PROVE IInv'
  BY <1>3, DiesIInv
<1>4. ASSUME NEW t \in Tables, NEW s \in TableStatus, SetTable(t, s) PROVE IInv'
  BY <1>4, SetTableIInv
<1>5. CASE UNCHANGED vars
  <2>1. UNCHANGED <<orders, lines, tables, tickets, request>>
        /\ UNCHANGED <<taken, cancels, torn, starts>>
    BY <1>5 DEF vars, rows, history
  <2>2. TypeOK'
    BY <2>1 DEF IInv, TypeOK
  <2>3. \A r \in Requests : Sound(request[r])'
    BY <2>1 DEF IInv, Sound, Placed, Known, Honest, Holds
  <2>4. RowInv'
    BY <2>1 DEF IInv, RowInv, LineInv, PaidIsPayments, CancelledHasTicket
  <2> QED BY <2>2, <2>3, <2>4 DEF IInv
<1> QED BY <1>1, <1>2, <1>3, <1>4, <1>5 DEF Next

LEMMA Invariance == Spec => []IInv
  BY InitIInv, NextIInv, PTL DEF Spec

\* Requests, rows and what they hold keep their types, whatever overlaps.
THEOREM LedgerTypeCorrect == Spec => []TypeOK
<1>1. IInv => TypeOK
  BY DEF IInv
<1> QED BY <1>1, Invariance, PTL

\* updateStatus: what an order says is paid is the sum of its payments, each
\* of which somebody made, in spite of concurrent payments, transfers,
\* recalculations and rollbacks.
THEOREM PaymentsAddUp == Spec => []PaidIsPayments
<1>1. IInv => PaidIsPayments
  BY DEF IInv, RowInv
<1> QED BY <1>1, Invariance, PTL

\* updateItemStatus: a line is never cancelled behind the kitchen's back, even
\* when the status that decides is stale.
THEOREM CancelsAreTold == Spec => []CancelledHasTicket
<1>1. IInv => CancelledHasTicket
  BY DEF IInv, RowInv
<1> QED BY <1>1, Invariance, PTL

-----------------------------------------------------------------------------
\* What requests have to themselves.

\* Touched, request by request: the orders and the tables r works on.
Handles(r, o) ==
    \/ request[r].kind = "clear"
    \/ /\ request[r].kind = "create"
       /\ orders[o] # None /\ orders[o].table = request[r].table
    \/ request[r].kind \in OnOrder \cup {"create"} /\ request[r].order = o

Seats(r, t) ==
    \/ request[r].kind = "clear"
    \/ request[r].table = t
    \/ request[r].kind \in OnOrder /\ orders[request[r].order].table = t

Has(r, x) == (x \in Orders /\ Handles(r, x)) \/ (x \in Tables /\ Seats(r, x))

\* What two requests share is torn, and all of an operation on an order that
\* another one works on.  A row is locked by one transaction, and the line of a
\* new command is nobody else's.
Apart(p, r) ==
    /\ request[p].kind \in OnOrder /\ Handles(r, request[p].order) =>
          request[p].order \in torn /\ \A t \in Tables : Seats(p, t) => t \in torn
    /\ \A t \in Tables : Seats(p, t) /\ Seats(r, t) => t \in torn
    /\ Holds(request[p]) /\ Holds(request[r]) => request[p].order # request[r].order
    /\ request[p].kind = "create" => request[p].line # request[r].line

\* Lines stay with their order, and a locked row stays as it was written from.
Kept(r) ==
    LET q == request[r]
    IN  /\ q.kind = "create" => lines[q.line] = None
        /\ q.kind \in OnLine => lines[q.line].order = q.order
        /\ Holds(q) /\ q.kind = "create" =>
              orders[q.order] = None /\ q.row.total = 1 /\ q.row.table = q.table
        /\ Holds(q) /\ q.kind # "create" =>
              /\ q.row.total = orders[q.order].total
              /\ q.row.table = IF q.kind = "transfer" THEN q.table
                               ELSE orders[q.order].table

Base ==
    /\ \A r \in Requests : Kept(r)
    /\ \A p, r \in Requests : p # r => Apart(p, r)

\* A step of r writes what r works on, and no row that another one has locked.
Alone(r) ==
    /\ torn \subseteq torn'
    /\ \A p \in Requests \ {r} : request'[p] = request[p]
    /\ \A l \in Lines : \/ lines'[l] = lines[l]
                        \/ /\ l = request[r].line
                           /\ request[r].kind \in OnLine \cup {"create"}
                           /\ lines'[l] \in Line
                           /\ lines'[l].order = request[r].order
    /\ \A p \in Requests \ {r} : Holds(request[p]) =>
          orders'[request[p].order] = orders[request[p].order]

\* No order appears, and none changes its table.
SameTables ==
    \A o \in Orders : /\ orders[o] = None <=> orders'[o] = None
                      /\ orders[o] # None => orders'[o].table = orders[o].table

\* r goes on with what it began; a new command may come to an order of its
\* table, or to one that is not there yet.
Continues(r) ==
    LET q == request[r]
        n == request'[r]
    IN  /\ n.kind = q.kind /\ n.table = q.table /\ n.line = q.line
        /\ \/ n.order = q.order
           \/ /\ q.kind = "create" /\ ~Holds(q) /\ n.order \in Orders
              /\ orders[n.order] # None => orders[n.order].table = q.table
        /\ Holds(n) /\ ~Holds(q) => \A p \in Requests \ {r} :
              Holds(request[p]) => request[p].order # n.order

Ends(r) == request'[r] = Idle

LEMMA IdleIs ==
    /\ Idle.at = "idle" /\ Idle.kind = "none" /\ Idle.table = None
    /\ Idle.order = None /\ Idle.line = None
    /\ Idle.marks = [t \in Tables |-> None]
  BY DEF Idle

LEMMA PlacedIs ==
    ASSUME IInv, NEW r \in Requests
    PROVE  /\ request[r] \in Request
           /\ request[r].kind \in OnOrder =>
                 /\ request[r].order \in Orders /\ orders[request[r].order] \in Row
                 /\ orders[request[r].order] # None
           /\ request[r].kind \in OnLine =>
                 /\ request[r].line \in Lines /\ lines[request[r].line] \in Line
                 /\ lines[request[r].line] # None
           /\ request[r].kind = "create" => request[r].line \in Lines
           /\ Holds(request[r]) => request[r].order \in Orders
<1>1. Placed(request[r]) /\ Known(request[r]) /\ request[r] \in Request
  BY RequestSound DEF Sound
<1> QED BY <1>1, NoneType DEF Placed, Known

LEMMA PlacedThen ==
    ASSUME IInv', NEW r \in Requests
    PROVE  LET n == request'[r]
           IN  /\ n \in Request
               /\ n.kind \in OnOrder => /\ n.order \in Orders
                                        /\ orders'[n.order] \in Row
                                        /\ orders'[n.order] # None
               /\ n.kind \in OnLine => /\ n.line \in Lines /\ lines'[n.line] \in Line
                                       /\ lines'[n.line] # None
               /\ Holds(n) => n.order \in Orders
<1>1. request'[r] \in Request /\ Sound(request[r])'
  BY DEF IInv, TypeOK
<1> QED BY <1>1, NoneType DEF Sound, Placed, Known, Holds

LEMMA TouchedOf ==
    ASSUME NEW q \in Request, NEW x,
           q.kind \in OnOrder => q.order \in Orders /\ orders[q.order] \in Row
    PROVE  LET handles == \/ q.kind = "clear"
                          \/ /\ q.kind = "create"
                             /\ orders[x] # None /\ orders[x].table = q.table
                          \/ q.kind \in OnOrder \cup {"create"} /\ q.order = x
               seats == \/ q.kind = "clear"
                        \/ q.table = x
                        \/ q.kind \in OnOrder /\ orders[q.order].table = x
           IN  x \in Touched(q) <=> (x \in Orders /\ handles) \/ (x \in Tables /\ seats)
<1>2. /\ q.order \in Orders \cup {None}
      /\ q.table \in Tables \cup {None} /\ q.kind \in Kind
  BY DEF Request
<1>3. q.kind \in OnOrder => orders[q.order].table \in Tables \cup {None}
  BY DEF Row
<1>n. None \notin Orders \cup Tables
  BY NoneType
<1>4. CASE q.kind = "clear"
  BY <1>n, <1>4 DEF Touched, OnOrder
<1>5. CASE q.kind = "create"
  BY <1>n, <1>2, <1>5 DEF Touched, OnOrder
<1>6. CASE q.kind \in OnOrder
  BY <1>n, <1>2, <1>3, <1>6 DEF Touched, OnOrder
<1>7. CASE q.kind \in {"none", "cleanup"}
  BY <1>n, <1>2, <1>7 DEF Touched, OnOrder
<1> QED BY <1>2, <1>4, <1>5, <1>6, <1>7 DEF Kind

LEMMA TouchedIs ==
    ASSUME IInv, NEW r \in Requests, NEW x
    PROVE  x \in Touched(request[r]) <=> Has(r, x)
<1> QED BY PlacedIs, TouchedOf DEF Handles, Seats, Has

\* A step of r keeps what the others rely on.
LEMMA OthersKept ==
    ASSUME IInv, Base, NEW r \in Requests, Alone(r), NEW p \in Requests \ {r}
    PROVE  Kept(p)'
<1>1. Kept(p) /\ Kept(r) /\ Apart(p, r) /\ request'[p] = request[p]
  BY DEF Base, Alone
<1>2. request[p].kind = "create" => lines'[request[p].line] = None
  BY <1>1, PlacedIs DEF Alone, Kept, Apart
<1>3. request[p].kind \in OnLine =>
         lines'[request[p].line].order = request[p].order
  BY <1>1, PlacedIs DEF Alone, Kept
<1>4. Holds(request[p]) => orders'[request[p].order] = orders[request[p].order]
  BY DEF Alone
<1> QED BY <1>1, <1>2, <1>3, <1>4 DEF Kept, Holds

LEMMA ApartStep ==
    ASSUME IInv, IInv', Base, NEW r \in Requests, Alone(r), SameTables,
           Continues(r) \/ Ends(r), NEW p \in Requests, NEW s \in Requests, p # s
    PROVE  Apart(p, s)'
<1>1. ASSUME NEW a \in Requests \ {r}
      PROVE  /\ request'[a] = request[a]
             /\ \A o \in Orders : Handles(a, o)' <=> Handles(a, o)
             /\ \A t \in Tables : Seats(a, t)' <=> Seats(a, t)
  <2>1. request'[a] = request[a]
    BY DEF Alone
  <2> QED BY <2>1, PlacedIs DEF SameTables, Handles, Seats
<1>2. /\ \A o \in Orders : orders[o] # None /\ Handles(r, o)' => Handles(r, o)
      /\ \A t \in Tables : Seats(r, t)' => Seats(r, t)
      /\ request'[r].kind \in OnOrder =>
            request[r].kind \in OnOrder /\ request'[r].order = request[r].order
  <2>1. CASE Ends(r)
    BY <2>1, IdleIs, NoneType DEF Ends, Handles, Seats, OnOrder
  <2>2. CASE Continues(r)
    BY <2>2, PlacedIs DEF Continues, SameTables, Handles, Seats, OnOrder
  <2> QED BY <2>1, <2>2
<1>3. /\ \A a \in Requests : request'[a].kind \in OnOrder =>
            /\ request[a].kind \in OnOrder /\ request'[a].order = request[a].order
            /\ request[a].order \in Orders /\ orders[request[a].order] # None
      /\ \A a \in Requests, o \in Orders : orders[o] # None /\ Handles(a, o)' => Handles(a, o)
      /\ \A a \in Requests, t \in Tables : Seats(a, t)' => Seats(a, t)
  BY <1>1, <1>2, PlacedIs
<1>4. Apart(p, s) /\ torn \subseteq torn'
  BY DEF Base, Alone
<1>5. Holds(request'[p]) /\ Holds(request'[s]) => request'[p].order # request'[s].order
  <2>1. \A a \in Requests : a # r => request'[a] = request[a]
    BY DEF Alone
  <2>2. CASE Ends(r)
    BY <1>4, <2>1, <2>2, IdleIs DEF Ends, Holds, Apart
  <2>3. ASSUME Continues(r), NEW a \in Requests \ {r}, Holds(request[a]),
               Holds(request'[r])
        PROVE  request[a].order # request'[r].order
    <3>1. Apart(a, r)
      BY DEF Base
    <3>2. CASE ~Holds(request[r])
      BY <2>3, <3>2 DEF Continues
    <3>3. CASE Holds(request[r])
      BY <2>3, <3>1, <3>3 DEF Continues, Apart
    <3> QED BY <3>2, <3>3
  <2> QED BY <1>4, <2>1, <2>2, <2>3 DEF Apart
<1>6. request'[p].kind = "create" => request'[p].line # request'[s].line
  <2>1. request'[p].kind = "create" => request[p].kind = "create"
           /\ request'[p].line = request[p].line /\ request[p].line # None
    BY <1>1, PlacedIs, NoneType, IdleIs DEF Continues, Ends
  <2>2. request'[s].line = request[s].line \/ request'[s].line = None
    BY <1>1, IdleIs DEF Continues, Ends
  <2> QED BY <1>4, <2>1, <2>2 DEF Apart
<1> QED BY <1>3, <1>4, <1>5, <1>6 DEF Apart

-----------------------------------------------------------------------------
\* Beginnings

LEMMA BeginIs ==
    ASSUME IInv, NEW r \in Requests, Begin(r)
    PROVE  LET n == request'[r]
           IN  /\ Start(r, n)
               /\ n.at \in {"find", "read", "write"}
               /\ n.at = "write" => n.kind \in {"create", "delete", "clear"}
               /\ n.marks = Idle.marks
               /\ n.kind = "create" =>
                     /\ lines[n.line] = None
                     /\ \A p \in Requests : request[p].line # n.line
               /\ n.kind \in OnLine =>
                     /\ n.line \in Lines /\ lines[n.line] # None
                     /\ lines[n.line].order = n.order
               /\ n.kind \notin OnLine \cup {"create"} => n.line = None
<1> DEFINE Good(n) ==
              /\ n.at \in {"find", "read", "write"}
              /\ n.at = "write" => n.kind \in {"create", "delete", "clear"}
              /\ n.marks = Idle.marks
              /\ n.kind = "create" =>
                    /\ lines[n.line] = None
                    /\ \A p \in Requests : request[p].line # n.line
              /\ n.kind \in OnLine =>
                    /\ n.line \in Lines /\ lines[n.line] # None
                    /\ lines[n.line].order = n.order
              /\ n.kind \notin OnLine \cup {"create"} => n.line = None
<1>1. ASSUME NEW n, Start(r, n), Good(n)
      PROVE  Start(r, request'[r]) /\ Good(request'[r])
  <2>1. request'[r] = n
    BY <1>1 DEF Start, IInv, TypeOK
  <2> HIDE DEF Good
  <2> QED BY <1>1, <2>1
<1> SUFFICES \E n : Start(r, n) /\ Good(n)
  <2> HIDE DEF Good
  <2>1. PICK n : Start(r, n) /\ Good(n)
    OBVIOUS
  <2>2. Start(r, request'[r]) /\ Good(request'[r])
    BY <1>1, <2>1
  <2> QED BY <2>2 DEF Good
<1>2. CASE StartCreate(r)
  <2>1. PICK t \in Tables \cup {None}, at \in {"find", "write"}, l \in Lines :
            /\ lines[l] = None /\ \A q \in Requests : request[q].line # l
            /\ Start(r, [Idle EXCEPT !.at = at, !.kind = "create", !.table = t,
                                     !.line = l])
    BY <1>2 DEF StartCreate
  <2> DEFINE n == [Idle EXCEPT !.at = at, !.kind = "create", !.table = t, !.line = l]
  <2>2. Good(n)
    BY <2>1 DEF Idle, OnLine
  <2> QED BY <2>1, <2>2
<1>3. CASE StartOnOrder(r)
  <2>1. PICK o \in Orders :
            LET q == [Idle EXCEPT !.at = "read", !.order = o]
            IN  \/ \E s \in Status, n \in 0..MaxAmount :
                      Start(r, [q EXCEPT !.kind = "status", !.status = s, !.number = n])
                \/ \E t \in Tables :
                      Start(r, [q EXCEPT !.kind = "transfer", !.table = t])
                \/ Start(r, [q EXCEPT !.kind = "delete", !.at = "write"])
                \/ Start(r, [q EXCEPT !.kind = "hide"])
    BY <1>3 DEF StartOnOrder
  <2> DEFINE q == [Idle EXCEPT !.at = "read", !.order = o]
  <2>2. /\ \A s, n : Good([q EXCEPT !.kind = "status", !.status = s, !.number = n])
        /\ \A t : Good([q EXCEPT !.kind = "transfer", !.table = t])
        /\ Good([q EXCEPT !.kind = "delete", !.at = "write"])
        /\ Good([q EXCEPT !.kind = "hide"])
    BY DEF Idle, OnLine
  <2> HIDE DEF Good
  <2> QED BY <2>1, <2>2
<1>4. CASE StartOnLine(r)
  <2>1. PICK l \in Lines : lines[l] # None /\
            LET q == [Idle EXCEPT !.at = "read", !.line = l, !.order = lines[l].order]
            IN  \/ \E c, x \in BOOLEAN :
                      Start(r, [q EXCEPT !.kind = "item", !.cancel = c, !.treat = x])
                \/ \E n \in 1..MaxQuantity :
                      Start(r, [q EXCEPT !.kind = "quantity", !.number = n])
    BY <1>4 DEF StartOnLine
  <2> DEFINE q == [Idle EXCEPT !.at = "read", !.line = l, !.order = lines[l].order]
  <2>2. ASSUME NEW c \in BOOLEAN, NEW x \in BOOLEAN
        PROVE  Good([q EXCEPT !.kind = "item", !.cancel = c, !.treat = x])
    <3> DEFINE n == [q EXCEPT !.kind = "item", !.cancel = c, !.treat = x]
    <3>1. /\ n.at = "read" /\ n.kind = "item" /\ n.line = l
          /\ n.order = lines[l].order /\ n.marks = Idle.marks
      BY DEF Idle
    <3> HIDE DEF n
    <3>2. Good(n)
      BY <2>1, <3>1 DEF OnLine
    <3> QED BY <3>2 DEF n
  <2>3. \A n : Good([q EXCEPT !.kind = "quantity", !.number = n])
    BY <2>1 DEF Idle, OnLine
  <2> HIDE DEF Good
  <2> QED BY <2>1, <2>2, <2>3
<1>5. CASE StartClear(r)
  <2>1. Good([Idle EXCEPT !.at = "write", !.kind = "clear"])
    BY DEF Idle, OnLine
  <2> HIDE DEF Good
  <2> QED BY <1>5, <2>1 DEF StartClear
<1>6. CASE StartCleanup(r)
  <2>1. \A t : Good([Idle EXCEPT !.at = "find", !.kind = "cleanup", !.table = t])
    BY DEF Idle, OnLine
  <2> HIDE DEF Good
  <2> QED BY <1>6, <2>1 DEF StartCleanup
<1> QED BY <1>2, <1>3, <1>4, <1>5, <1>6 DEF Begin

\* All of what overlaps when r begins is torn from then on.
LEMMA StartTears ==
    ASSUME IInv, IInv', NEW r \in Requests, Start(r, request'[r])
    PROVE  /\ UNCHANGED <<orders, lines, tables>> /\ torn \subseteq torn'
           /\ \A p \in Requests \ {r} : request'[p] = request[p]
           /\ \A p \in Requests \ {r} : \A x, y :
                 Has(p, x) /\ Has(r, x)' /\ (Has(p, y) \/ Has(r, y)') => y \in torn'
<1> DEFINE n == request'[r]
<1>1. /\ UNCHANGED <<orders, lines, tables>> /\ torn \subseteq torn'
      /\ \A p \in Requests \ {r} : request'[p] = request[p]
  BY DEF Start, rows, IInv, TypeOK
<1>2. n \in Request /\ (n.kind \in OnOrder => n.order \in Orders /\ orders[n.order] \in Row)
  BY <1>1, PlacedThen
<1>3. ASSUME NEW m \in Request, m = n, NEW x
      PROVE  x \in Touched(m) <=> Has(r, x)'
  <2>1. /\ m.kind = request'[r].kind /\ m.table = request'[r].table
        /\ m.order = request'[r].order /\ orders' = orders
    BY <1>1, <1>3
  <2>2. m.kind \in OnOrder => m.order \in Orders /\ orders[m.order] \in Row
    BY <1>2, <2>1
  <2> HIDE DEF n
  <2> QED BY <2>1, <2>2, TouchedOf DEF Handles, Seats, Has
<1>4. \A x : x \in Touched(n) <=> Has(r, x)'
  BY <1>2, <1>3
<1>5. ASSUME NEW p \in Requests \ {r}, Touched(request[p]) \cap Touched(n) # {}
      PROVE  Touched(request[p]) \cup Touched(n) \subseteq torn'
  BY <1>5 DEF Start
<1>6. ASSUME NEW p \in Requests \ {r}, NEW x, NEW y, Has(p, x), Has(r, x)',
             Has(p, y) \/ Has(r, y)'
      PROVE  y \in torn'
  <2>1. x \in Touched(request[p]) /\ x \in Touched(n)
    BY <1>4, <1>6, TouchedIs
  <2>2. y \in Touched(request[p]) \cup Touched(n)
    BY <1>4, <1>6, TouchedIs
  <2> QED BY <1>5, <2>1, <2>2
<1> QED BY <1>1, <1>6

LEMMA BeginBase ==
    ASSUME IInv, IInv', Base, NEW r \in Requests, Begin(r)
    PROVE  Base'
<1> DEFINE n == request'[r]
<1>1. /\ Start(r, n)
      /\ n.at \in {"find", "read", "write"}
      /\ n.kind = "create" =>
            /\ lines[n.line] = None
            /\ \A p \in Requests : request[p].line # n.line
      /\ n.kind \in OnLine => /\ n.line \in Lines /\ lines[n.line] # None
                              /\ lines[n.line].order = n.order
      /\ n.kind \notin OnLine \cup {"create"} => n.line = None
  BY BeginIs
<1>2. /\ UNCHANGED <<orders, lines, tables>> /\ torn \subseteq torn'
      /\ \A p \in Requests \ {r} : request'[p] = request[p]
  BY <1>1, StartTears
<1>3. Alone(r)
  BY <1>2 DEF Alone
<1>4. \A p \in Requests : Kept(p)'
  <2>1. Kept(r)'
    BY <1>1, <1>2 DEF Kept, Holds
  <2> QED BY <1>3, <2>1, OthersKept
<1>5. ASSUME NEW p \in Requests \ {r}, NEW s \in Requests \ {r}, p # s
      PROVE  Apart(p, s)'
  BY <1>2, <1>5 DEF Base, Apart, Handles, Seats, Holds
<1>6. ASSUME NEW p \in Requests \ {r}
      PROVE  Apart(p, r)' /\ Apart(r, p)'
  <2>1. /\ request'[p] = request[p]
        /\ \A o : Handles(p, o)' <=> Handles(p, o)
        /\ \A t : Seats(p, t)' <=> Seats(p, t)
    BY <1>2 DEF Handles, Seats
  <2>2. request[p].kind \in OnOrder =>
           request[p].order \in Orders /\ Handles(p, request[p].order)
    BY PlacedIs DEF Handles
  <2>3. n.kind \in OnOrder => n.order \in Orders /\ Handles(r, request[r].order)'
    BY PlacedThen DEF Handles
  <2>4. ~Holds(n)
    BY <1>1 DEF Holds
  <2>5. request[p].kind = "create" => request[p].line # n.line
    <3>1. request[p].kind = "create" =>
             /\ lines[request[p].line] = None /\ request[p].line \in Lines
             /\ request[p].line # None
      BY PlacedIs, NoneType DEF Base, Kept
    <3> QED BY <1>1, <3>1
  <2>6. n.kind = "create" => n.line # request[p].line
    BY <1>1
  <2>7. \A x, y : Has(p, x) /\ Has(r, x)' /\ (Has(p, y) \/ Has(r, y)') => y \in torn'
    BY <1>1, StartTears
  <2>8. Apart(p, r)'
    BY <2>1, <2>2, <2>4, <2>5, <2>7 DEF Apart, Has
  <2>9. Apart(r, p)'
    BY <2>1, <2>3, <2>4, <2>6, <2>7 DEF Apart, Has
  <2> QED BY <2>8, <2>9
<1> QED BY <1>4, <1>5, <1>6 DEF Base

-----------------------------------------------------------------------------
\* What the steps of a request do to it.

\* The same operation on the same things.
Keeps(r) ==
    LET q == request[r]
        n == request'[r]
    IN  /\ n.kind = q.kind /\ n.order = q.order /\ n.line = q.line
        /\ n.table = q.table /\ n.marks = q.marks

Others(r) == \A p \in Requests \ {r} : request'[p] = request[p]

\* Nobody but r sees the step.
Unseen(r) == Others(r) /\ UNCHANGED <<orders, lines, tables, torn>>

LEMMA ToIs ==
    ASSUME IInv, NEW r \in Requests, NEW m, To(r, m)
    PROVE  request'[r] = m /\ Others(r)
  BY DEF IInv, TypeOK, To, Others

LEMMA DoneIs ==
    ASSUME IInv, NEW r \in Requests, Done(r)
    PROVE  Ends(r) /\ Others(r)
  BY ToIs DEF Done, Ends

LEMMA FindOrderIs ==
    ASSUME IInv, NEW r \in Requests, FindOrder(r)
    PROVE  LET q == request[r]
               n == request'[r]
           IN  /\ Unseen(r)
               /\ q.kind = "create" /\ q.at = "find" /\ n.at = "write"
               /\ n.kind = q.kind /\ n.line = q.line /\ n.table = q.table
               /\ n.marks = q.marks
               /\ \/ n.order = q.order
                  \/ /\ n.order \in Orders /\ orders[n.order] # None
                     /\ orders[n.order].table = q.table
<1>1. request[r] \in Request
  BY PlacedIs
<1>2. Others(r) /\ UNCHANGED <<orders, lines, tables, torn>>
  BY ToIs DEF FindOrder, rows, history
<1>3. CASE To(r, [request[r] EXCEPT !.at = "write"])
  <2>1. request'[r] = [request[r] EXCEPT !.at = "write"]
    BY <1>3, ToIs
  <2> QED BY <1>1, <1>2, <2>1 DEF FindOrder, Request, Unseen
<1>4. ASSUME NEW o \in Orders, Active(orders[o]), orders[o].table = request[r].table,
             To(r, [request[r] EXCEPT !.at = "write", !.order = o])
      PROVE  LET q == request[r]
                 n == request'[r]
             IN  /\ n.at = "write"
                 /\ n.kind = q.kind /\ n.line = q.line /\ n.table = q.table
                 /\ n.marks = q.marks
                 /\ n.order \in Orders /\ orders[n.order] # None
                 /\ orders[n.order].table = q.table
  <2>1. request'[r] = [request[r] EXCEPT !.at = "write", !.order = o]
    BY <1>4, ToIs
  <2> QED BY <1>1, <1>4, <2>1 DEF Request, Active
<1> QED BY <1>2, <1>3, <1>4 DEF FindOrder, Unseen

LEMMA NewOrderIs ==
    ASSUME IInv, NEW r \in Requests, NewOrder(r)
    PROVE  LET q == request[r]
               n == request'[r]
           IN  /\ Unseen(r)
               /\ q.kind = "create" /\ q.at = "write"
               /\ n.kind = q.kind /\ n.line = q.line /\ n.table = q.table
               /\ n.marks = q.marks
               /\ n.order \in Orders /\ orders[n.order] = None
               /\ \A p \in Requests : request[p].order # n.order
               /\ n.row.total = 1 /\ n.row.table = q.table
               /\ n.at = IF q.table = None THEN "commit" ELSE "count"
               /\ n.sync = IF q.table = None THEN <<>> ELSE <<q.table>>
<1> DEFINE q == request[r]
           row == [table |-> q.table, status |-> "PENDING", hidden |-> FALSE,
                   total |-> 1, paid |-> 0, payments |-> 0]
<1>1. q \in Request
  BY PlacedIs
<1>2. Others(r) /\ UNCHANGED <<orders, lines, tables, torn>>
  BY ToIs DEF NewOrder, rows, history
<1>3. PICK o \in Orders :
         /\ orders[o] = None /\ \A p \in Requests : request[p].order # o
         /\ To(r, [q EXCEPT !.order = o, !.row = row, !.sync = SyncOf(row),
                            !.at = IF q.table = None THEN "commit" ELSE "count"])
  BY DEF NewOrder
<1>4. row.table = q.table /\ row.total = 1
  OBVIOUS
<1>5. SyncOf(row) = IF q.table = None THEN <<>> ELSE <<q.table>>
  BY <1>4 DEF SyncOf
<1> HIDE DEF row
<1>6. request'[r] = [q EXCEPT !.order = o, !.row = row, !.sync = SyncOf(row),
                              !.at = IF q.table = None THEN "commit" ELSE "count"]
  BY <1>3, ToIs
<1>7. LET n == request'[r]
      IN  /\ n.kind = q.kind /\ n.line = q.line /\ n.table = q.table
          /\ n.marks = q.marks /\ n.order = o /\ n.row = row /\ n.sync = SyncOf(row)
          /\ n.at = IF q.table = None THEN "commit" ELSE "count"
  BY <1>1, <1>6 DEF Request
<1> QED BY <1>2, <1>3, <1>4, <1>5, <1>7 DEF NewOrder, Unseen

LEMMA ReadIs ==
    ASSUME IInv, NEW r \in Requests, Read(r)
    PROVE  LET q == request[r]
               n == request'[r]
           IN  /\ Unseen(r) /\ Keeps(r)
               /\ q.at = "read" /\ n.at = "write" /\ q.kind \in OnOrder
               /\ n.row = orders[q.order]
               /\ q.kind \in OnLine => n.old = lines[q.line]
<1> DEFINE q == request[r]
<1>1. q \in Request /\ Placed(q)
  BY RequestSound DEF Sound
<1>2. Others(r) /\ UNCHANGED <<orders, lines, tables, torn>>
  BY ToIs DEF Read, rows, history
<1>3. q.kind \in OnLine => q.line # None
  BY PlacedIs, NoneType
<1>4. request'[r] = [q EXCEPT !.at = "write", !.row = orders[q.order],
                              !.old = IF q.line = None THEN None ELSE lines[q.line]]
  BY ToIs DEF Read
<1> QED BY <1>1, <1>2, <1>3, <1>4 DEF Read, Request, Unseen, Keeps, Placed

\* What updateStatus, transferTable and delete write and do not show yet.
LEMMA WroteIs ==
    ASSUME IInv, NEW r \in Requests, WriteStatus(r) \/ WriteTransfer(r) \/ WriteDelete(r)
    PROVE  LET q == request[r]
               n == request'[r]
               o == orders[q.order]
           IN  /\ Unseen(r) /\ q.at = "write"
               /\ q.kind \in {"status", "transfer", "delete"}
               /\ ~RowLocked(q.order)
               /\ \/ Ends(r)
                  \/ /\ Keeps(r)
                     /\ n.at = IF n.sync = <<>> THEN "commit" ELSE "count"
                     /\ n.row.total = o.total
                     /\ n.row.table = IF q.kind = "transfer" THEN q.table ELSE o.table
                     /\ n.sync = IF q.kind = "transfer" THEN <<q.table, q.row.table>>
                                 ELSE IF o.table = None THEN <<>> ELSE <<o.table>>
                     /\ q.kind = "transfer" => q.row.table # None
<1> DEFINE q == request[r]
<1>1. q \in Request /\ q.kind \in {"status", "transfer", "delete"} /\ q.at = "write"
  BY PlacedIs DEF WriteStatus, WriteTransfer, WriteDelete
<1>2. q.order \in Orders /\ orders[q.order] \in Row
  BY <1>1, PlacedIs DEF OnOrder
<1>3. UNCHANGED <<orders, lines, tables, torn>> /\ ~RowLocked(q.order)
  BY DEF WriteStatus, WriteTransfer, WriteDelete, rows, history
<1>4. ASSUME NEW row, NEW sync, Wrote(r, row, sync)
      PROVE  LET n == request'[r]
             IN  /\ Keeps(r) /\ Others(r) /\ n.row = row /\ n.sync = sync
                 /\ n.at = IF sync = <<>> THEN "commit" ELSE "count"
  <2>1. request'[r] = [request[r] EXCEPT
                          !.at = IF sync = <<>> THEN "commit" ELSE "count",
                          !.row = row, !.sync = sync]
        /\ Others(r)
    BY <1>4, ToIs DEF Wrote
  <2> QED BY <1>1, <2>1 DEF Request, Keeps
<1>5. CASE WriteStatus(r)
  <2> DEFINE row == [orders[q.order] EXCEPT !.status = Paid(q),
                                            !.paid = q.row.paid + q.number,
                                            !.payments = q.row.payments + q.number]
  <2>1. Wrote(r, row, SyncOf(row)) /\ q.kind = "status"
    BY <1>5 DEF WriteStatus
  <2>2. row.total = orders[q.order].total /\ row.table = orders[q.order].table
    BY <1>2 DEF Row
  <2> HIDE DEF row
  <2> QED BY <1>1, <1>3, <1>4, <2>1, <2>2 DEF SyncOf, Unseen
<1>6. CASE WriteDelete(r)
  <2> DEFINE row == [orders[q.order] EXCEPT !.hidden = TRUE, !.status = "CANCELLED"]
  <2>1. Wrote(r, row, SyncOf(row)) /\ q.kind = "delete"
    BY <1>6 DEF WriteDelete
  <2>2. row.total = orders[q.order].total /\ row.table = orders[q.order].table
    BY <1>2 DEF Row
  <2> HIDE DEF row
  <2> QED BY <1>1, <1>3, <1>4, <2>1, <2>2 DEF SyncOf, Unseen
<1>7. CASE WriteTransfer(r)
  <2>1. CASE Done(r)
    BY <1>1, <1>3, <2>1, DoneIs DEF Unseen
  <2>2. CASE ~Done(r)
    <3> DEFINE row == [orders[q.order] EXCEPT !.table = q.table]
    <3>1. /\ Wrote(r, row, <<q.table, q.row.table>>) /\ q.kind = "transfer"
          /\ q.row.table # None
      BY <1>7, <2>2 DEF WriteTransfer
    <3>2. row.total = orders[q.order].total /\ row.table = q.table
      BY <1>2 DEF Row
    <3> HIDE DEF row
    <3> QED BY <1>1, <1>3, <1>4, <3>1, <3>2 DEF Unseen
  <2> QED BY <2>1, <2>2
<1> QED BY <1>5, <1>6, <1>7

LEMMA RereadIs ==
    ASSUME IInv, NEW r \in Requests, Reread(r)
    PROVE  LET q == request[r]
               n == request'[r]
           IN  /\ Unseen(r) /\ Keeps(r)
               /\ q.kind \in OnLine /\ q.at = "reread" /\ n.at = "total"
               /\ n.row.total = Due(q.order) /\ n.row.table = orders[q.order].table
<1> DEFINE q == request[r]
           due == Due(q.order)
           status == IF Charged(q.order) = {} THEN "CANCELLED" ELSE orders[q.order].status
           row == [orders[q.order] EXCEPT !.total = due, !.status = status]
<1>1. q \in Request /\ Placed(q) /\ q.at = "reread"
  BY RequestSound DEF Sound, Reread
<1>2. q.kind \in OnLine /\ q.order \in Orders /\ orders[q.order] \in Row
  BY <1>1 DEF Placed, OnLine, OnOrder
<1>3. Unseen(r) /\ request'[r] = [q EXCEPT !.at = "total", !.row = row]
  BY ToIs DEF Reread, rows, history, Unseen
<1> HIDE DEF due, status
<1>4. row.total = due /\ row.table = orders[q.order].table
  BY <1>2 DEF Row
<1> HIDE DEF row
<1> QED BY <1>1, <1>2, <1>3, <1>4 DEF Request, Keeps, due

LEMMA CountActiveIs ==
    ASSUME IInv, NEW r \in Requests, CountActive(r)
    PROVE  LET q == request[r]
               n == request'[r]
           IN  /\ Unseen(r) /\ Keeps(r)
               /\ q.at = "count" /\ n.at = "mark"
               /\ n.row = q.row /\ n.sync = q.sync
               /\ n.active = \E o \in Orders : /\ Active(View(r, o))
                                               /\ View(r, o).table = Head(q.sync)
<1> DEFINE q == request[r]
           active == \E o \in Orders : Active(View(r, o)) /\ View(r, o).table = Head(q.sync)
<1>1. q \in Request
  BY PlacedIs
<1>2. Unseen(r) /\ request'[r] = [q EXCEPT !.at = "mark", !.active = active]
  BY ToIs DEF CountActive, rows, history, Unseen
<1> HIDE DEF active
<1>3. Keeps(r) /\ request'[r].row = q.row /\ request'[r].sync = q.sync
      /\ request'[r].active = active /\ request'[r].at = "mark"
  BY <1>1, <1>2 DEF Request, Keeps
<1> QED BY <1>2, <1>3 DEF CountActive, active

LEMMA LookForOrdersIs ==
    ASSUME IInv, NEW r \in Requests, LookForOrders(r)
    PROVE  LET q == request[r]
               n == request'[r]
           IN  /\ Unseen(r) /\ q.kind = "cleanup" /\ q.at = "find"
               /\ \/ Ends(r)
                  \/ /\ Keeps(r) /\ n.at = "free"
                     /\ ~\E o \in Orders : Active(orders[o]) /\ orders[o].table = q.table
<1>1. request[r] \in Request
  BY PlacedIs
<1>2. UNCHANGED <<orders, lines, tables, torn>>
  BY DEF LookForOrders, rows, history
<1>3. CASE Done(r)
  BY <1>2, <1>3, DoneIs DEF LookForOrders, Unseen
<1>4. CASE ~Done(r)
  <2>1. /\ ~\E o \in Orders : Active(orders[o]) /\ orders[o].table = request[r].table
        /\ To(r, [request[r] EXCEPT !.at = "free"])
    BY <1>4 DEF LookForOrders
  <2> QED BY <1>1, <1>2, <2>1, ToIs DEF LookForOrders, Request, Keeps, Unseen
<1> QED BY <1>3, <1>4

LEMMA DiesIs ==
    ASSUME IInv, NEW r \in Requests, Dies(r)
    PROVE  LET q == request[r]
           IN  /\ Ends(r) /\ Others(r) /\ UNCHANGED <<orders, lines, tables>>
               /\ torn \subseteq torn'
               /\ \/ q.at \in {"reread", "total", "free"}
                  \/ q.at \in {"count", "mark"} /\ ~Holds(q)
                  => \A x : Has(r, x) => x \in torn'
<1>1. Ends(r) /\ Others(r) /\ UNCHANGED <<orders, lines, tables>>
  BY DoneIs DEF Dies, rows
<1>2. torn' = IF \/ request[r].at \in {"reread", "total", "free"}
                 \/ request[r].at \in {"count", "mark"} /\ ~Holds(request[r])
              THEN torn \cup Touched(request[r]) ELSE torn
  BY DEF Dies, InTransaction, Holds
<1> QED BY <1>1, <1>2, TouchedIs

-----------------------------------------------------------------------------
\* What the steps that others see do to the rows.

OnlyOrder(o) == \A p \in Orders \ {o} : orders'[p] = orders[p]
OnlyLine(l) == \A k \in Lines \ {l} : lines'[k] = lines[k]

\* The price of a line is its quantity, or nothing for a treat.
Priced(line) == line.price = IF line.treat THEN 0 ELSE line.quantity

LEMMA AppendLineIs ==
    ASSUME IInv, NEW r \in Requests, AppendLine(r)
    PROVE  LET q == request[r]
               o == q.order
           IN  /\ Ends(r) /\ Others(r) /\ UNCHANGED <<tables, torn>>
               /\ q.kind = "create" /\ q.at = "write"
               /\ o \in Orders /\ q.line \in Lines /\ ~RowLocked(o)
               /\ orders[o] \in Row /\ orders'[o] \in Row /\ OnlyOrder(o)
               /\ orders'[o].total = orders[o].total + 1
               /\ orders'[o].table = orders[o].table
               /\ orders'[o].status = orders[o].status
               /\ orders'[o].hidden = orders[o].hidden
               /\ lines'[q.line] = NewLine(o) /\ OnlyLine(q.line)
<1> DEFINE q == request[r]
           o == q.order
<1>1. /\ q \in Request /\ Placed(q) /\ q.kind = "create" /\ q.at = "write"
      /\ o # None /\ ~RowLocked(o)
  BY RequestSound DEF AppendLine, Sound
<1>2. o \in Orders /\ orders[o] \in Row /\ q.line \in Lines
  BY <1>1 DEF Request, Placed
<1>3. /\ orders' = [orders EXCEPT ![o].total = @ + 1]
      /\ lines' = [lines EXCEPT ![q.line] = NewLine(o)]
      /\ UNCHANGED <<tables, torn>>
  BY DEF AppendLine, history
<1>4. Ends(r) /\ Others(r)
  BY DoneIs DEF AppendLine
<1>5. /\ orders'[o] \in Row /\ OnlyOrder(o)
      /\ orders'[o].total = orders[o].total + 1
      /\ orders'[o].table = orders[o].table
      /\ orders'[o].status = orders[o].status
      /\ orders'[o].hidden = orders[o].hidden
  BY <1>2, <1>3 DEF IInv, TypeOK, Row, OnlyOrder
<1>6. lines'[q.line] = NewLine(o) /\ OnlyLine(q.line)
  BY <1>2, <1>3 DEF IInv, TypeOK, OnlyLine
<1> QED BY <1>1, <1>2, <1>3, <1>4, <1>5, <1>6

LEMMA WriteHideIs ==
    ASSUME IInv, NEW r \in Requests, WriteHide(r)
    PROVE  LET q == request[r]
               o == q.order
           IN  /\ Ends(r) /\ Others(r) /\ UNCHANGED <<lines, tables>>
               /\ q.kind = "hide" /\ q.at = "write" /\ ~RowLocked(o)
               /\ o \in Orders /\ orders[o] \in Row /\ orders'[o] \in Row
               /\ OnlyOrder(o)
               /\ orders'[o].total = orders[o].total
               /\ orders'[o].table = orders[o].table
               /\ torn' = torn \cup (Tables \cap {orders[o].table})
<1> DEFINE q == request[r]
           o == q.order
           hidden == ~q.row.hidden
<1>1. q \in Request /\ Sound(q) /\ q.kind = "hide" /\ q.at = "write" /\ ~RowLocked(o)
  BY RequestSound DEF WriteHide
<1>2. o \in Orders /\ orders[o] \in Row /\ hidden \in BOOLEAN
  BY <1>1 DEF Sound, Placed, OnOrder
<1>3. /\ orders' = [orders EXCEPT ![o].hidden = hidden]
      /\ torn' = torn \cup (Tables \cap {orders[o].table})
      /\ UNCHANGED <<lines, tables>>
  BY DEF WriteHide
<1>4. Ends(r) /\ Others(r)
  BY DoneIs DEF WriteHide
<1> HIDE DEF hidden
<1>5. /\ orders'[o] \in Row /\ OnlyOrder(o)
      /\ orders'[o].total = orders[o].total
      /\ orders'[o].table = orders[o].table
  BY <1>2, <1>3 DEF IInv, TypeOK, Row, OnlyOrder
<1> QED BY <1>1, <1>2, <1>3, <1>4, <1>5

\* A line keeps its order; what was read is what is there if nobody wrote it in
\* between, and then a right price leads to a right price.
LEMMA WriteItemIs ==
    ASSUME IInv, NEW r \in Requests, WriteItem(r)
    PROVE  LET q == request[r]
               l == q.line
           IN  /\ Keeps(r) /\ Others(r) /\ UNCHANGED <<orders, tables, torn>>
               /\ q.kind = "item" /\ q.at = "write" /\ request'[r].at = "reread"
               /\ l \in Lines /\ lines[l] \in Line /\ lines'[l] \in Line
               /\ lines'[l].order = lines[l].order /\ OnlyLine(l)
               /\ q.old = lines[l] /\ Priced(lines[l]) => Priced(lines'[l])
<1> DEFINE q == request[r]
           l == q.line
           now == lines[l]
           treat == q.treat \/ (now.treat /\ ~q.old.treat)
           price == CASE q.treat -> 0
                      [] ~q.treat /\ q.old.treat -> q.old.quantity
                      [] OTHER -> now.price
           new == [now EXCEPT !.cancelled = q.cancel, !.treat = treat, !.price = price]
<1>1. q \in Request /\ Sound(q) /\ q.kind = "item" /\ q.at = "write"
  BY RequestSound DEF WriteItem
<1>2. /\ l \in Lines /\ now \in Line /\ q.old \in Line
      /\ q.treat \in BOOLEAN /\ q.cancel \in BOOLEAN
  BY <1>1 DEF Request, Sound, Placed, Known, OnLine
<1>3. price \in 0..MaxQuantity /\ treat \in BOOLEAN
  BY <1>2, BoundsType DEF Line
<1>4. q.old = now => treat = q.treat
  BY <1>2 DEF Line
<1>5. q.old = now /\ Priced(now) => price = IF treat THEN 0 ELSE now.quantity
  BY <1>2, <1>4 DEF Priced, Line
<1>6. /\ lines' = [lines EXCEPT ![l] = new] /\ UNCHANGED <<orders, tables, torn>>
      /\ To(r, [q EXCEPT !.at = "reread"])
  BY DEF WriteItem
<1>7. request'[r] = [q EXCEPT !.at = "reread"] /\ Others(r)
  BY <1>6, ToIs
<1>8. Keeps(r) /\ request'[r].at = "reread"
  BY <1>1, <1>7 DEF Request, Keeps
<1> HIDE DEF price, treat
<1>9. /\ new \in Line /\ new.order = now.order /\ new.treat = treat
      /\ new.price = price /\ new.quantity = now.quantity
  BY <1>2, <1>3 DEF Line
<1> HIDE DEF new
<1>10. lines'[l] = new /\ OnlyLine(l)
  BY <1>2, <1>6 DEF IInv, TypeOK, OnlyLine
<1>11. q.old = now /\ Priced(now) => Priced(new)
  BY <1>5, <1>9 DEF Priced
<1> QED BY <1>1, <1>2, <1>6, <1>7, <1>8, <1>9, <1>10, <1>11

LEMMA WriteQuantityIs ==
    ASSUME IInv, NEW r \in Requests, WriteQuantity(r)
    PROVE  LET q == request[r]
               l == q.line
           IN  /\ Keeps(r) /\ Others(r) /\ UNCHANGED <<orders, tables, torn>>
               /\ q.kind = "quantity" /\ q.at = "write" /\ request'[r].at = "reread"
               /\ l \in Lines /\ lines[l] \in Line /\ lines'[l] \in Line
               /\ lines'[l].order = lines[l].order /\ OnlyLine(l)
               /\ q.old = lines[l] => Priced(lines'[l])
<1> DEFINE q == request[r]
           l == q.line
           price == IF q.old.treat THEN 0 ELSE q.number
           new == [lines[l] EXCEPT !.quantity = q.number, !.price = price]
<1>1. q \in Request /\ Sound(q) /\ q.kind = "quantity" /\ q.at = "write"
  BY RequestSound DEF WriteQuantity
<1>2. /\ l \in Lines /\ lines[l] \in Line
      /\ q.number \in 1..MaxQuantity /\ price \in 0..MaxQuantity
  BY <1>1, BoundsType DEF Sound, Placed, OnLine
<1>3. /\ lines' = [lines EXCEPT ![l] = new] /\ UNCHANGED <<orders, tables, torn>>
      /\ To(r, [q EXCEPT !.at = "reread"])
  BY <1>2 DEF WriteQuantity, history, IInv, TypeOK
<1>4. request'[r] = [q EXCEPT !.at = "reread"] /\ Others(r)
  BY <1>3, ToIs
<1>5. Keeps(r) /\ request'[r].at = "reread"
  BY <1>1, <1>4 DEF Request, Keeps
<1>6. price = IF q.old.treat THEN 0 ELSE q.number
  OBVIOUS
<1> HIDE DEF price
<1>7. /\ new \in Line /\ new.order = lines[l].order /\ new.price = price
      /\ new.quantity = q.number /\ new.treat = lines[l].treat
  BY <1>2 DEF Line
<1> HIDE DEF new
<1>8. lines'[l] = new /\ OnlyLine(l)
  BY <1>2, <1>3 DEF IInv, TypeOK, OnlyLine
<1>9. q.old = lines[l] => Priced(new)
  BY <1>6, <1>7 DEF Priced
<1> QED BY <1>1, <1>2, <1>3, <1>4, <1>5, <1>7, <1>8, <1>9

LEMMA WriteTotalIs ==
    ASSUME IInv, NEW r \in Requests, WriteTotal(r)
    PROVE  LET q == request[r]
               n == request'[r]
               o == q.order
           IN  /\ Others(r) /\ UNCHANGED <<lines, tables, torn>>
               /\ q.kind \in OnLine /\ q.at = "total" /\ ~RowLocked(o)
               /\ o \in Orders /\ orders[o] \in Row /\ orders'[o] \in Row
               /\ OnlyOrder(o)
               /\ orders'[o].total = q.row.total
               /\ orders'[o].table = orders[o].table
               /\ \/ Ends(r) /\ q.row.table = None
                  \/ /\ Keeps(r) /\ n.at = "count" /\ q.row.table # None
                     /\ n.row = q.row /\ n.sync = <<q.row.table>>
<1> DEFINE q == request[r]
           o == q.order
<1>1. q \in Request /\ Sound(q) /\ q.at = "total" /\ ~RowLocked(o)
  BY RequestSound DEF WriteTotal
<1>2. q.kind \in OnLine /\ o \in Orders /\ orders[o] \in Row /\ q.row \in Row
  BY <1>1 DEF Sound, Placed, Known, OnLine, OnOrder
<1>3. /\ orders' = [orders EXCEPT ![o].total = q.row.total,
                                  ![o].status = q.row.status]
      /\ UNCHANGED <<lines, tables, torn>>
  BY DEF WriteTotal, history
<1>4. /\ orders'[o] \in Row /\ OnlyOrder(o)
      /\ orders'[o].total = q.row.total
      /\ orders'[o].table = orders[o].table
  BY <1>2, <1>3 DEF IInv, TypeOK, Row, OnlyOrder
<1>5. CASE q.row.table = None
  <2>1. Ends(r) /\ Others(r)
    BY <1>5, DoneIs DEF WriteTotal
  <2> QED BY <1>1, <1>2, <1>3, <1>4, <1>5, <2>1
<1>6. CASE q.row.table # None
  <2>1. request'[r] = [q EXCEPT !.at = "count", !.sync = <<q.row.table>>] /\ Others(r)
    BY <1>6, ToIs DEF WriteTotal
  <2>2. /\ Keeps(r) /\ request'[r].at = "count" /\ request'[r].row = q.row
        /\ request'[r].sync = <<q.row.table>>
    BY <1>1, <2>1 DEF Request, Keeps
  <2> QED BY <1>1, <1>2, <1>3, <1>4, <1>6, <2>1, <2>2
<1> QED BY <1>5, <1>6

LEMMA MarkTableIs ==
    ASSUME IInv, NEW r \in Requests, MarkTable(r)
    PROVE  LET q == request[r]
               n == request'[r]
               t == Head(q.sync)
               s == IF q.active THEN "OCCUPIED" ELSE "AVAILABLE"
           IN  /\ q.at = "mark" /\ t \in Tables /\ Tail(q.sync) \in Seq(Tables)
               /\ q.sync \in Seq(Tables) /\ q.sync # <<>>
               /\ Others(r) /\ UNCHANGED <<orders, lines, torn>>
               /\ \/ /\ Holds(q) /\ UNCHANGED tables
                     /\ n.kind = q.kind /\ n.order = q.order /\ n.line = q.line
                     /\ n.table = q.table /\ n.row = q.row /\ n.sync = Tail(q.sync)
                     /\ n.at = IF n.sync = <<>> THEN "commit" ELSE "count"
                     /\ n.marks = [q.marks EXCEPT ![t] = s]
                  \/ /\ ~Holds(q) /\ Ends(r)
                     /\ tables' = [tables EXCEPT ![t] = s]
<1> DEFINE q == request[r]
           t == Head(q.sync)
           s == IF q.active THEN "OCCUPIED" ELSE "AVAILABLE"
           at == IF Tail(q.sync) = <<>> THEN "commit" ELSE "count"
<1>1. q \in Request /\ Placed(q) /\ q.at = "mark"
  BY RequestSound DEF MarkTable, Sound
<1>2. q.sync \in Seq(Tables) /\ q.sync # <<>>
  BY <1>1 DEF Request, Placed
<1>3. t \in Tables /\ Tail(q.sync) \in Seq(Tables)
  BY <1>2
<1>4. UNCHANGED <<orders, lines, torn>>
  BY DEF MarkTable, history
<1>5. InTransaction(r) <=> Holds(q)
  BY DEF InTransaction, Holds
<1>6. CASE InTransaction(r)
  <2>1. To(r, [[q EXCEPT !.sync = Tail(@)] EXCEPT !.marks[t] = s, !.at = at])
        /\ UNCHANGED tables
    BY <1>6 DEF MarkTable
  <2> HIDE DEF at, s, t
  <2>2. request'[r] = [[q EXCEPT !.sync = Tail(@)] EXCEPT !.marks[t] = s, !.at = at]
        /\ Others(r)
    BY <2>1, ToIs
  <2>3. LET n == request'[r]
        IN  /\ n.kind = q.kind /\ n.order = q.order /\ n.line = q.line
            /\ n.table = q.table /\ n.row = q.row /\ n.sync = Tail(q.sync)
            /\ n.at = at /\ n.marks = [q.marks EXCEPT ![t] = s]
    BY <1>1, <2>2 DEF Request
  <2> QED BY <1>1, <1>2, <1>3, <1>4, <1>5, <1>6, <2>1, <2>2, <2>3 DEF at, s, t
<1>7. CASE ~InTransaction(r)
  <2>1. tables' = [tables EXCEPT ![t] = s] /\ Done(r)
    BY <1>7 DEF MarkTable
  <2> QED BY <1>1, <1>2, <1>3, <1>4, <1>5, <1>7, <2>1, DoneIs
<1> QED BY <1>6, <1>7

LEMMA CommitIs ==
    ASSUME IInv, NEW r \in Requests, Commit(r)
    PROVE  LET q == request[r]
               o == q.order
           IN  /\ Ends(r) /\ Others(r) /\ UNCHANGED torn
               /\ Holds(q) /\ q.at = "commit" /\ o \in Orders
               /\ orders'[o] = q.row /\ q.row \in Row /\ OnlyOrder(o)
               /\ \A t \in Tables : tables'[t] =
                     IF q.marks[t] = None THEN tables[t] ELSE q.marks[t]
               /\ q.kind = "create" =>
                     q.line \in Lines /\ lines'[q.line] = NewLine(o) /\ OnlyLine(q.line)
               /\ q.kind # "create" => lines' = lines
<1> DEFINE q == request[r]
<1>1. /\ q \in Request /\ Sound(q) /\ q.at = "commit" /\ Ends(r) /\ Others(r)
      /\ UNCHANGED torn
  BY RequestSound, DoneIs DEF Commit
<1>2. /\ Holds(q) /\ q.order \in Orders /\ q.row \in Row
      /\ q.kind = "create" => q.line \in Lines
  BY <1>1 DEF Sound, Placed, Known
<1>3. /\ orders' = [orders EXCEPT ![q.order] = q.row]
      /\ tables' = [t \in Tables |->
            IF q.marks[t] = None THEN tables[t] ELSE q.marks[t]]
      /\ lines' = IF q.kind = "create"
                  THEN [lines EXCEPT ![q.line] = NewLine(q.order)]
                  ELSE lines
  BY DEF Commit
<1> QED BY <1>1, <1>2, <1>3 DEF IInv, TypeOK, OnlyOrder, OnlyLine

LEMMA ClearOrdersIs ==
    ASSUME IInv, NEW r \in Requests, ClearOrders(r)
    PROVE  LET q == request[r]
           IN  /\ Keeps(r) /\ Others(r) /\ UNCHANGED <<lines, tables, torn>>
               /\ q.kind = "clear" /\ q.at = "write" /\ request'[r].at = "free"
               /\ \A o \in Orders :
                     \/ /\ orders[o] \in Row /\ orders'[o] \in Row /\ ~RowLocked(o)
                        /\ orders'[o].total = orders[o].total
                        /\ orders'[o].table = orders[o].table
                        /\ ~Active(orders'[o])
                     \/ orders'[o] = orders[o] /\ ~Active(orders[o])
<1> DEFINE q == request[r]
           shown == {o \in Orders : orders[o] # None /\ ~orders[o].hidden}
<1>1. /\ q \in Request /\ q.kind = "clear" /\ q.at = "write"
      /\ UNCHANGED <<lines, tables, torn>>
      /\ \A o \in shown : ~RowLocked(o)
      /\ To(r, [q EXCEPT !.at = "free"])
      /\ orders' = [o \in Orders |->
            IF o \in shown
            THEN [orders[o] EXCEPT !.hidden = TRUE, !.status = "CANCELLED"]
            ELSE orders[o]]
  BY PlacedIs DEF ClearOrders, history
<1>2. request'[r] = [q EXCEPT !.at = "free"] /\ Others(r)
  BY <1>1, ToIs
<1>3. Keeps(r) /\ request'[r].at = "free"
  BY <1>1, <1>2 DEF Request, Keeps
<1>4. ASSUME NEW o \in shown
      PROVE  /\ orders[o] \in Row /\ orders'[o] \in Row
             /\ orders'[o].total = orders[o].total
             /\ orders'[o].table = orders[o].table
             /\ ~Active(orders'[o])
  <2>1. orders[o] \in Row
    BY DEF IInv, TypeOK
  <2>2. orders'[o] = [orders[o] EXCEPT !.hidden = TRUE, !.status = "CANCELLED"]
    BY <1>1
  <2> QED BY <2>1, <2>2 DEF Row, Status, Active
<1>5. \A o \in Orders \ shown : orders'[o] = orders[o] /\ ~Active(orders[o])
  BY <1>1 DEF Active
<1> QED BY <1>1, <1>2, <1>3, <1>4, <1>5

LEMMA FreeIs ==
    ASSUME IInv, NEW r \in Requests, FreeAll(r) \/ FreeTable(r)
    PROVE  LET q == request[r]
           IN  /\ Ends(r) /\ Others(r) /\ UNCHANGED <<orders, lines, torn>>
               /\ q.at = "free" /\ q.kind \in {"clear", "cleanup"}
               /\ q.kind = "clear" => \A t \in Tables : tables'[t] = "AVAILABLE"
               /\ q.kind = "cleanup" =>
                     /\ tables'[q.table] = "AVAILABLE"
                     /\ \A t \in Tables \ {q.table} : tables'[t] = tables[t]
<1>1. Ends(r) /\ Others(r)
  BY DoneIs DEF FreeAll, FreeTable
<1>2. request[r].kind = "cleanup" => request[r].table \in Tables
  BY RequestSound DEF Sound, Placed
<1> QED BY <1>1, <1>2 DEF FreeAll, FreeTable, history, IInv, TypeOK

-----------------------------------------------------------------------------
\* Base, step by step.

LEMMA Unlocked ==
    ASSUME NEW o, ~RowLocked(o), NEW p \in Requests, Holds(request[p])
    PROVE  request[p].order # o
  BY DEF RowLocked, InTransaction, Holds

LEMMA BaseStep ==
    ASSUME IInv, IInv', Base, NEW r \in Requests, Alone(r), SameTables,
           Continues(r) \/ Ends(r), Kept(r)'
    PROVE  Base'
<1>1. \A p \in Requests : Kept(p)'
  BY OthersKept
<1>2. \A p, s \in Requests : p # s => Apart(p, s)'
  BY ApartStep
<1> QED BY <1>1, <1>2 DEF Base

LEMMA EndsKept ==
    ASSUME NEW r \in Requests, Ends(r)
    PROVE  Kept(r)'
  BY IdleIs DEF Ends, Kept, Holds, OnLine

LEMMA UnseenAlone ==
    ASSUME NEW r \in Requests, Unseen(r)
    PROVE  Alone(r) /\ SameTables
  BY DEF Unseen, Others, Alone, SameTables

\* Steps that only r sees.
LEMMA UnseenBase ==
    ASSUME IInv, IInv', Base, NEW r \in Requests,
           FindOrder(r) \/ NewOrder(r) \/ Read(r) \/ WriteStatus(r) \/ WriteTransfer(r)
           \/ WriteDelete(r) \/ Reread(r) \/ CountActive(r) \/ LookForOrders(r)
    PROVE  Base'
<1> DEFINE q == request[r]
           n == request'[r]
<1> SUFFICES Unseen(r) /\ (Continues(r) \/ Ends(r)) /\ Kept(r)'
  BY UnseenAlone, BaseStep
<1>k. Kept(r)
  BY DEF Base
<1>1. ASSUME Unseen(r), Keeps(r), Holds(n) => Holds(q) /\ n.row = q.row
      PROVE  Continues(r) /\ Kept(r)'
  BY <1>k, <1>1 DEF Unseen, Keeps, Continues, Kept, Holds
<1>2. CASE FindOrder(r)
  <2>1. /\ Unseen(r) /\ q.kind = "create" /\ q.at = "find" /\ n.at = "write"
        /\ n.kind = q.kind /\ n.line = q.line /\ n.table = q.table
        /\ \/ n.order = q.order
           \/ /\ n.order \in Orders /\ orders[n.order].table = q.table
    BY <1>2, FindOrderIs
  <2> QED BY <1>k, <2>1 DEF Unseen, Continues, Kept, Holds, OnLine
<1>3. CASE NewOrder(r)
  <2>1. /\ Unseen(r) /\ q.kind = "create" /\ q.at = "write"
        /\ n.kind = q.kind /\ n.line = q.line /\ n.table = q.table
        /\ n.order \in Orders /\ orders[n.order] = None
        /\ \A p \in Requests : request[p].order # n.order
        /\ n.row.total = 1 /\ n.row.table = q.table
    BY <1>3, NewOrderIs
  <2> QED BY <1>k, <2>1 DEF Unseen, Continues, Kept, Holds, OnLine
<1>4. CASE Read(r)
  BY <1>1, <1>4, ReadIs DEF Holds
<1>5. CASE WriteStatus(r) \/ WriteTransfer(r) \/ WriteDelete(r)
  <2>1. /\ Unseen(r) /\ q.at = "write" /\ q.kind \in {"status", "transfer", "delete"}
        /\ ~RowLocked(q.order)
        /\ \/ Ends(r)
           \/ /\ Keeps(r)
              /\ n.row.total = orders[q.order].total
              /\ n.row.table = IF q.kind = "transfer" THEN q.table
                               ELSE orders[q.order].table
    BY <1>5, WroteIs
  <2>2. CASE Ends(r)
    BY <2>1, <2>2, EndsKept
  <2>3. CASE ~Ends(r)
    <3>1. \A p \in Requests : Holds(request[p]) => request[p].order # q.order
      BY <2>1, Unlocked
    <3> QED BY <1>k, <2>1, <2>3, <3>1 DEF Unseen, Keeps, Continues, Kept, Holds, OnLine
  <2> QED BY <2>2, <2>3
<1>6. CASE Reread(r)
  BY <1>1, <1>6, RereadIs DEF Holds
<1>7. CASE CountActive(r)
  <2>1. Unseen(r) /\ Keeps(r) /\ q.at = "count" /\ n.at = "mark" /\ n.row = q.row
    BY <1>7, CountActiveIs
  <2> QED BY <1>1, <2>1 DEF Keeps, Holds
<1>8. CASE LookForOrders(r)
  <2>1. Unseen(r) /\ (Ends(r) \/ (Keeps(r) /\ n.at = "free"))
    BY <1>8, LookForOrdersIs
  <2> QED BY <1>1, <2>1, EndsKept DEF Holds
<1> QED BY <1>2, <1>3, <1>4, <1>5, <1>6, <1>7, <1>8

\* Steps that write one order, some lines of it, or every table.
LEMMA SeenAlone ==
    ASSUME IInv, IInv', Base, NEW r \in Requests,
           AppendLine(r) \/ WriteHide(r) \/ WriteItem(r) \/ WriteQuantity(r)
           \/ WriteTotal(r) \/ MarkTable(r) \/ ClearOrders(r) \/ FreeAll(r)
           \/ FreeTable(r) \/ Dies(r)
    PROVE  Alone(r) /\ SameTables /\ (Continues(r) \/ Ends(r)) /\ Kept(r)'
<1> DEFINE q == request[r]
           n == request'[r]
<1>k. Kept(r)
  BY DEF Base
<1>1. ASSUME NEW o, o \in Orders, ~RowLocked(o), OnlyOrder(o),
             orders[o] \in Row, orders'[o] \in Row, orders'[o].table = orders[o].table
      PROVE  /\ SameTables
             /\ \A p \in Requests : Holds(request[p]) =>
                   orders'[request[p].order] = orders[request[p].order]
  <2>1. SameTables
    BY <1>1, NoneType DEF SameTables, OnlyOrder
  <2> QED BY <1>1, <2>1, Unlocked, PlacedIs DEF OnlyOrder
<1>2. ASSUME Keeps(r), Holds(n) => Holds(q)
      PROVE  Continues(r)
  BY <1>2 DEF Keeps, Continues
<1>3. CASE AppendLine(r)
  <2> DEFINE o == q.order
  <2>1. /\ Ends(r) /\ Others(r) /\ UNCHANGED torn /\ q.kind = "create"
        /\ o \in Orders /\ q.line \in Lines /\ ~RowLocked(o)
        /\ orders[o] \in Row /\ orders'[o] \in Row /\ OnlyOrder(o)
        /\ orders'[o].table = orders[o].table
        /\ lines'[q.line] = NewLine(o) /\ OnlyLine(q.line)
    BY <1>3, AppendLineIs
  <2>2. NewLine(o) \in Line /\ NewLine(o).order = o
    BY <2>1, NewLineType DEF NewLine
  <2>3. Alone(r)
    BY <1>1, <2>1, <2>2 DEF Alone, Others, OnlyLine
  <2> QED BY <1>1, <2>1, <2>3, EndsKept
<1>4. CASE WriteHide(r)
  <2> DEFINE o == q.order
  <2>1. /\ Ends(r) /\ Others(r) /\ UNCHANGED lines /\ torn \subseteq torn'
        /\ o \in Orders /\ ~RowLocked(o)
        /\ orders[o] \in Row /\ orders'[o] \in Row /\ OnlyOrder(o)
        /\ orders'[o].table = orders[o].table
    BY <1>4, WriteHideIs
  <2>2. Alone(r)
    BY <1>1, <2>1 DEF Alone, Others
  <2> QED BY <1>1, <2>1, <2>2, EndsKept
<1>5. CASE WriteItem(r) \/ WriteQuantity(r)
  <2>1. /\ Keeps(r) /\ Others(r) /\ UNCHANGED <<orders, tables, torn>>
        /\ q.kind \in OnLine /\ n.at = "reread" /\ q.line \in Lines
        /\ lines'[q.line] \in Line /\ lines'[q.line].order = lines[q.line].order
        /\ OnlyLine(q.line)
    BY <1>5, WriteItemIs, WriteQuantityIs DEF OnLine
  <2>2. lines[q.line].order = q.order
    BY <1>k, <2>1 DEF Kept
  <2>3. Alone(r) /\ SameTables
    BY <2>1, <2>2 DEF Alone, SameTables, Others, OnlyLine
  <2>4. Kept(r)'
    BY <1>k, <2>1, <2>2 DEF Kept, Keeps, Holds, OnLine
  <2> QED BY <1>2, <2>1, <2>3, <2>4 DEF Holds
<1>6. CASE WriteTotal(r)
  <2> DEFINE o == q.order
  <2>1. /\ Others(r) /\ UNCHANGED <<lines, tables, torn>>
        /\ q.kind \in OnLine /\ ~RowLocked(o)
        /\ o \in Orders /\ orders[o] \in Row /\ orders'[o] \in Row
        /\ OnlyOrder(o) /\ orders'[o].table = orders[o].table
        /\ Ends(r) \/ (Keeps(r) /\ n.at = "count")
    BY <1>6, WriteTotalIs
  <2>2. Alone(r)
    BY <1>1, <2>1 DEF Alone, Others
  <2>3. ~Ends(r) => Kept(r)' /\ ~Holds(n)
    BY <1>k, <2>1 DEF Kept, Keeps, Holds, OnLine
  <2> QED BY <1>1, <1>2, <2>1, <2>2, <2>3, EndsKept
<1>7. CASE MarkTable(r)
  <2>1. /\ Others(r) /\ UNCHANGED <<orders, lines, torn>> /\ q.at = "mark"
        /\ \/ /\ Holds(q)
              /\ n.kind = q.kind /\ n.order = q.order /\ n.line = q.line
              /\ n.table = q.table /\ n.row = q.row
           \/ Ends(r)
    BY <1>7, MarkTableIs
  <2>2. Alone(r) /\ SameTables
    BY <2>1 DEF Alone, SameTables, Others
  <2>3. ~Ends(r) => Kept(r)' /\ Continues(r)
    BY <1>k, <2>1 DEF Kept, Continues, Holds
  <2> QED BY <2>1, <2>2, <2>3, EndsKept
<1>8. CASE ClearOrders(r)
  <2>1. /\ Keeps(r) /\ Others(r) /\ UNCHANGED <<lines, tables, torn>>
        /\ q.kind = "clear" /\ n.at = "free"
        /\ \A o \in Orders :
              \/ /\ orders[o] \in Row /\ orders'[o] \in Row /\ ~RowLocked(o)
                 /\ orders'[o].table = orders[o].table
              \/ orders'[o] = orders[o]
    BY <1>8, ClearOrdersIs
  <2>2. SameTables
    BY <2>1, NoneType DEF SameTables
  <2>3. Alone(r)
    BY <2>1, Unlocked, PlacedIs DEF Alone, Others
  <2>4. Kept(r)'
    BY <2>1 DEF Kept, Keeps, Holds, OnLine
  <2> QED BY <1>2, <2>1, <2>2, <2>3, <2>4 DEF Holds
<1>9. CASE FreeAll(r) \/ FreeTable(r)
  <2>1. Ends(r) /\ Others(r) /\ UNCHANGED <<orders, lines, torn>>
    BY <1>9, FreeIs
  <2> QED BY <2>1, EndsKept DEF Alone, SameTables, Others
<1>10. CASE Dies(r)
  <2>1. Ends(r) /\ Others(r) /\ UNCHANGED <<orders, lines>> /\ torn \subseteq torn'
    BY <1>10, DiesIs
  <2> QED BY <2>1, EndsKept DEF Alone, SameTables, Others
<1> QED BY <1>3, <1>4, <1>5, <1>6, <1>7, <1>8, <1>9, <1>10

LEMMA CommitAlone ==
    ASSUME IInv, Base, NEW r \in Requests, Commit(r)
    PROVE  Alone(r)
<1> DEFINE q == request[r]
           o == q.order
<1>1. /\ Others(r) /\ UNCHANGED torn /\ Holds(q) /\ o \in Orders /\ OnlyOrder(o)
      /\ q.kind = "create" =>
            q.line \in Lines /\ lines'[q.line] = NewLine(o) /\ OnlyLine(q.line)
      /\ q.kind # "create" => lines' = lines
  BY CommitIs
<1>2. NewLine(o) \in Line /\ NewLine(o).order = o
  BY <1>1, NewLineType DEF NewLine
<1>3. \A p \in Requests \ {r} : Holds(request[p]) =>
         request[p].order \in Orders /\ request[p].order # o
  BY <1>1, PlacedIs DEF Base, Apart
<1>4. \A l \in Lines : \/ lines'[l] = lines[l]
                       \/ /\ l = q.line /\ q.kind = "create"
                          /\ lines'[l] \in Line /\ lines'[l].order = o
  BY <1>1, <1>2 DEF OnlyLine
<1> QED BY <1>1, <1>3, <1>4 DEF Alone, OnlyOrder, Others

\* A commit may bring an order to another table: who works on the order then
\* overlaps with r, and who works on the table too.
LEMMA CommitBase ==
    ASSUME IInv, IInv', Base, NEW r \in Requests, Commit(r)
    PROVE  Base'
<1> DEFINE q == request[r]
           o == q.order
<1>1. /\ Ends(r) /\ Others(r) /\ UNCHANGED torn /\ Holds(q) /\ o \in Orders
      /\ orders'[o] = q.row /\ q.row \in Row /\ OnlyOrder(o)
      /\ q.kind = "create" =>
            q.line \in Lines /\ lines'[q.line] = NewLine(o) /\ OnlyLine(q.line)
      /\ q.kind # "create" => lines' = lines
  BY CommitIs
<1>2. Kept(r) /\ \A p \in Requests \ {r} : Apart(p, r) /\ Apart(r, p)
  BY DEF Base
<1>3. \A p \in Requests \ {r} : request'[p] = request[p]
  BY <1>1 DEF Others
<1>4. Alone(r)
  BY CommitAlone
<1>5. \A p \in Requests : Kept(p)'
  BY <1>1, <1>4, OthersKept, EndsKept
<1>6. ASSUME q.kind = "create"
      PROVE  orders[o] = None /\ \A p \in Requests :
                request[p].kind \in OnOrder => request[p].order # o
  BY <1>1, <1>2, <1>6, PlacedIs DEF Kept
<1>7. ASSUME q.kind # "create"
      PROVE  /\ q.kind \in OnOrder /\ Handles(r, o)
             /\ q.kind # "transfer" => orders'[o].table = orders[o].table
             /\ q.kind = "transfer" => orders'[o].table = q.table
             /\ orders[o] # None
  BY <1>1, <1>2, <1>7, PlacedIs DEF Kept, Holds, OnOrder, Handles
<1>8. ASSUME NEW p \in Requests \ {r}, request[p].kind \in OnOrder, request[p].order = o
      PROVE  /\ o \in torn
             /\ \A t \in Tables : Seats(p, t) \/ Seats(p, t)' => t \in torn
  <2>1. q.kind \in OnOrder /\ Handles(r, o) /\ Handles(p, o)
        /\ (orders'[o].table = q.table \/ orders'[o].table = orders[o].table)
    BY <1>1, <1>6, <1>7, <1>8 DEF Handles
  <2>a. Apart(p, r) /\ Apart(r, p)
    BY <1>2
  <2>2. /\ o \in torn
        /\ \A t \in Tables : Seats(p, t) \/ Seats(r, t) => t \in torn
    BY <1>8, <2>1, <2>a DEF Apart
  <2>3. \A t \in Tables : Seats(p, t)' =>
           request[p].table = t \/ orders'[o].table = t
    BY <1>3, <1>8 DEF Seats, OnOrder
  <2> QED BY <1>8, <2>1, <2>2, <2>3 DEF Seats
<1>9. ASSUME NEW p \in Requests \ {r}, NEW t \in Tables, Seats(p, t)'
      PROVE  Seats(p, t) \/ t \in torn
  <2>1. CASE request[p].kind \in OnOrder /\ request[p].order = o
    BY <1>8, <1>9, <2>1
  <2>2. CASE ~(request[p].kind \in OnOrder /\ request[p].order = o)
    BY <1>1, <1>3, <1>9, <2>2, PlacedIs DEF Seats, OnlyOrder
  <2> QED BY <2>1, <2>2
<1>10. ASSUME NEW p \in Requests \ {r}, NEW x \in Orders, x # o, Handles(p, x)'
       PROVE  Handles(p, x)
  BY <1>1, <1>3, <1>10 DEF Handles, OnlyOrder
<1>11. ASSUME NEW p \in Requests \ {r}, NEW s \in Requests \ {r}, p # s
       PROVE  Apart(p, s)'
  <2>1. Apart(p, s) /\ request'[p] = request[p] /\ request'[s] = request[s]
    BY <1>3, <1>11 DEF Base
  <2>2. request[p].kind \in OnOrder => request[p].order \in Orders
    BY PlacedIs
  <2>3. ASSUME request[p].kind \in OnOrder, Handles(s, request[p].order)'
        PROVE  /\ request[p].order \in torn
               /\ \A t \in Tables : Seats(p, t)' => t \in torn
    <3>1. CASE request[p].order = o
      BY <1>8, <2>3, <3>1
    <3>2. CASE request[p].order # o
      BY <1>9, <1>10, <2>1, <2>2, <2>3, <3>2 DEF Apart
    <3> QED BY <3>1, <3>2
  <2>4. \A t \in Tables : Seats(p, t)' /\ Seats(s, t)' => t \in torn
    BY <1>9, <2>1 DEF Apart
  <2> QED BY <1>1, <2>1, <2>3, <2>4 DEF Apart
<1>12. ASSUME NEW p \in Requests \ {r}
       PROVE  Apart(p, r)' /\ Apart(r, p)'
  <2>1. /\ request'[r].kind = "none" /\ request'[r].table = None /\ ~Holds(request'[r])
        /\ request'[r].line = None
    BY <1>1, IdleIs DEF Ends, Holds
  <2>2. (\A x : ~Handles(r, x)') /\ \A t \in Tables : ~Seats(r, t)'
    BY <2>1, NoneType DEF Handles, Seats, OnOrder
  <2>3. request'[p].kind = "create" => request'[p].line # None
    BY <1>3, PlacedIs, NoneType
  <2> QED BY <2>1, <2>2, <2>3 DEF Apart, OnOrder
<1> QED BY <1>5, <1>11, <1>12 DEF Base

LEMMA NextBase == IInv /\ IInv' /\ Base /\ [Next]_vars => Base'
<1> SUFFICES ASSUME IInv, IInv', Base, [Next]_vars PROVE Base'
  OBVIOUS
<1>1. ASSUME NEW r \in Requests, Begin(r) PROVE Base'
  BY <1>1, BeginBase
<1>2. ASSUME NEW r \in Requests, Proceed(r) \/ Dies(r) PROVE Base'
  BY <1>2, UnseenBase, SeenAlone, BaseStep, CommitBase DEF Proceed
<1>3. CASE (\E t \in Tables, s \in TableStatus : SetTable(t, s)) \/ UNCHANGED vars
  <2>1. UNCHANGED <<orders, lines, request>> /\ torn \subseteq torn'
    BY <1>3 DEF SetTable, vars, rows, history
  <2> QED BY <2>1 DEF Base, Kept, Apart, Handles, Seats, Holds
<1> QED BY <1>1, <1>2, <1>3 DEF Next

LEMMA InitBase == Init => Base
  BY IdleIs, NoneType DEF Init, Base, Kept, Apart, Handles, Seats, Holds, OnLine, OnOrder

-----------------------------------------------------------------------------
\* Totals

\* What r has read of an order that nothing has torn is what is there.
Exact(r) ==
    LET q == request[r]
    IN  q.order \notin torn =>
           /\ q.at = "write" /\ q.kind \in OnLine => q.old = lines[q.line]
           /\ q.at = "total" => q.row.total = Due(q.order)

\* r will write the total of o.
Recalculates(r, o) == request[r].order = o /\ request[r].at \in {"reread", "total"}

\* The total is that of the lines, or will be.
Totalled(o) ==
    /\ \A l \in LinesOf(o) : Priced(lines[l])
    /\ orders[o].total = Due(o) \/ \E r \in Requests : Recalculates(r, o)

TotalInv ==
    /\ \A r \in Requests : Exact(r)
    /\ \A o \in Orders \ torn : orders[o] # None => Totalled(o)

\* No line comes to o, leaves it or changes.
SameLines(o) ==
    \A l \in Lines : \/ lines'[l] = lines[l]
                     \/ l \notin LinesOf(o) /\ l \notin LinesOf(o)'

Units(o) == {u \in Lines \X (1..MaxQuantity) :
                u[1] \in Charged(o) /\ u[2] <= lines[u[1]].price}

LEMMA UnitsIs == ASSUME NEW o PROVE Due(o) = Cardinality(Units(o)) /\ IsFiniteSet(Units(o))
<1>1. IsFiniteSet(1..MaxQuantity)
  BY BoundsType, FS_Interval
<1>2. IsFiniteSet(Lines \X (1..MaxQuantity))
  BY <1>1, LinesFinite, FS_Product
<1>3. IsFiniteSet(Units(o))
  BY <1>2, FS_Subset DEF Units
<1> QED BY <1>3 DEF Due, Sum, Units

LEMMA DueSame ==
    ASSUME NEW o, SameLines(o)
    PROVE  /\ Due(o)' = Due(o)
           /\ \A l \in LinesOf(o)' : l \in LinesOf(o) /\ lines'[l] = lines[l]
<1>1. \A l \in Lines : \/ lines'[l] = lines[l]
                       \/ l \notin LinesOf(o) /\ l \notin LinesOf(o)'
  BY DEF SameLines
<1>2. /\ \A l \in Lines : l \in LinesOf(o)' <=> l \in LinesOf(o)
      /\ \A l \in LinesOf(o)' : l \in LinesOf(o) /\ lines'[l] = lines[l]
  BY <1>1 DEF LinesOf
<1>3. \A l \in Lines : /\ l \in Charged(o)' <=> l \in Charged(o)
                       /\ l \in Charged(o) => lines'[l] = lines[l]
  BY <1>2 DEF Charged, LinesOf
<1>4. Units(o)' = Units(o)
  BY <1>3 DEF Units
<1>5. Due(o)' = Cardinality(Units(o)')
  BY DEF Due, Sum, Units
<1> QED BY <1>2, <1>4, <1>5, UnitsIs

\* A new line adds its one unit.
LEMMA DueMore ==
    ASSUME NEW o \in Orders, NEW l \in Lines, lines[l] = None,
           lines'[l] = NewLine(o), OnlyLine(l)
    PROVE  /\ Due(o)' = Due(o) + 1 /\ Due(o) \in Nat
           /\ \A k \in LinesOf(o)' : \/ k \in LinesOf(o) /\ lines'[k] = lines[k]
                                     \/ k = l /\ Priced(lines'[k])
<1>1. /\ NewLine(o) # None /\ NewLine(o).order = o /\ ~NewLine(o).cancelled
      /\ NewLine(o).price = 1 /\ Priced(NewLine(o))
  BY NewLineType, NoneType DEF NewLine, Priced
<1>2. \A k \in Lines : /\ k \in LinesOf(o)' <=> k \in LinesOf(o) \/ k = l
                       /\ k \in Charged(o)' <=> k \in Charged(o) \/ k = l
                       /\ k \in LinesOf(o) => k # l
                       /\ k # l => lines'[k] = lines[k]
  BY <1>1 DEF LinesOf, Charged, OnlyLine
<1>3. Units(o)' = Units(o) \cup {<<l, 1>>}
  <2>1. \A k \in Lines, i \in 1..MaxQuantity :
           k \in Charged(o)' /\ i <= lines'[k].price <=>
              (k \in Charged(o) /\ i <= lines[k].price) \/ (k = l /\ i = 1)
    BY <1>1, <1>2 DEF Charged
  <2>2. 1 \in 1..MaxQuantity
    BY BoundsType
  <2> QED BY <2>1, <2>2 DEF Units
<1>4. <<l, 1>> \notin Units(o)
  BY <1>2 DEF Units, Charged
<1>5. Cardinality(Units(o) \cup {<<l, 1>>}) = Cardinality(Units(o)) + 1
  BY <1>4, UnitsIs, FS_AddElement
<1>6. Due(o)' = Cardinality(Units(o)')
  BY DEF Due, Sum, Units
<1>7. LinesOf(o)' \subseteq Lines
  BY DEF LinesOf
<1> QED BY <1>1, <1>2, <1>3, <1>5, <1>6, <1>7, UnitsIs, FS_CardinalityType

LEMMA DueNone ==
    ASSUME NEW o, LinesOf(o) = {}
    PROVE  Due(o) = 0
<1>1. Units(o) = {}
  BY DEF Units, Charged
<1> QED BY <1>1, UnitsIs, FS_EmptySet

\* An order that nothing has torn is nobody else's while r works on it.
LEMMA Exclusive ==
    ASSUME IInv, Base, NEW r \in Requests, NEW p \in Requests \ {r},
           request[p].kind \in OnOrder, request[p].order \notin torn
    PROVE  ~Handles(r, request[p].order)
  BY DEF Base, Apart

LEMMA LinesElsewhere ==
    ASSUME IInv, Base, NEW r \in Requests, Alone(r), NEW o \in Orders,
           \/ o # request[r].order
           \/ request[r].kind \notin OnLine \cup {"create"}
    PROVE  SameLines(o)
<1> SUFFICES ASSUME NEW l \in Lines, lines'[l] # lines[l]
             PROVE  l \notin LinesOf(o) /\ l \notin LinesOf(o)'
  BY DEF SameLines
<1>1. /\ l = request[r].line /\ request[r].kind \in OnLine \cup {"create"}
      /\ lines'[l].order = request[r].order
  BY DEF Alone
<1>2. lines[l] = None \/ lines[l].order = request[r].order
  BY <1>1 DEF Base, Kept
<1> QED BY <1>1, <1>2 DEF LinesOf

LEMMA OthersExact ==
    ASSUME IInv, Base, TotalInv, NEW r \in Requests, Alone(r),
           NEW p \in Requests \ {r}
    PROVE  Exact(p)'
<1> DEFINE q == request[p]
<1>0. PICK o : o = q.order
  OBVIOUS
<1>1. request'[p] = q /\ Exact(p) /\ torn \subseteq torn' /\ Kept(p) /\ Kept(r)
  BY DEF Alone, TotalInv, Base
<1> SUFFICES ASSUME o \notin torn'
             PROVE  /\ q.at = "write" /\ q.kind \in OnLine => q.old = lines'[q.line]
                    /\ q.at = "total" => q.row.total = Due(o)'
  <2>1. request'[p].order = o
    BY <1>0, <1>1
  <2>2. Due(request[p].order)' = Due(o)'
    BY <2>1 DEF Due, Charged, LinesOf, Sum
  <2> QED BY <1>0, <1>1, <2>1, <2>2 DEF Exact
<1>2. o \notin torn
  BY <1>1
<1>3. q.kind \in OnOrder => o \in Orders /\ ~Handles(r, o)
  BY <1>0, <1>2, Exclusive, PlacedIs
<1>4. q.kind \in OnOrder =>
         \/ o # request[r].order
         \/ request[r].kind \notin OnLine \cup {"create"}
  BY <1>3 DEF Handles, OnOrder, OnLine
<1>5. q.kind \in OnOrder => SameLines(o)
  BY <1>3, <1>4, LinesElsewhere
<1>6. q.kind \in OnOrder => Due(o)' = Due(o)
  BY <1>5, DueSame
<1>7. q.kind \in OnLine => q.kind \in OnOrder /\ q.line \in Lines /\ q.line \in LinesOf(o)
  BY <1>0, <1>1, PlacedIs DEF OnLine, OnOrder, Kept, LinesOf
<1>8. q.kind \in OnLine => lines'[q.line] = lines[q.line]
  BY <1>5, <1>7 DEF SameLines
<1>9. q.at = "total" => q.kind \in OnOrder
  BY RequestSound DEF Sound, Placed, OnLine, OnOrder
<1> QED BY <1>0, <1>1, <1>2, <1>6, <1>8, <1>9 DEF Exact

\* An order whose total and lines stay is as right as before, if who has its
\* total to write still has.
LEMMA StaysTotalled ==
    ASSUME IInv, TotalInv, NEW r \in Requests, Alone(r), NEW o \in Orders \ torn',
           orders[o] # None, orders'[o].total = orders[o].total, SameLines(o),
           Recalculates(r, o) => Recalculates(r, o)'
    PROVE  Totalled(o)'
<1>1. Totalled(o) /\ \A p \in Requests \ {r} : request'[p] = request[p]
  BY DEF Alone, TotalInv
<1>2. \A p \in Requests : Recalculates(p, o) => Recalculates(p, o)'
  BY <1>1 DEF Recalculates
<1>3. /\ Due(o)' = Due(o)
      /\ \A l \in LinesOf(o)' : l \in LinesOf(o) /\ lines'[l] = lines[l]
  BY DueSame
<1>4. \A l \in LinesOf(o)' : Priced(lines'[l])
  BY <1>1, <1>3 DEF Totalled
<1> QED BY <1>1, <1>2, <1>3, <1>4 DEF Totalled

\* A step that changes no total and no line.
LEMMA StillTotals ==
    ASSUME IInv, Base, TotalInv, NEW r \in Requests, Alone(r),
           \A o \in Orders : orders'[o] # None =>
               orders[o] # None /\ orders'[o].total = orders[o].total,
           lines' = lines,
           \A o \in Orders \ torn' : Recalculates(r, o) => Recalculates(r, o)',
           Exact(r)'
    PROVE  TotalInv'
<1>1. \A p \in Requests : Exact(p)'
  BY OthersExact
<1>2. \A o \in Orders : SameLines(o)
  BY DEF SameLines
<1>3. \A o \in Orders \ torn' : orders'[o] # None => Totalled(o)'
  BY <1>2, StaysTotalled
<1> QED BY <1>1, <1>3 DEF TotalInv

\* A step of r that changes the total or the lines of its order.
LEMMA OwnTotal ==
    ASSUME IInv, Base, TotalInv, NEW r \in Requests, Alone(r),
           NEW own, own = request[r].order, OnlyOrder(own),
           own \in Orders \ torn' => Totalled(own)',
           Exact(r)'
    PROVE  TotalInv'
<1>1. \A p \in Requests : Exact(p)'
  BY OthersExact
<1>2. ASSUME NEW o \in Orders \ torn', orders'[o] # None
      PROVE  Totalled(o)'
  <2>1. CASE o = own
    BY <2>1
  <2>2. CASE o # own
    <3>1. SameLines(o)
      BY <2>2, LinesElsewhere
    <3>2. orders'[o] = orders[o] /\ ~Recalculates(r, o)
      BY <2>2 DEF OnlyOrder, Recalculates
    <3> QED BY <1>2, <3>1, <3>2, StaysTotalled
  <2> QED BY <2>1, <2>2
<1> QED BY <1>1, <1>2 DEF TotalInv

LEMMA NothingExact ==
    ASSUME NEW r \in Requests,
           /\ request'[r].at = "write" => request'[r].kind \notin OnLine
           /\ request'[r].at # "total"
    PROVE  Exact(r)'
  BY DEF Exact

LEMMA EndsExact == ASSUME NEW r \in Requests, Ends(r) PROVE Exact(r)'
  BY IdleIs, NothingExact DEF Ends

LEMMA BeginTotals ==
    ASSUME IInv, IInv', Base, TotalInv, NEW r \in Requests, Begin(r)
    PROVE  TotalInv'
<1>1. /\ Start(r, request'[r])
      /\ request'[r].at \in {"find", "read", "write"}
      /\ request'[r].at = "write" => request'[r].kind \in {"create", "delete", "clear"}
  BY BeginIs
<1>2. /\ UNCHANGED <<orders, lines, tables>> /\ torn \subseteq torn'
      /\ \A p \in Requests \ {r} : request'[p] = request[p]
  BY <1>1, StartTears
<1>3. Alone(r)
  BY <1>2 DEF Alone
<1>4. request[r].at = "idle"
  BY <1>1 DEF Start
<1>5. \A o : ~Recalculates(r, o)
  BY <1>4 DEF Recalculates
<1>6. Exact(r)'
  BY <1>1, NothingExact DEF OnLine
<1> QED BY <1>2, <1>3, <1>5, <1>6, StillTotals

LEMMA UnseenTotals ==
    ASSUME IInv, IInv', Base, TotalInv, NEW r \in Requests,
           FindOrder(r) \/ NewOrder(r) \/ Read(r) \/ WriteStatus(r) \/ WriteTransfer(r)
           \/ WriteDelete(r) \/ Reread(r) \/ CountActive(r) \/ LookForOrders(r)
    PROVE  TotalInv'
<1> DEFINE q == request[r]
           n == request'[r]
<1>1. ASSUME Unseen(r), \A o : Recalculates(r, o) => Recalculates(r, o)', Exact(r)'
      PROVE  TotalInv'
  BY <1>1, UnseenAlone, StillTotals DEF Unseen
<1>2. ASSUME Unseen(r), q.at \notin {"reread", "total"}, Exact(r)'
      PROVE  TotalInv'
  BY <1>1, <1>2 DEF Recalculates
<1>3. CASE FindOrder(r)
  <2>1. Unseen(r) /\ q.at = "find" /\ n.at = "write" /\ n.kind = "create"
    BY <1>3, FindOrderIs
  <2> QED BY <1>2, <2>1, NothingExact DEF OnLine
<1>4. CASE NewOrder(r)
  <2>1. Unseen(r) /\ q.at = "write" /\ n.at \in {"commit", "count"}
    BY <1>4, NewOrderIs
  <2> QED BY <1>2, <2>1, NothingExact
<1>5. CASE Read(r)
  <2>1. /\ Unseen(r) /\ Keeps(r) /\ q.at = "read" /\ n.at = "write"
        /\ q.kind \in OnLine => n.old = lines[q.line]
    BY <1>5, ReadIs
  <2>2. Exact(r)'
    BY <2>1 DEF Exact, Keeps, Unseen
  <2> QED BY <1>2, <2>1, <2>2
<1>6. CASE WriteStatus(r) \/ WriteTransfer(r) \/ WriteDelete(r)
  <2>1. /\ Unseen(r) /\ q.at = "write"
        /\ Ends(r) \/ n.at \in {"commit", "count"}
    BY <1>6, WroteIs
  <2> QED BY <1>2, <2>1, NothingExact, EndsExact
<1>7. CASE Reread(r)
  <2>1. /\ Unseen(r) /\ Keeps(r) /\ q.at = "reread" /\ n.at = "total"
        /\ n.row.total = Due(q.order)
    BY <1>7, RereadIs
  <2>2. PICK o : o = q.order
    OBVIOUS
  <2>3. Due(o)' = Due(o)
    BY <2>1, DueSame DEF Unseen, SameLines
  <2>4. n.order = o /\ n.row.total = Due(o)
    BY <2>1, <2>2 DEF Keeps
  <2>5. Exact(r)'
    BY <2>1, <2>3, <2>4 DEF Exact
  <2>6. \A p : Recalculates(r, p) => Recalculates(r, p)'
    BY <2>1 DEF Recalculates, Keeps
  <2> QED BY <1>1, <2>1, <2>5, <2>6
<1>8. CASE CountActive(r)
  <2>1. Unseen(r) /\ q.at = "count" /\ n.at = "mark"
    BY <1>8, CountActiveIs
  <2> QED BY <1>2, <2>1, NothingExact
<1>9. CASE LookForOrders(r)
  <2>1. Unseen(r) /\ q.at = "find" /\ (Ends(r) \/ n.at = "free")
    BY <1>9, LookForOrdersIs
  <2> QED BY <1>2, <2>1, NothingExact, EndsExact
<1> QED BY <1>3, <1>4, <1>5, <1>6, <1>7, <1>8, <1>9

\* Steps that write neither a total nor a line.
LEMMA TablesTotals ==
    ASSUME IInv, IInv', Base, TotalInv, NEW r \in Requests, Alone(r),
           WriteHide(r) \/ MarkTable(r) \/ ClearOrders(r) \/ FreeAll(r)
           \/ FreeTable(r) \/ Dies(r)
    PROVE  TotalInv'
<1> DEFINE q == request[r]
           n == request'[r]
<1>1. ASSUME \A o \in Orders : orders'[o] # None =>
                 orders[o] # None /\ orders'[o].total = orders[o].total,
             lines' = lines, Exact(r)',
             \A o \in Orders \ torn' : ~Recalculates(r, o)
      PROVE  TotalInv'
  BY <1>1, StillTotals
<1>2. CASE WriteHide(r)
  <2>1. /\ Ends(r) /\ UNCHANGED lines /\ q.at = "write"
        /\ q.order \in Orders /\ orders[q.order] \in Row /\ OnlyOrder(q.order)
        /\ orders'[q.order].total = orders[q.order].total
    BY <1>2, WriteHideIs
  <2> QED BY <1>1, <2>1, EndsExact, NoneType DEF OnlyOrder, Recalculates
<1>3. CASE MarkTable(r)
  <2>1. /\ UNCHANGED <<orders, lines>> /\ q.at = "mark"
        /\ Ends(r) \/ n.at \in {"commit", "count"}
    BY <1>3, MarkTableIs
  <2> QED BY <1>1, <2>1, EndsExact, NothingExact DEF Recalculates
<1>4. CASE ClearOrders(r)
  <2>1. /\ UNCHANGED lines /\ q.at = "write" /\ n.at = "free"
        /\ \A o \in Orders :
              \/ /\ orders[o] \in Row
                 /\ orders'[o].total = orders[o].total
              \/ orders'[o] = orders[o]
    BY <1>4, ClearOrdersIs
  <2> QED BY <1>1, <2>1, NothingExact, NoneType DEF Recalculates
<1>5. CASE FreeAll(r) \/ FreeTable(r)
  <2>1. Ends(r) /\ UNCHANGED <<orders, lines>> /\ q.at = "free"
    BY <1>5, FreeIs
  <2> QED BY <1>1, <2>1, EndsExact DEF Recalculates
<1>6. CASE Dies(r)
  <2>1. /\ Ends(r) /\ UNCHANGED <<orders, lines>>
        /\ q.at \in {"reread", "total"} => \A x : Has(r, x) => x \in torn'
    BY <1>6, DiesIs
  <2>2. q.at \in {"reread", "total"} => q.kind \in OnOrder /\ q.order \in Orders
    BY RequestSound DEF Sound, Placed, OnLine, OnOrder
  <2>3. q.at \in {"reread", "total"} => q.order \in torn'
    BY <2>1, <2>2 DEF Has, Handles
  <2> QED BY <1>1, <2>1, <2>3, EndsExact DEF Recalculates
<1> QED BY <1>2, <1>3, <1>4, <1>5, <1>6

LEMMA LineTotals ==
    ASSUME IInv, IInv', Base, TotalInv, NEW r \in Requests, Alone(r),
           WriteItem(r) \/ WriteQuantity(r)
    PROVE  TotalInv'
<1> DEFINE q == request[r]
           l == q.line
<1>1. PICK o : o = q.order
  OBVIOUS
<1>2. /\ Keeps(r) /\ UNCHANGED <<orders, torn>> /\ q.kind \in OnLine
      /\ q.at = "write" /\ request'[r].at = "reread" /\ l \in Lines
      /\ lines[l] \in Line /\ lines'[l].order = lines[l].order /\ OnlyLine(l)
      /\ q.old = lines[l] /\ Priced(lines[l]) => Priced(lines'[l])
  BY WriteItemIs, WriteQuantityIs DEF OnLine
<1>3. lines[l].order = o /\ lines[l] # None
  BY <1>1, <1>2, NoneType DEF Base, Kept
<1>4. ASSUME o \in Orders \ torn'
      PROVE  Totalled(o)'
  <2>1. orders[o] # None
    BY <1>1, <1>2, PlacedIs DEF OnLine, OnOrder
  <2>2. q.old = lines[l] /\ Totalled(o)
    BY <1>1, <1>2, <1>4, <2>1 DEF TotalInv, Exact
  <2>3. l \in LinesOf(o)
    BY <1>2, <1>3 DEF LinesOf
  <2>4. Priced(lines'[l])
    BY <1>2, <2>2, <2>3 DEF Totalled
  <2>5. \A k \in LinesOf(o)' : k = l \/ (k \in LinesOf(o) /\ lines'[k] = lines[k])
    BY <1>2 DEF LinesOf, OnlyLine
  <2>6. \A k \in LinesOf(o)' : Priced(lines'[k])
    BY <2>2, <2>4, <2>5 DEF Totalled
  <2>7. Recalculates(r, o)'
    BY <1>1, <1>2 DEF Recalculates, Keeps
  <2> QED BY <2>6, <2>7 DEF Totalled
<1>5. Exact(r)' /\ OnlyOrder(o)
  BY <1>2, NothingExact DEF OnlyOrder
<1> QED BY <1>1, <1>4, <1>5, OwnTotal

LEMMA WriteTotalTotals ==
    ASSUME IInv, IInv', Base, TotalInv, NEW r \in Requests, Alone(r), WriteTotal(r)
    PROVE  TotalInv'
<1> DEFINE q == request[r]
<1>1. PICK o : o = q.order
  OBVIOUS
<1>2. /\ UNCHANGED <<lines, torn>> /\ q.at = "total"
      /\ o \in Orders /\ orders[o] \in Row /\ OnlyOrder(o)
      /\ orders'[o].total = q.row.total
      /\ Ends(r) \/ request'[r].at = "count"
  BY <1>1, WriteTotalIs
<1>3. ASSUME o \in Orders \ torn'
      PROVE  Totalled(o)'
  <2>1. q.row.total = Due(o) /\ Totalled(o)
    BY <1>1, <1>2, <1>3, NoneType DEF TotalInv, Exact
  <2>2. /\ Due(o)' = Due(o)
        /\ \A l \in LinesOf(o)' : l \in LinesOf(o) /\ lines'[l] = lines[l]
    BY <1>2, DueSame DEF SameLines
  <2>3. \A l \in LinesOf(o)' : Priced(lines'[l])
    BY <2>1, <2>2 DEF Totalled
  <2> QED BY <1>2, <2>1, <2>2, <2>3 DEF Totalled
<1>4. Exact(r)'
  BY <1>2, EndsExact, NothingExact
<1> QED BY <1>1, <1>2, <1>3, <1>4, OwnTotal

\* A line of an append adds to both what is due and the total.
LEMMA AppendTotals ==
    ASSUME IInv, IInv', Base, TotalInv, NEW r \in Requests, Alone(r), AppendLine(r)
    PROVE  TotalInv'
<1> DEFINE q == request[r]
           l == q.line
<1>1. PICK o : o = q.order
  OBVIOUS
<1>2. /\ Ends(r) /\ UNCHANGED torn /\ q.kind = "create" /\ q.at = "write"
      /\ o \in Orders /\ l \in Lines /\ orders[o] \in Row /\ OnlyOrder(o)
      /\ orders'[o].total = orders[o].total + 1
      /\ lines'[l] = NewLine(o) /\ OnlyLine(l)
  BY <1>1, AppendLineIs
<1>3. lines[l] = None
  BY <1>2 DEF Base, Kept
<1>4. /\ Due(o)' = Due(o) + 1
      /\ \A k \in LinesOf(o)' : \/ k \in LinesOf(o) /\ lines'[k] = lines[k]
                                \/ k = l /\ Priced(lines'[k])
  BY <1>2, <1>3, DueMore
<1>5. ASSUME o \in Orders \ torn'
      PROVE  Totalled(o)'
  <2>1. Totalled(o)
    BY <1>2, <1>5, NoneType DEF TotalInv
  <2>2. \A k \in LinesOf(o)' : Priced(lines'[k])
    BY <1>4, <2>1 DEF Totalled
  <2>3. CASE orders[o].total = Due(o)
    BY <1>2, <1>4, <2>2, <2>3 DEF Totalled
  <2>4. CASE \E p \in Requests : Recalculates(p, o)
    <3>1. PICK p \in Requests : Recalculates(p, o)
      BY <2>4
    <3>2. p # r
      BY <1>2, <3>1 DEF Recalculates
    <3>3. Recalculates(p, o)'
      BY <3>1, <3>2 DEF Alone, Recalculates
    <3> QED BY <2>2, <3>3 DEF Totalled
  <2> QED BY <2>1, <2>3, <2>4 DEF Totalled
<1>6. Exact(r)'
  BY <1>2, EndsExact
<1> QED BY <1>1, <1>2, <1>5, <1>6, OwnTotal

LEMMA CommitTotals ==
    ASSUME IInv, IInv', Base, TotalInv, NEW r \in Requests, Alone(r), Commit(r)
    PROVE  TotalInv'
<1> DEFINE q == request[r]
           l == q.line
<1>1. PICK o : o = q.order
  OBVIOUS
<1>2. /\ Ends(r) /\ UNCHANGED torn /\ Holds(q) /\ q.at = "commit" /\ o \in Orders
      /\ orders'[o] = q.row /\ OnlyOrder(o)
      /\ q.kind = "create" =>
            l \in Lines /\ lines'[l] = NewLine(o) /\ OnlyLine(l)
      /\ q.kind # "create" => lines' = lines
  BY <1>1, CommitIs
<1>3. Kept(r)
  BY DEF Base
<1>4. CASE q.kind = "create"
  <2>1. lines[l] = None /\ orders[o] = None /\ q.row.total = 1
    BY <1>1, <1>2, <1>3, <1>4 DEF Kept
  <2>2. LinesOf(o) = {}
    BY <2>1, NoneType DEF LinesOf, IInv, RowInv, LineInv
  <2>3. /\ Due(o)' = 1
        /\ \A k \in LinesOf(o)' : Priced(lines'[k])
    BY <1>2, <1>4, <2>1, <2>2, DueMore, DueNone
  <2>4. Totalled(o)'
    BY <1>2, <2>1, <2>3 DEF Totalled
  <2> QED BY <1>1, <1>2, <2>4, EndsExact, OwnTotal
<1>5. CASE q.kind # "create"
  <2>1. q.row.total = orders[o].total
    BY <1>1, <1>2, <1>3, <1>5 DEF Kept
  <2>2. orders[o] # None
    BY <1>1, <1>2, <1>5, PlacedIs DEF Holds, OnOrder
  <2>3. \A p \in Orders : orders'[p] # None =>
           orders[p] # None /\ orders'[p].total = orders[p].total
    BY <1>2, <2>1, <2>2 DEF OnlyOrder
  <2>4. \A p : ~Recalculates(r, p)
    BY <1>2 DEF Recalculates
  <2> QED BY <1>2, <1>5, <2>3, <2>4, EndsExact, StillTotals
<1> QED BY <1>4, <1>5

LEMMA NextTotals == IInv /\ IInv' /\ Base /\ TotalInv /\ [Next]_vars => TotalInv'
<1> SUFFICES ASSUME IInv, IInv', Base, TotalInv, [Next]_vars PROVE TotalInv'
  OBVIOUS
<1>1. ASSUME NEW r \in Requests, Begin(r) PROVE TotalInv'
  BY <1>1, BeginTotals
<1>2. ASSUME NEW r \in Requests, Proceed(r) \/ Dies(r) PROVE TotalInv'
  <2>1. CASE WriteHide(r) \/ MarkTable(r) \/ ClearOrders(r) \/ FreeAll(r)
             \/ FreeTable(r) \/ Dies(r)
    BY <2>1, SeenAlone, TablesTotals
  <2>2. CASE WriteItem(r) \/ WriteQuantity(r)
    BY <2>2, SeenAlone, LineTotals
  <2>3. CASE WriteTotal(r)
    BY <2>3, SeenAlone, WriteTotalTotals
  <2>4. CASE AppendLine(r)
    BY <2>4, SeenAlone, AppendTotals
  <2>5. CASE Commit(r)
    BY <2>5, CommitAlone, CommitTotals
  <2> QED BY <1>2, <2>1, <2>2, <2>3, <2>4, <2>5, UnseenTotals DEF Proceed
<1>3. CASE (\E t \in Tables, s \in TableStatus : SetTable(t, s)) \/ UNCHANGED vars
  <2>1. UNCHANGED <<orders, lines, request>> /\ torn \subseteq torn'
    BY <1>3 DEF SetTable, vars, rows, history
  <2>2. \A o : SameLines(o)
    BY <2>1 DEF SameLines
  <2>3. \A r \in Requests : Exact(r)'
    <3> SUFFICES ASSUME NEW r \in Requests PROVE Exact(r)'
      OBVIOUS
    <3>1. PICK o : o = request[r].order
      OBVIOUS
    <3>2. Due(o)' = Due(o)
      BY <2>2, DueSame
    <3>3. Exact(r)
      BY DEF TotalInv
    <3> QED BY <2>1, <3>1, <3>2, <3>3 DEF Exact
  <2>4. ASSUME NEW o \in Orders \ torn', orders'[o] # None
        PROVE  Totalled(o)'
    <3>1. Totalled(o)
      BY <2>1, <2>4 DEF TotalInv
    <3>2. /\ Due(o)' = Due(o)
          /\ \A l \in LinesOf(o)' : l \in LinesOf(o) /\ lines'[l] = lines[l]
      BY <2>2, DueSame
    <3>3. \A l \in LinesOf(o)' : Priced(lines'[l])
      BY <3>1, <3>2 DEF Totalled
    <3>4. (\E r \in Requests : Recalculates(r, o))
             => \E r \in Requests : Recalculates(r, o)'
      BY <2>1 DEF Recalculates
    <3> QED BY <2>1, <3>1, <3>2, <3>3, <3>4 DEF Totalled
  <2> QED BY <2>3, <2>4 DEF TotalInv
<1> QED BY <1>1, <1>2, <1>3 DEF Next

LEMMA InitTotals == Init => TotalInv
  BY IdleIs DEF Init, TotalInv, Exact

LEMMA TotalInvariance == Spec => [](IInv /\ Base /\ TotalInv)
<1> DEFINE Inv == IInv /\ Base /\ TotalInv
<1>1. Init => Inv
  BY InitIInv, InitBase, InitTotals
<1>2. Inv /\ [Next]_vars => Inv'
  BY NextIInv, NextBase, NextTotals
<1> QED BY <1>1, <1>2, PTL DEF Spec

\* However operations follow each other: on an order of which no two
\* overlapped and none failed half-way, increments of appends and
\* recalculations agree, and the total is that of its lines.
THEOREM TotalsRight == Spec => []TotalsAgree
<1>1. IInv /\ Base /\ TotalInv => TotalsAgree
  <2> SUFFICES ASSUME IInv, TotalInv, NEW o \in Orders, orders[o] # None, Quiet(o)
               PROVE  /\ orders[o].total = Due(o)
                      /\ \A l \in LinesOf(o) : lines[l].price =
                            IF lines[l].treat THEN 0 ELSE lines[l].quantity
    BY DEF TotalsAgree
  <2>1. Totalled(o)
    BY DEF TotalInv, Quiet
  <2>2. ASSUME NEW r \in Requests PROVE ~Recalculates(r, o)
    <3>1. ~Handles(r, o)
      BY TouchedIs DEF Quiet, Has
    <3>2. request[r].at \in {"reread", "total"} => request[r].kind \in OnOrder
      BY RequestSound DEF Sound, Placed, OnLine, OnOrder
    <3> QED BY <3>1, <3>2 DEF Recalculates, Handles
  <2> QED BY <2>1, <2>2 DEF Totalled, Priced
<1> QED BY <1>1, TotalInvariance, PTL

-----------------------------------------------------------------------------
\* Tables

Occupies(row, t) == Active(row) /\ row.table = t
Busy(t) == \E o \in Orders : Occupies(orders[o], t)
BusyFor(r, t) == \E o \in Orders : Occupies(View(r, o), t)
Listed(t, sync) == \E i \in 1..Len(sync) : sync[i] = t

\* The table that was read is the one the order is on, or both are torn.
AsRead(r) ==
    LET read == request[r].row.table
        now == orders[request[r].order].table
    IN  read = now \/ {read, now} \cap Tables \subseteq torn

\* What a transaction has marked is what it will leave behind, and the tables
\* its row leaves and comes to are marked or still listed.
Marked(r) ==
    LET q == request[r]
    IN  \A t \in Tables \ torn :
           /\ t = q.row.table \/ (q.kind # "create" /\ t = orders[q.order].table) =>
                 q.marks[t] # None \/ Listed(t, q.sync)
           /\ q.marks[t] # None =>
                 Seats(r, t) /\ (q.marks[t] = "OCCUPIED" <=> BusyFor(r, t))
           /\ Listed(t, q.sync) => Seats(r, t)

\* What r knows of the tables it looks after.
Followed(r) ==
    LET q == request[r]
    IN  /\ q.at \in {"count", "mark"} => Holds(q) \/ q.kind \in OnLine
        /\ ~Holds(q) => \A t \in Tables : q.marks[t] = None
        /\ q.kind = "transfer" /\ q.at = "write" => AsRead(r)
        /\ q.kind \in OnLine /\ q.at \in {"total", "count", "mark"} => AsRead(r)
        /\ q.kind \in OnLine /\ q.at \in {"count", "mark"} => q.sync = <<q.row.table>>
        /\ q.at = "commit" => q.sync = <<>>
        /\ Holds(q) => Marked(r)
        /\ q.at = "mark" /\ Head(q.sync) \notin torn =>
              (q.active <=> BusyFor(r, Head(q.sync)))
        /\ q.at = "free" /\ q.kind = "clear" => \A t \in Tables \ torn : ~Busy(t)
        /\ q.at = "free" /\ q.kind = "cleanup" /\ q.table \notin torn => ~Busy(q.table)

\* r has yet to write t.
Pending(r, t) ==
    LET q == request[r]
    IN  \/ q.kind \in OnLine /\ q.at \in {"count", "mark"} /\ q.row.table = t
        \/ q.kind = "clear" /\ q.at = "free"

Agrees(t) == tables[t] = "OCCUPIED" <=> Busy(t)

TableInv ==
    /\ \A r \in Requests : Followed(r)
    /\ \A t \in Tables \ torn : Agrees(t) \/ \E r \in Requests : Pending(r, t)

\* Nothing about t changes.
Still(t) ==
    /\ tables'[t] = tables[t]
    /\ \A o \in Orders : Occupies(orders'[o], t) <=> Occupies(orders[o], t)

\* r leaves t alone, or has it and sees to it.
SeesTo(r) ==
    \A t \in Tables \ torn' :
        \/ Still(t) /\ (Pending(r, t) => Pending(r, t)')
        \/ Seats(r, t) /\ (Agrees(t)' \/ Pending(r, t)')

\* An order that r moves is nobody else's, or all is torn.
Moves(r) ==
    \A p \in Requests \ {r} : request[p].kind \in OnOrder =>
        LET o == request[p].order
        IN  \/ orders'[o].table = orders[o].table
            \/ /\ orders'[o].table \in Tables => orders'[o].table \in torn
               /\ orders[o].table \in Tables => orders[o].table \in torn

LEMMA ListedIs ==
    ASSUME NEW t, NEW a, NEW b
    PROVE  /\ ~Listed(t, <<>>)
           /\ Listed(t, <<a>>) <=> t = a
           /\ Listed(t, <<a, b>>) <=> t = a \/ t = b
<1>1. ~Listed(t, <<>>)
  BY DEF Listed
<1>2. Listed(t, <<a>>) <=> t = a
  BY DEF Listed
<1>3. Listed(t, <<a, b>>) <=> t = a \/ t = b
  <2>1. Len(<<a, b>>) = 2 /\ <<a, b>>[1] = a /\ <<a, b>>[2] = b
    OBVIOUS
  <2>2. \A i \in 1..2 : i = 1 \/ i = 2
    OBVIOUS
  <2> QED BY <2>1, <2>2 DEF Listed
<1> QED BY <1>1, <1>2, <1>3

LEMMA ListedTail ==
    ASSUME NEW t, NEW s \in Seq(Tables), s # <<>>
    PROVE  Listed(t, s) <=> t = Head(s) \/ Listed(t, Tail(s))
<1>1. /\ Len(s) \in Nat /\ Len(s) > 0 /\ Head(s) = s[1] /\ Len(Tail(s)) = Len(s) - 1
      /\ \A i \in 1..Len(Tail(s)) : Tail(s)[i] = s[i + 1]
  OBVIOUS
<1>2. ASSUME Listed(t, s) PROVE t = Head(s) \/ Listed(t, Tail(s))
  <2>1. PICK i \in 1..Len(s) : s[i] = t
    BY <1>2 DEF Listed
  <2>2. i # 1 => i - 1 \in 1..Len(Tail(s)) /\ Tail(s)[i - 1] = s[i]
    BY <1>1
  <2> QED BY <1>1, <2>1, <2>2 DEF Listed
<1>3. ASSUME Listed(t, Tail(s)) PROVE Listed(t, s)
  <2>1. PICK i \in 1..Len(Tail(s)) : Tail(s)[i] = t
    BY <1>3 DEF Listed
  <2>2. i + 1 \in 1..Len(s) /\ s[i + 1] = t
    BY <1>1, <2>1
  <2> QED BY <2>2 DEF Listed
<1>4. 1 \in 1..Len(s)
  BY <1>1
<1> QED BY <1>1, <1>2, <1>3, <1>4 DEF Listed

\* What a request looks after or is about to write is its own.
LEMMA FollowedSeats ==
    ASSUME IInv, Base, NEW r \in Requests, Followed(r), NEW t \in Tables \ torn
    PROVE  /\ request[r].at = "mark" /\ Head(request[r].sync) = t => Seats(r, t)
           /\ request[r].kind \in OnLine /\ request[r].at \in {"total", "count", "mark"}
                 /\ request[r].row.table = t => Seats(r, t)
           /\ Pending(r, t) => Seats(r, t)
<1> DEFINE q == request[r]
<1>1. /\ q \in Request
      /\ q.at \in {"count", "mark"} => q.sync # <<>>
      /\ q.sync \in Seq(Tables)
  BY RequestSound DEF Sound, Placed, Request
<1>2. q.kind \in OnLine /\ q.at \in {"total", "count", "mark"} /\ q.row.table = t
         => Seats(r, t)
  BY DEF Followed, AsRead, Seats, OnLine, OnOrder
<1>3. q.at = "mark" /\ Head(q.sync) = t => Seats(r, t)
  <2>1. CASE q.at = "mark" /\ Head(q.sync) = t /\ Holds(q)
    <3>1. PICK s \in Seq(Tables) : s = q.sync
      BY <1>1
    <3>2. Listed(t, s)
      BY <1>1, <2>1, <3>1, ListedTail
    <3> QED BY <2>1, <3>1, <3>2 DEF Followed, Marked
  <2>2. CASE q.at = "mark" /\ Head(q.sync) = t /\ ~Holds(q)
    <3>1. q.kind \in OnLine /\ q.row.table = t
      BY <2>2 DEF Followed
    <3> QED BY <1>2, <2>2, <3>1
  <2> QED BY <2>1, <2>2
<1>4. Pending(r, t) => Seats(r, t)
  BY <1>2 DEF Pending, Seats
<1> QED BY <1>2, <1>3, <1>4

\* What the others follow stays as they know it.
LEMMA OthersFollowed ==
    ASSUME IInv, Base, TableInv, NEW r \in Requests, Alone(r), SeesTo(r), Moves(r),
           NEW p \in Requests \ {r}
    PROVE  Followed(p)'
<1> DEFINE q == request[p]
<1>1. /\ request'[p] = q /\ Followed(p) /\ torn \subseteq torn'
      /\ q.kind \in OnOrder => q.order \in Orders /\ orders[q.order] \in Row
  BY PlacedIs DEF Alone, TableInv
<1>2. ASSUME NEW t \in Tables \ torn', Seats(p, t)
      PROVE  Still(t)
  <2>1. ~Seats(r, t)
    BY <1>1, <1>2 DEF Base, Apart
  <2> QED BY <2>1 DEF SeesTo
<1>3. ASSUME NEW t \in Tables \ torn', Seats(p, t)
      PROVE  (BusyFor(p, t)' <=> BusyFor(p, t)) /\ (Busy(t)' <=> Busy(t))
  <2>1. Still(t)
    BY <1>2, <1>3
  <2>2. \A o \in Orders : Occupies(orders'[o], t) <=> Occupies(orders[o], t)
    BY <2>1 DEF Still
  <2>3. InTransaction(p)' <=> InTransaction(p)
    BY <1>1 DEF InTransaction
  <2>4. \A o \in Orders : Occupies(View(p, o), t)' <=> Occupies(View(p, o), t)
    BY <1>1, <2>2, <2>3 DEF View, Occupies, Active
  <2> QED BY <2>2, <2>4 DEF BusyFor, Busy, Occupies, Active
<1>4. q.kind \in OnOrder /\ AsRead(p) => AsRead(p)'
  <2> SUFFICES ASSUME q.kind \in OnOrder, AsRead(p),
                      orders'[q.order].table # orders[q.order].table
               PROVE  AsRead(p)'
    BY <1>1 DEF AsRead
  <2>1. /\ orders'[q.order].table \in Tables => orders'[q.order].table \in torn
        /\ orders[q.order].table \in Tables => orders[q.order].table \in torn
    BY DEF Moves
  <2> QED BY <1>1, <2>1 DEF AsRead
<1>5. Holds(q) => Marked(p)'
  <2> SUFFICES ASSUME Holds(q), NEW t \in Tables \ torn'
               PROVE  /\ t = q.row.table
                         \/ (q.kind # "create" /\ t = orders'[q.order].table) =>
                            q.marks[t] # None \/ Listed(t, q.sync)
                      /\ q.marks[t] # None =>
                            Seats(p, t)' /\ (q.marks[t] = "OCCUPIED" <=> BusyFor(p, t)')
                      /\ Listed(t, q.sync) => Seats(p, t)'
    BY <1>1 DEF Marked
  <2>1. orders'[q.order] = orders[q.order]
    BY DEF Alone
  <2>2. Seats(p, t)' <=> Seats(p, t)
    BY <1>1, <2>1 DEF Seats
  <2> QED BY <1>1, <1>3, <2>1, <2>2 DEF Followed, Marked
<1>6. (q.at = "mark" /\ Head(q.sync) \notin torn =>
          (q.active <=> BusyFor(p, Head(q.sync))))'
  <2> SUFFICES ASSUME q.at = "mark", Head(q.sync) \notin torn'
               PROVE  (q.active <=> BusyFor(p, Head(q.sync)))'
    BY <1>1
  <2>1. q.sync \in Seq(Tables) /\ q.sync # <<>>
    BY RequestSound DEF Sound, Placed, Request
  <2>2. PICK t \in Tables : t = Head(q.sync)
    BY <2>1
  <2>3. Seats(p, t)
    BY <1>1, <2>2, FollowedSeats
  <2>4. BusyFor(p, t)' <=> BusyFor(p, t)
    BY <1>3, <2>2, <2>3
  <2>5. Head(request'[p].sync) = t
    BY <1>1, <2>2
  <2> QED BY <1>1, <2>2, <2>4, <2>5 DEF Followed
<1>7. q.at = "free" /\ q.kind = "clear" => \A t \in Tables \ torn' : ~Busy(t)'
  BY <1>1, <1>3 DEF Followed, Seats
<1>8. (q.at = "free" /\ q.kind = "cleanup" /\ q.table \notin torn => ~Busy(q.table))'
  <2>1. q.kind = "cleanup" => q.table \in Tables
    BY RequestSound DEF Sound, Placed
  <2>2. PICK t : t = q.table
    OBVIOUS
  <2>3. q.at = "free" /\ q.kind = "cleanup" /\ t \notin torn' => ~Busy(t)'
    BY <1>1, <1>3, <2>1, <2>2 DEF Followed, Seats
  <2> QED BY <1>1, <2>2, <2>3
<1> QED BY <1>1, <1>4, <1>5, <1>6, <1>7, <1>8 DEF Followed, OnLine, OnOrder

LEMMA TablesStep ==
    ASSUME IInv, Base, TableInv, NEW r \in Requests, Alone(r), SeesTo(r), Moves(r),
           Followed(r)'
    PROVE  TableInv'
<1>1. \A p \in Requests : Followed(p)'
  BY OthersFollowed
<1>2. ASSUME NEW t \in Tables \ torn'
      PROVE  Agrees(t)' \/ \E p \in Requests : Pending(p, t)'
  <2>1. Agrees(t) \/ \E p \in Requests : Pending(p, t)
    BY DEF TableInv, Alone
  <2>2. CASE Still(t) /\ (Pending(r, t) => Pending(r, t)')
    <3>1. Agrees(t) => Agrees(t)'
      BY <2>2 DEF Agrees, Busy, Still, Occupies, Active
    <3>2. ASSUME NEW p \in Requests, Pending(p, t) PROVE Pending(p, t)'
      <4>1. CASE p = r
        BY <2>2, <3>2, <4>1
      <4>2. CASE p # r
        BY <3>2, <4>2 DEF Alone, Pending
      <4> QED BY <4>1, <4>2
    <3> QED BY <2>1, <3>1, <3>2
  <2> QED BY <2>2 DEF SeesTo
<1> QED BY <1>1, <1>2 DEF TableInv

\* A request that has no table to look after yet.
LEMMA FollowedEarly ==
    ASSUME NEW r \in Requests,
           request'[r].at \in {"find", "read", "write", "reread"},
           request'[r].kind = "transfer" /\ request'[r].at = "write" => AsRead(r)',
           \A t \in Tables : request'[r].marks[t] = None
    PROVE  Followed(r)'
  BY DEF Followed, Holds

LEMMA EndsFollowed == ASSUME NEW r \in Requests, Ends(r) PROVE Followed(r)'
  BY IdleIs DEF Ends, Followed, Holds, OnLine

LEMMA UnseenSeesTo ==
    ASSUME NEW r \in Requests, UNCHANGED <<orders, tables>>,
           \A t \in Tables \ torn' : Pending(r, t) => Pending(r, t)'
    PROVE  SeesTo(r) /\ Moves(r)
  BY DEF SeesTo, Moves, Still

LEMMA BeginTables ==
    ASSUME IInv, IInv', Base, TableInv, NEW r \in Requests, Begin(r)
    PROVE  TableInv'
<1>1. /\ Start(r, request'[r])
      /\ request'[r].at \in {"find", "read", "write"}
      /\ request'[r].at = "write" => request'[r].kind \in {"create", "delete", "clear"}
      /\ request'[r].marks = Idle.marks
  BY BeginIs
<1>2. /\ UNCHANGED <<orders, lines, tables>> /\ torn \subseteq torn'
      /\ \A p \in Requests \ {r} : request'[p] = request[p]
  BY <1>1, StartTears
<1>3. Alone(r)
  BY <1>2 DEF Alone
<1>4. \A t : ~Pending(r, t)
  BY <1>1 DEF Pending, Start
<1>5. Followed(r)'
  BY <1>1, IdleIs, FollowedEarly
<1> QED BY <1>2, <1>3, <1>4, <1>5, UnseenSeesTo, TablesStep

\* Steps of r that only r sees, before it looks after tables.
LEMMA UnseenTables ==
    ASSUME IInv, IInv', Base, TableInv, NEW r \in Requests,
           FindOrder(r) \/ Read(r) \/ Reread(r) \/ LookForOrders(r)
    PROVE  TableInv'
<1> DEFINE q == request[r]
           n == request'[r]
<1>0. Followed(r)
  BY DEF TableInv
<1>1. ASSUME Unseen(r), q.at \notin {"count", "mark", "free"}, Followed(r)'
      PROVE  TableInv'
  <2>1. \A t : ~Pending(r, t)
    BY <1>1 DEF Pending
  <2> QED BY <1>1, <2>1, UnseenAlone, UnseenSeesTo, TablesStep DEF Unseen
<1>2. CASE FindOrder(r)
  <2>1. /\ Unseen(r) /\ q.at = "find" /\ n.at = "write" /\ n.kind = "create"
        /\ n.marks = q.marks
    BY <1>2, FindOrderIs
  <2>2. \A t \in Tables : n.marks[t] = None
    BY <1>0, <2>1 DEF Followed, Holds
  <2> QED BY <1>1, <2>1, <2>2, FollowedEarly
<1>3. CASE Read(r)
  <2>1. /\ Unseen(r) /\ Keeps(r) /\ q.at = "read" /\ n.at = "write"
        /\ n.row = orders[q.order]
    BY <1>3, ReadIs
  <2>2. \A t \in Tables : n.marks[t] = None
    BY <1>0, <2>1 DEF Followed, Holds, Keeps
  <2>3. AsRead(r)'
    BY <2>1 DEF AsRead, Keeps, Unseen
  <2> QED BY <1>1, <2>1, <2>2, <2>3, FollowedEarly
<1>4. CASE Reread(r)
  <2>1. /\ Unseen(r) /\ Keeps(r) /\ q.at = "reread" /\ n.at = "total"
        /\ n.row.table = orders[q.order].table
    BY <1>4, RereadIs
  <2>2. \A t \in Tables : n.marks[t] = None
    BY <1>0, <2>1 DEF Followed, Holds, Keeps
  <2>3. AsRead(r)'
    BY <2>1 DEF AsRead, Keeps, Unseen
  <2>4. Followed(r)'
    BY <2>1, <2>2, <2>3 DEF Followed, Holds
  <2> QED BY <1>1, <2>1, <2>4
<1>5. CASE LookForOrders(r)
  <2>1. /\ Unseen(r) /\ q.at = "find" /\ q.kind = "cleanup"
        /\ \/ Ends(r)
           \/ /\ Keeps(r) /\ n.at = "free"
              /\ ~\E o \in Orders : Active(orders[o]) /\ orders[o].table = q.table
    BY <1>5, LookForOrdersIs
  <2>2. CASE Ends(r)
    BY <1>1, <2>1, <2>2, EndsFollowed
  <2>3. CASE ~Ends(r)
    <3>1. \A t \in Tables : n.marks[t] = None
      BY <1>0, <2>1, <2>3 DEF Followed, Holds, Keeps
    <3>2. PICK t : t = q.table
      OBVIOUS
    <3>3. ~Busy(t)' /\ n.table = t
      BY <2>1, <2>3, <3>2 DEF Busy, Occupies, Active, Unseen, Keeps
    <3>4. n.at = "free" /\ n.kind = "cleanup"
      BY <2>1, <2>3 DEF Keeps
    <3>5. Followed(r)'
      BY <3>1, <3>3, <3>4 DEF Followed, Holds, OnLine
    <3> QED BY <1>1, <2>1, <3>5
  <2> QED BY <2>2, <2>3
<1> QED BY <1>2, <1>3, <1>4, <1>5

\* A transaction lists the tables that its row leaves and comes to.
LEMMA NewOrderTables ==
    ASSUME IInv, IInv', Base, TableInv, NEW r \in Requests, NewOrder(r)
    PROVE  TableInv'
<1> DEFINE q == request[r]
           n == request'[r]
<1>1. /\ Unseen(r) /\ q.kind = "create" /\ q.at = "write"
      /\ n.kind = q.kind /\ n.table = q.table /\ n.marks = q.marks
      /\ n.row.table = q.table
      /\ n.at = IF q.table = None THEN "commit" ELSE "count"
      /\ n.sync = IF q.table = None THEN <<>> ELSE <<q.table>>
  BY NewOrderIs
<1>2. \A t \in Tables : n.marks[t] = None
  BY <1>1 DEF TableInv, Followed, Holds
<1>3. \A t \in Tables : Listed(t, n.sync) <=> t = q.table
  <2>1. PICK a : a = q.table
    OBVIOUS
  <2>2. n.sync = IF a = None THEN <<>> ELSE <<a>>
    BY <1>1, <2>1
  <2>3. \A t : ~Listed(t, <<>>) /\ (Listed(t, <<a>>) <=> t = a)
    BY ListedIs
  <2> QED BY <2>1, <2>2, <2>3, NoneType
<1>4. Holds(n)
  BY <1>1 DEF Holds
<1>5. Marked(r)'
  BY <1>1, <1>2, <1>3 DEF Marked, Seats
<1>6. Followed(r)'
  BY <1>1, <1>2, <1>4, <1>5 DEF Followed, OnLine
<1>7. \A t : ~Pending(r, t)
  BY <1>1 DEF Pending, OnLine
<1> QED BY <1>1, <1>6, <1>7, UnseenAlone, UnseenSeesTo, TablesStep DEF Unseen

LEMMA WroteTables ==
    ASSUME IInv, IInv', Base, TableInv, NEW r \in Requests,
           WriteStatus(r) \/ WriteTransfer(r) \/ WriteDelete(r)
    PROVE  TableInv'
<1> DEFINE q == request[r]
           n == request'[r]
<1>0. PICK o : o = q.order
  OBVIOUS
<1>1. /\ Unseen(r) /\ q.at = "write" /\ q.kind \in {"status", "transfer", "delete"}
      /\ \/ Ends(r)
         \/ /\ Keeps(r)
            /\ n.at = IF n.sync = <<>> THEN "commit" ELSE "count"
            /\ n.row.table = IF q.kind = "transfer" THEN q.table ELSE orders[o].table
            /\ n.sync = IF q.kind = "transfer" THEN <<q.table, q.row.table>>
                        ELSE IF orders[o].table = None THEN <<>> ELSE <<orders[o].table>>
  BY <1>0, WroteIs
<1>2. \A t : ~Pending(r, t)
  BY <1>1 DEF Pending, OnLine
<1> SUFFICES Followed(r)'
  BY <1>1, <1>2, UnseenAlone, UnseenSeesTo, TablesStep DEF Unseen
<1>3. CASE Ends(r)
  BY <1>3, EndsFollowed
<1>4. CASE ~Ends(r)
  <2>1. Followed(r)
    BY DEF TableInv
  <2>2. \A t \in Tables : n.marks[t] = None
    BY <1>1, <1>4, <2>1 DEF Followed, Holds, Keeps
  <2>3. n.kind = q.kind /\ n.order = o /\ n.table = q.table
    BY <1>0, <1>1, <1>4 DEF Keeps
  <2>4. \A t \in Tables : Listed(t, n.sync) <=>
            IF q.kind = "transfer" THEN t = q.table \/ t = q.row.table
            ELSE t = orders[o].table
    <3>1. PICK a, b, c : a = q.table /\ b = q.row.table /\ c = orders[o].table
      OBVIOUS
    <3>2. n.sync = IF q.kind = "transfer" THEN <<a, b>>
                   ELSE IF c = None THEN <<>> ELSE <<c>>
      BY <1>1, <1>4, <3>1
    <3>3. \A t : /\ ~Listed(t, <<>>) /\ (Listed(t, <<c>>) <=> t = c)
                 /\ Listed(t, <<a, b>>) <=> t = a \/ t = b
      BY ListedIs
    <3> QED BY <3>1, <3>2, <3>3, NoneType
  <2>5. q.kind = "transfer" => \A t \in Tables \ torn :
           t = q.row.table <=> t = orders[o].table
    BY <1>0, <1>1, <2>1 DEF Followed, AsRead
  <2>6. UNCHANGED <<orders, torn>>
    BY <1>1 DEF Unseen
  <2>7. Marked(r)'
    <3> SUFFICES ASSUME NEW t \in Tables \ torn
                 PROVE  /\ t = n.row.table \/ t = orders[o].table => Listed(t, n.sync)
                        /\ Listed(t, n.sync) => Seats(r, t)'
      BY <2>2, <2>3, <2>6 DEF Marked
    <3>1. Seats(r, t)' <=> t = q.table \/ t = orders[o].table
      BY <1>1, <2>3, <2>6 DEF Seats, OnOrder
    <3> QED BY <1>1, <1>4, <2>4, <2>5, <3>1
  <2>8. Holds(n) /\ n.at \in {"count", "commit"} /\ (n.at = "commit" => n.sync = <<>>)
    BY <1>1, <1>4, <2>3 DEF Holds
  <2> QED BY <1>1, <2>2, <2>3, <2>7, <2>8 DEF Followed, OnLine
<1> QED BY <1>3, <1>4

LEMMA CountTables ==
    ASSUME IInv, IInv', Base, TableInv, NEW r \in Requests, CountActive(r)
    PROVE  TableInv'
<1> DEFINE q == request[r]
           n == request'[r]
<1>1. /\ Unseen(r) /\ Keeps(r) /\ q.at = "count" /\ n.at = "mark"
      /\ n.row = q.row /\ n.sync = q.sync
      /\ n.active <=> \E o \in Orders : /\ Active(View(r, o))
                                        /\ View(r, o).table = Head(q.sync)
  BY CountActiveIs
<1>2. Followed(r) /\ UNCHANGED <<orders, torn>> /\ n.kind = q.kind
      /\ n.order = q.order /\ n.table = q.table /\ n.marks = q.marks
  BY <1>1 DEF TableInv, Unseen, Keeps
<1>3. Holds(n) <=> Holds(q)
  BY <1>1, <1>2 DEF Holds
<1>4. \A o : View(r, o)' = View(r, o)
  BY <1>1, <1>2 DEF View, InTransaction
<1>5. \A t : (BusyFor(r, t)' <=> BusyFor(r, t)) /\ (Seats(r, t)' <=> Seats(r, t))
  BY <1>2, <1>4 DEF BusyFor, Occupies, Active, Seats
<1>6. n.active <=> BusyFor(r, Head(q.sync))
  BY <1>1 DEF BusyFor, Occupies
<1>7. PICK t : t = Head(q.sync)
  OBVIOUS
<1>8. (n.active <=> BusyFor(r, t)') /\ Head(n.sync) = t
  BY <1>1, <1>5, <1>6, <1>7
<1>9. Holds(n) => Marked(r)'
  BY <1>1, <1>2, <1>3, <1>5 DEF Followed, Marked
<1>10. q.kind \in OnLine => AsRead(r)' /\ n.sync = <<n.row.table>>
  BY <1>1, <1>2 DEF Followed, AsRead
<1>11. Followed(r)'
  BY <1>1, <1>2, <1>3, <1>8, <1>9, <1>10 DEF Followed
<1>12. \A p \in Tables : Pending(r, p) => Pending(r, p)'
  BY <1>1, <1>2 DEF Pending
<1> QED BY <1>1, <1>11, <1>12, UnseenAlone, UnseenSeesTo, TablesStep DEF Unseen

LEMMA SameMoves ==
    ASSUME IInv, SameTables, NEW r \in Requests
    PROVE  Moves(r)
  BY PlacedIs DEF SameTables, Moves

\* Tables that the order of a step is not on, before or after, are still.
LEMMA StillElsewhere ==
    ASSUME NEW o \in Orders, OnlyOrder(o), NEW t, tables'[t] = tables[t],
           orders[o] # None => orders[o].table # t,
           orders'[o] # None => orders'[o].table # t
    PROVE  Still(t)
<1> SUFFICES ASSUME NEW p \in Orders
             PROVE  Occupies(orders'[p], t) <=> Occupies(orders[p], t)
  BY DEF Still
<1>1. CASE p = o
  BY <1>1 DEF Occupies, Active
<1>2. CASE p # o
  BY <1>2 DEF OnlyOrder
<1> QED BY <1>1, <1>2

LEMMA RowTables ==
    ASSUME IInv, IInv', Base, TableInv, NEW r \in Requests, Alone(r), SameTables,
           AppendLine(r) \/ WriteHide(r) \/ WriteItem(r) \/ WriteQuantity(r)
    PROVE  TableInv'
<1> DEFINE q == request[r]
           n == request'[r]
           o == q.order
<1>0. Followed(r) /\ Moves(r)
  BY SameMoves DEF TableInv
<1>1. ASSUME q.at = "write", \A t \in Tables \ torn' : Still(t), Followed(r)'
      PROVE  TableInv'
  <2>1. SeesTo(r)
    BY <1>1 DEF SeesTo, Pending
  <2> QED BY <1>0, <1>1, <2>1, TablesStep
<1>2. CASE AppendLine(r)
  <2>1. /\ Ends(r) /\ UNCHANGED tables /\ q.at = "write" /\ o \in Orders
        /\ orders[o] \in Row /\ orders'[o] \in Row /\ OnlyOrder(o)
        /\ orders'[o].table = orders[o].table
        /\ orders'[o].status = orders[o].status
        /\ orders'[o].hidden = orders[o].hidden
    BY <1>2, AppendLineIs
  <2>2. \A t : Occupies(orders'[o], t) <=> Occupies(orders[o], t)
    BY <2>1, NoneType DEF Occupies, Active
  <2>3. \A t : Still(t)
    BY <2>1, <2>2 DEF Still, OnlyOrder
  <2> QED BY <1>1, <2>1, <2>3, EndsFollowed
<1>3. CASE WriteHide(r)
  <2>1. /\ Ends(r) /\ UNCHANGED tables /\ q.at = "write" /\ o \in Orders
        /\ OnlyOrder(o) /\ orders'[o].table = orders[o].table
        /\ torn' = torn \cup (Tables \cap {orders[o].table})
    BY <1>3, WriteHideIs
  <2>2. \A t \in Tables \ torn' : Still(t)
    BY <2>1, StillElsewhere
  <2> QED BY <1>1, <2>1, <2>2, EndsFollowed
<1>4. CASE WriteItem(r) \/ WriteQuantity(r)
  <2>1. /\ UNCHANGED <<orders, tables>> /\ q.at = "write" /\ n.at = "reread"
        /\ n.marks = q.marks
    BY <1>4, WriteItemIs, WriteQuantityIs DEF Keeps
  <2>2. \A t \in Tables : n.marks[t] = None
    BY <1>0, <2>1 DEF Followed, Holds
  <2> QED BY <1>1, <2>1, <2>2, FollowedEarly DEF Still
<1> QED BY <1>2, <1>3, <1>4

\* The total and the status of an order come with its table to look after.
LEMMA WriteTotalTables ==
    ASSUME IInv, IInv', Base, TableInv, NEW r \in Requests, Alone(r), SameTables,
           WriteTotal(r)
    PROVE  TableInv'
<1> DEFINE q == request[r]
           n == request'[r]
<1>0. PICK o : o = q.order
  OBVIOUS
<1>1. /\ UNCHANGED <<tables, torn>> /\ q.kind \in OnLine /\ q.at = "total"
      /\ o \in Orders /\ orders[o] \in Row /\ OnlyOrder(o)
      /\ orders'[o].table = orders[o].table
      /\ \/ Ends(r) /\ q.row.table = None
         \/ /\ Keeps(r) /\ n.at = "count" /\ q.row.table # None
            /\ n.row = q.row /\ n.sync = <<q.row.table>>
  BY <1>0, WriteTotalIs
<1>2. Followed(r) /\ AsRead(r) /\ Moves(r)
  BY <1>1, SameMoves DEF TableInv, Followed
<1>3. ASSUME NEW t \in Tables \ torn'
      PROVE  Still(t) \/ (Seats(r, t) /\ Pending(r, t)')
  <2>1. t \notin torn /\ tables'[t] = tables[t]
    BY <1>1
  <2>2. CASE t # orders[o].table
    BY <1>1, <2>1, <2>2, StillElsewhere
  <2>3. CASE t = orders[o].table
    <3>1. q.row.table = t
      BY <1>0, <1>2, <2>1, <2>3 DEF AsRead
    <3>2. /\ n.kind = q.kind /\ n.at = "count" /\ n.row.table = t
      BY <1>1, <3>1, NoneType DEF Keeps
    <3> QED BY <1>0, <1>1, <2>3, <3>2 DEF Pending, Seats, OnLine, OnOrder
  <2> QED BY <2>2, <2>3
<1>4. SeesTo(r)
  <2>1. \A t : ~Pending(r, t)
    BY <1>1 DEF Pending
  <2> QED BY <1>3, <2>1 DEF SeesTo
<1>5. Followed(r)'
  <2>1. CASE Ends(r)
    BY <2>1, EndsFollowed
  <2>2. CASE ~Ends(r)
    <3>1. /\ n.kind = q.kind /\ n.order = o /\ n.at = "count" /\ n.row = q.row
          /\ n.sync = <<q.row.table>> /\ n.marks = q.marks
      BY <1>0, <1>1, <2>2 DEF Keeps
    <3>2. AsRead(r)'
      BY <1>0, <1>1, <1>2, <3>1 DEF AsRead
    <3>3. ~Holds(q) /\ ~Holds(n) /\ q.kind # "transfer"
      BY <1>1, <3>1 DEF Holds, OnLine
    <3> QED BY <1>1, <1>2, <3>1, <3>2, <3>3 DEF Followed
  <2> QED BY <2>1, <2>2
<1> QED BY <1>2, <1>4, <1>5, TablesStep

\* What is marked is what was counted, and nobody changed that since.
LEMMA MarkTables ==
    ASSUME IInv, IInv', Base, TableInv, NEW r \in Requests, Alone(r), SameTables,
           MarkTable(r)
    PROVE  TableInv'
<1> DEFINE q == request[r]
           n == request'[r]
<1>0. PICK h, s : /\ h = Head(q.sync)
                  /\ s = IF q.active THEN "OCCUPIED" ELSE "AVAILABLE"
  OBVIOUS
<1>1. /\ q.at = "mark" /\ h \in Tables /\ Tail(q.sync) \in Seq(Tables)
      /\ q.sync \in Seq(Tables) /\ q.sync # <<>>
      /\ UNCHANGED <<orders, torn>>
      /\ \/ /\ Holds(q) /\ UNCHANGED tables
            /\ n.kind = q.kind /\ n.order = q.order
            /\ n.table = q.table /\ n.row = q.row /\ n.sync = Tail(q.sync)
            /\ n.at = IF n.sync = <<>> THEN "commit" ELSE "count"
            /\ n.marks = [q.marks EXCEPT ![h] = s]
         \/ ~Holds(q) /\ Ends(r) /\ tables' = [tables EXCEPT ![h] = s]
  BY <1>0, MarkTableIs
<1>2. Followed(r) /\ Moves(r) /\ q.marks \in [Tables -> TableStatus \cup {None}]
      /\ tables \in [Tables -> TableStatus]
  BY SameMoves, PlacedIs DEF TableInv, Request, IInv, TypeOK
<1>3. h \notin torn => (s = "OCCUPIED" <=> BusyFor(r, h)) /\ Seats(r, h)
  BY <1>0, <1>1, <1>2, FollowedSeats DEF Followed
<1>4. CASE Holds(q)
  <2>1. q.kind \notin OnLine
    BY <1>4 DEF Holds, OnLine
  <2>2. SeesTo(r)
    BY <1>1, <1>4, <2>1 DEF SeesTo, Still, Pending
  <2>3. Holds(n) /\ n.kind \notin OnLine
    BY <1>1, <1>4, <2>1 DEF Holds
  <2>4. \A o : View(r, o)' = View(r, o)
    BY <1>1, <1>4, <2>3 DEF View, InTransaction, Holds
  <2>5. \A t : (BusyFor(r, t)' <=> BusyFor(r, t)) /\ (Seats(r, t)' <=> Seats(r, t))
    BY <1>1, <1>4, <2>4 DEF BusyFor, Occupies, Active, Seats
  <2>6. PICK sync \in Seq(Tables) : sync = q.sync /\ sync # <<>> /\ n.sync = Tail(sync)
                                    /\ h = Head(sync)
    BY <1>0, <1>1, <1>4
  <2>7. \A t : Listed(t, sync) <=> t = h \/ Listed(t, n.sync)
    BY <2>6, ListedTail
  <2>8. Marked(r) /\ s # None
    <3>1. s # None
      BY <1>0, NoneType DEF TableStatus
    <3> QED BY <1>2, <1>4, <3>1 DEF Followed
  <2>9. ASSUME NEW t \in Tables \ torn
        PROVE  /\ t = q.row.table \/ (q.kind # "create" /\ t = orders[q.order].table) =>
                     n.marks[t] # None \/ Listed(t, n.sync)
               /\ n.marks[t] # None =>
                     Seats(r, t) /\ (n.marks[t] = "OCCUPIED" <=> BusyFor(r, t))
               /\ Listed(t, n.sync) => Seats(r, t)
    <3>1. n.marks[t] = IF t = h THEN s ELSE q.marks[t]
      BY <1>1, <1>2, <1>4
    <3>2. Listed(t, q.sync) <=> t = h \/ Listed(t, n.sync)
      BY <2>6, <2>7
    <3> QED BY <1>3, <2>8, <3>1, <3>2 DEF Marked
  <2>10. Marked(r)'
    BY <1>1, <1>4, <2>5, <2>9 DEF Marked
  <2>11. Followed(r)'
    BY <1>1, <1>4, <2>3, <2>10 DEF Followed, OnLine
  <2> QED BY <1>2, <2>2, <2>11, TablesStep
<1>5. CASE ~Holds(q)
  <2>1. /\ Ends(r) /\ tables' = [tables EXCEPT ![h] = s]
        /\ q.kind \in OnLine /\ q.sync = <<q.row.table>>
    BY <1>1, <1>2, <1>5 DEF Followed
  <2>2. h = q.row.table
    BY <1>0, <2>1
  <2>3. \A t \in Tables : t # h => Still(t) /\ ~Pending(r, t)
    BY <1>1, <1>2, <2>1, <2>2 DEF Still, Pending, OnLine
  <2>4. ASSUME h \notin torn PROVE Seats(r, h) /\ Agrees(h)'
    <3>1. BusyFor(r, h) <=> Busy(h)
      BY <1>5 DEF BusyFor, Busy, View, InTransaction, Holds
    <3>2. Busy(h)' <=> Busy(h)
      BY <1>1 DEF Busy, Occupies, Active
    <3>3. tables'[h] = s
      BY <1>1, <1>2, <2>1
    <3> QED BY <1>3, <2>4, <3>1, <3>2, <3>3 DEF Agrees
  <2>5. SeesTo(r)
    BY <1>1, <2>3, <2>4 DEF SeesTo
  <2> QED BY <1>2, <2>1, <2>5, EndsFollowed, TablesStep
<1> QED BY <1>4, <1>5

\* A commit shows the row and the marks that were counted with it.
LEMMA CommitTables ==
    ASSUME IInv, IInv', Base, TableInv, NEW r \in Requests, Commit(r)
    PROVE  TableInv'
<1> DEFINE q == request[r]
<1>0. PICK o : o = q.order
  OBVIOUS
<1>1. /\ Ends(r) /\ UNCHANGED torn /\ Holds(q) /\ q.at = "commit" /\ o \in Orders
      /\ orders'[o] = q.row /\ q.row \in Row /\ OnlyOrder(o)
      /\ \A t \in Tables : tables'[t] =
            IF q.marks[t] = None THEN tables[t] ELSE q.marks[t]
  BY <1>0, CommitIs
<1>2. Followed(r) /\ Kept(r) /\ Alone(r)
  BY CommitAlone DEF TableInv, Base
<1>3. /\ Marked(r)
      /\ \A t \in Tables : ~Listed(t, q.sync)
  BY <1>1, <1>2, ListedIs DEF Followed
<1>4. \A t : Busy(t)' <=> BusyFor(r, t)
  <2>1. InTransaction(r)
    BY <1>1 DEF InTransaction, Holds
  <2>2. \A p \in Orders : View(r, p) = orders'[p]
    BY <1>0, <1>1, <2>1 DEF View, OnlyOrder
  <2> QED BY <2>2 DEF Busy, BusyFor, Occupies, Active
<1>5. q.kind = "create" => orders[o] = None
  BY <1>0, <1>1, <1>2 DEF Kept
<1>6. ASSUME NEW t \in Tables \ torn'
      PROVE  Still(t) \/ (Seats(r, t) /\ Agrees(t)')
  <2>1. t \notin torn
    BY <1>1
  <2>2. CASE q.marks[t] = None
    <3>1. t # q.row.table /\ (q.kind # "create" => t # orders[o].table)
      BY <1>0, <1>3, <2>1, <2>2 DEF Marked
    <3>2. /\ orders[o] # None => orders[o].table # t
          /\ orders'[o].table # t /\ tables'[t] = tables[t]
      BY <1>1, <1>5, <2>2, <3>1
    <3> QED BY <1>1, <3>2, StillElsewhere
  <2>3. CASE q.marks[t] # None
    <3>1. /\ Seats(r, t) /\ (q.marks[t] = "OCCUPIED" <=> BusyFor(r, t))
          /\ tables'[t] = q.marks[t]
      BY <1>1, <1>3, <2>1, <2>3 DEF Marked
    <3> QED BY <1>4, <3>1 DEF Agrees
  <2> QED BY <2>2, <2>3
<1>7. SeesTo(r)
  <2>1. \A t : ~Pending(r, t)
    BY <1>1 DEF Pending, Holds, OnLine
  <2> QED BY <1>6, <2>1 DEF SeesTo
<1>8. Moves(r)
  <2> SUFFICES ASSUME NEW p \in Requests \ {r}, request[p].kind \in OnOrder,
                      orders'[request[p].order].table # orders[request[p].order].table
               PROVE  /\ orders'[request[p].order].table \in Tables =>
                            orders'[request[p].order].table \in torn
                      /\ orders[request[p].order].table \in Tables =>
                            orders[request[p].order].table \in torn
    BY DEF Moves
  <2>1. request[p].order = o /\ orders[o] # None
    BY <1>1, PlacedIs DEF OnlyOrder
  <2>2. q.kind \in OnOrder /\ Handles(r, o) /\ Handles(p, o)
    BY <1>0, <1>1, <1>5, <2>1 DEF Holds, OnOrder, Handles
  <2>3. Apart(p, r) /\ Apart(r, p)
    BY DEF Base
  <2>4. \A t \in Tables : Seats(p, t) \/ Seats(r, t) => t \in torn
    BY <1>0, <2>1, <2>2, <2>3 DEF Apart
  <2>5. orders'[o].table = orders[o].table \/ orders'[o].table = q.table
    BY <1>0, <1>1, <1>2, <2>2 DEF Kept, OnOrder
  <2> QED BY <2>1, <2>4, <2>5 DEF Seats
<1> QED BY <1>1, <1>2, <1>7, <1>8, EndsFollowed, TablesStep

LEMMA FreeTables ==
    ASSUME IInv, IInv', Base, TableInv, NEW r \in Requests, Alone(r), SameTables,
           ClearOrders(r) \/ FreeAll(r) \/ FreeTable(r) \/ Dies(r)
    PROVE  TableInv'
<1> DEFINE q == request[r]
           n == request'[r]
<1>0. Followed(r) /\ Moves(r)
  BY SameMoves DEF TableInv
<1>1. CASE ClearOrders(r)
  <2>1. /\ Keeps(r) /\ UNCHANGED <<tables, torn>>
        /\ q.kind = "clear" /\ q.at = "write" /\ n.at = "free"
        /\ \A o \in Orders : ~Active(orders'[o])
    BY <1>1, ClearOrdersIs
  <2>2. n.kind = "clear" /\ \A t \in Tables : n.marks[t] = None
    BY <1>0, <2>1 DEF Followed, Holds, Keeps
  <2>3. \A t : ~Busy(t)'
    BY <2>1 DEF Busy, Occupies, Active
  <2>4. Followed(r)'
    BY <2>1, <2>2, <2>3 DEF Followed, Holds, OnLine
  <2>5. SeesTo(r)
    BY <2>1, <2>2 DEF SeesTo, Pending, Seats
  <2> QED BY <1>0, <2>4, <2>5, TablesStep
<1>2. CASE FreeAll(r) \/ FreeTable(r)
  <2>1. /\ Ends(r) /\ UNCHANGED <<orders, torn>>
        /\ q.at = "free" /\ q.kind \in {"clear", "cleanup"}
        /\ q.kind = "clear" => \A t \in Tables : tables'[t] = "AVAILABLE"
        /\ q.kind = "cleanup" =>
              /\ tables'[q.table] = "AVAILABLE"
              /\ \A t \in Tables \ {q.table} : tables'[t] = tables[t]
    BY <1>2, FreeIs
  <2>2. \A t : Busy(t)' <=> Busy(t)
    BY <2>1 DEF Busy, Occupies, Active
  <2>3. \A t \in Tables \ torn :
           q.kind = "clear" \/ t = q.table => Seats(r, t) /\ Agrees(t)'
    BY <1>0, <2>1, <2>2 DEF Followed, Seats, Agrees
  <2>4. q.kind = "cleanup" => \A t \in Tables \ {q.table} : Still(t) /\ ~Pending(r, t)
    BY <2>1 DEF Still, Pending, OnLine
  <2>5. SeesTo(r)
    BY <2>1, <2>3, <2>4 DEF SeesTo
  <2> QED BY <1>0, <2>1, <2>5, EndsFollowed, TablesStep
<1>3. CASE Dies(r)
  <2>1. /\ Ends(r) /\ UNCHANGED <<orders, tables>> /\ torn \subseteq torn'
        /\ \/ q.at \in {"reread", "total", "free"}
           \/ q.at \in {"count", "mark"} /\ ~Holds(q)
           => \A x : Has(r, x) => x \in torn'
    BY <1>3, DiesIs
  <2>2. ASSUME NEW t \in Tables \ torn', Pending(r, t)
        PROVE  FALSE
    <3>1. Seats(r, t)
      BY <1>0, <2>1, <2>2, FollowedSeats
    <3>2. q.at = "free" \/ (q.at \in {"count", "mark"} /\ ~Holds(q))
      BY <2>2 DEF Pending, Holds, OnLine
    <3> QED BY <2>1, <3>1, <3>2 DEF Has
  <2>3. SeesTo(r)
    BY <2>1, <2>2, UnseenSeesTo
  <2> QED BY <1>0, <2>1, <2>3, EndsFollowed, TablesStep
<1> QED BY <1>1, <1>2, <1>3

\* Of a table set by hand nothing is said.
LEMMA OutsideTables ==
    ASSUME IInv, Base, TableInv,
           (\E t \in Tables, s \in TableStatus : SetTable(t, s)) \/ UNCHANGED vars
    PROVE  TableInv'
<1>1. /\ UNCHANGED <<orders, request>> /\ torn \subseteq torn'
      /\ \A t \in Tables \ torn' : tables'[t] = tables[t]
  BY DEF SetTable, vars, rows, history, IInv, TypeOK
<1>2. ASSUME NEW r \in Requests, NEW t
      PROVE  /\ (BusyFor(r, t)' <=> BusyFor(r, t)) /\ (Busy(t)' <=> Busy(t))
             /\ (Seats(r, t)' <=> Seats(r, t)) /\ (Pending(r, t)' <=> Pending(r, t))
  <2>1. \A o : View(r, o)' = View(r, o)
    BY <1>1 DEF View, InTransaction
  <2>2. (BusyFor(r, t)' <=> BusyFor(r, t)) /\ (Busy(t)' <=> Busy(t))
    BY <1>1, <2>1 DEF BusyFor, Busy, Occupies, Active
  <2>3. (Seats(r, t)' <=> Seats(r, t)) /\ (Pending(r, t)' <=> Pending(r, t))
    BY <1>1 DEF Seats, Pending
  <2> QED BY <2>2, <2>3
<1>3. ASSUME NEW r \in Requests
      PROVE  Followed(r)'
  <2>1. Followed(r) /\ request'[r] = request[r]
    BY <1>1 DEF TableInv
  <2>2. PICK h, t : h = Head(request[r].sync) /\ t = request[r].table
    OBVIOUS
  <2>3. /\ Marked(r) => Marked(r)'
        /\ AsRead(r) => AsRead(r)'
    BY <1>1, <1>2, <2>1 DEF Marked, AsRead
  <2>4. /\ BusyFor(r, h)' <=> BusyFor(r, h)
        /\ \A p : Busy(p)' <=> Busy(p)
        /\ Head(request'[r].sync) = h /\ request'[r].table = t
    BY <1>2, <2>1, <2>2
  <2> QED BY <1>1, <2>1, <2>2, <2>3, <2>4 DEF Followed
<1>4. \A t \in Tables \ torn' : Agrees(t)' \/ \E r \in Requests : Pending(r, t)'
  <2>1. \A t : Busy(t)' <=> Busy(t)
    BY <1>1 DEF Busy, Occupies, Active
  <2> QED BY <1>1, <1>2, <2>1 DEF TableInv, Agrees
<1> QED BY <1>3, <1>4 DEF TableInv

LEMMA NextTables == IInv /\ IInv' /\ Base /\ TableInv /\ [Next]_vars => TableInv'
<1> SUFFICES ASSUME IInv, IInv', Base, TableInv, [Next]_vars PROVE TableInv'
  OBVIOUS
<1>1. ASSUME NEW r \in Requests, Begin(r) PROVE TableInv'
  BY <1>1, BeginTables
<1>2. ASSUME NEW r \in Requests, Proceed(r) \/ Dies(r) PROVE TableInv'
  <2>1. CASE FindOrder(r) \/ Read(r) \/ Reread(r) \/ LookForOrders(r)
    BY <2>1, UnseenTables
  <2>2. CASE NewOrder(r) \/ WriteStatus(r) \/ WriteTransfer(r) \/ WriteDelete(r)
             \/ CountActive(r)
    BY <2>2, NewOrderTables, WroteTables, CountTables
  <2>3. CASE AppendLine(r) \/ WriteHide(r) \/ WriteItem(r) \/ WriteQuantity(r)
    BY <2>3, SeenAlone, RowTables
  <2>4. CASE WriteTotal(r) \/ MarkTable(r)
    BY <2>4, SeenAlone, WriteTotalTables, MarkTables
  <2>5. CASE ClearOrders(r) \/ FreeAll(r) \/ FreeTable(r) \/ Dies(r)
    BY <2>5, SeenAlone, FreeTables
  <2>6. CASE Commit(r)
    BY <2>6, CommitTables
  <2> QED BY <1>2, <2>1, <2>2, <2>3, <2>4, <2>5, <2>6 DEF Proceed
<1> QED BY <1>1, <1>2, OutsideTables DEF Next

LEMMA InitTables == Init => TableInv
<1> SUFFICES ASSUME Init PROVE TableInv
  OBVIOUS
<1>1. \A r \in Requests : Followed(r)
  BY IdleIs DEF Init, Followed, Holds, OnLine
<1>2. \A t \in Tables : Agrees(t)
  BY DEF Init, Agrees, Busy, Occupies, Active
<1> QED BY <1>1, <1>2 DEF TableInv

LEMMA TableInvariance == Spec => [](IInv /\ Base /\ TableInv)
<1> DEFINE Inv == IInv /\ Base /\ TableInv
<1>1. Init => Inv
  BY InitIInv, InitBase, InitTables
<1>2. Inv /\ [Next]_vars => Inv'
  BY NextIInv, NextBase, NextTables
<1> QED BY <1>1, <1>2, PTL DEF Spec

\* Every operation that may seat or free a table looks after all the tables
\* concerned: without overlaps on it, a failure half-way or somebody setting
\* it by hand, a table is occupied exactly if an active order is on it.
THEOREM TablesRight == Spec => []TablesAgree
<1>1. IInv /\ Base /\ TableInv => TablesAgree
  <2> SUFFICES ASSUME IInv, Base, TableInv, NEW t \in Tables, Quiet(t)
               PROVE  Agrees(t)
    BY DEF TablesAgree, Agrees, Busy, Occupies
  <2>1. t \notin torn /\ \A r \in Requests : ~Seats(r, t)
    BY TouchedIs DEF Quiet, Has
  <2>2. \A r \in Requests : ~Pending(r, t)
    BY <2>1, FollowedSeats DEF TableInv
  <2> QED BY <2>1, <2>2 DEF TableInv
<1> QED BY <1>1, TableInvariance, PTL
=============================================================================
