----------------------------- MODULE OrderLedger -----------------------------
(***************************************************************************)
(* What happens to an order once it is there: payments and status, changes *)
(* of its lines and the recalculation of its total, transfer, deletion,    *)
(* hiding, and the status of tables that follows.  Each operation is the   *)
(* statements of its method in order.service.ts, at READ COMMITTED: those  *)
(* of other requests come in between.  A transaction keeps what it wrote   *)
(* to itself, and locked, until it commits.                                *)
(*                                                                         *)
(* Of create() only the order and table are kept here; see OrderCommands.  *)
(* Every unit price is 1 and a command has one line.                       *)
(***************************************************************************)
EXTENDS Integers, FiniteSets, Sequences

CONSTANTS
    Orders, Lines, Tables, Requests,
    None,           \* no row, no table, no lock
    MaxQuantity,    \* bound: quantity of a line
    MaxAmount,      \* bound: one payment
    MaxStarts       \* bound: operations begun in a behaviour

ASSUME BoundsType == {MaxQuantity, MaxAmount, MaxStarts} \subseteq Nat \ {0}
ASSUME LinesFinite == IsFiniteSet(Lines)

VARIABLES
    orders,     \* orders[o]: a row of orders
    lines,      \* lines[l]: a row of order_items
    tables,     \* tables[t]: restaurant_tables.status
    tickets,    \* tickets[l]: cancellation tickets enqueued for line l
    request,    \* request[r]: the method r is in
    taken,      \* history: taken[o]: money that requests were told is paid
    cancels,    \* history: cancels[l]: times line l became cancelled
    torn,       \* history: orders and tables that no longer have to agree
    starts      \* operations begun

rows == <<orders, lines, tables, tickets>>
history == <<taken, cancels, torn>>
vars == <<rows, request, history, starts>>

-----------------------------------------------------------------------------
\* "PENDING" is every status that keeps an order active.
Status == {"PENDING", "COMPLETED", "CANCELLED"}
TableStatus == {"AVAILABLE", "OCCUPIED"}
Row == [table : Tables \cup {None}, status : Status, hidden : BOOLEAN,
        total : Nat, paid : Nat, payments : Nat]
Line == [order : Orders, quantity : 1..MaxQuantity, price : 0..MaxQuantity,
         cancelled : BOOLEAN, treat : BOOLEAN]

\* None is none of the values it stands in for.
ASSUME NoneType ==
    None \notin Orders \cup Lines \cup Tables \cup Row \cup Line \cup TableStatus

OnOrder == {"status", "item", "quantity", "transfer", "delete", "hide"}
Kind == OnOrder \cup {"none", "create", "clear", "cleanup"}
Place == {"idle", "find", "read", "write", "reread", "total", "count", "mark",
          "commit", "free"}

\* Parameters, then what the method read (row, old) or has yet to write (row,
\* marks), and the tables it still has to look after.
Request == [at : Place, kind : Kind,
            order : Orders \cup {None}, line : Lines \cup {None},
            table : Tables \cup {None}, status : Status, number : Nat,
            cancel : BOOLEAN, treat : BOOLEAN,
            row : Row \cup {None}, old : Line \cup {None},
            sync : Seq(Tables), active : BOOLEAN,
            marks : [Tables -> TableStatus \cup {None}]]

Idle == [at |-> "idle", kind |-> "none", order |-> None, line |-> None,
         table |-> None, status |-> "PENDING", number |-> 0, cancel |-> FALSE,
         treat |-> FALSE, row |-> None, old |-> None, sync |-> <<>>,
         active |-> FALSE, marks |-> [t \in Tables |-> None]]

TypeOK ==
    /\ orders \in [Orders -> Row \cup {None}]
    /\ lines \in [Lines -> Line \cup {None}]
    /\ tables \in [Tables -> TableStatus]
    /\ tickets \in [Lines -> Nat]
    /\ request \in [Requests -> Request]
    /\ taken \in [Orders -> Nat]
    /\ cancels \in [Lines -> Nat]
    /\ torn \subseteq Orders \cup Tables
    /\ starts \in 0..MaxStarts

Init ==
    /\ orders = [o \in Orders |-> None]
    /\ lines = [l \in Lines |-> None]
    /\ tables = [t \in Tables |-> "AVAILABLE"]
    /\ tickets = [l \in Lines |-> 0]
    /\ request = [r \in Requests |-> Idle]
    /\ taken = [o \in Orders |-> 0]
    /\ cancels = [l \in Lines |-> 0]
    /\ torn = {}
    /\ starts = 0

-----------------------------------------------------------------------------
\* Locks, and what a statement sees

\* After its write a transaction of these kinds holds the order's row.
InTransaction(q) ==
    /\ request[q].kind \in {"create", "status", "transfer", "delete"}
    /\ request[q].at \in {"count", "mark", "commit"}

RowLocked(o) == \E q \in Requests : InTransaction(q) /\ request[q].order = o

TableLocked(t) == \E q \in Requests : InTransaction(q) /\ request[q].marks[t] # None

View(r, o) ==
    IF InTransaction(r) /\ request[r].order = o THEN request[r].row ELSE orders[o]

Active(row) == row # None /\ row.status = "PENDING" /\ ~row.hidden

LinesOf(o) == {l \in Lines : lines[l] # None /\ lines[l].order = o}
Charged(o) == {l \in LinesOf(o) : ~lines[l].cancelled}

\* The sum of the prices of some lines, counted unit by unit.
Sum(some) == Cardinality({u \in Lines \X (1..MaxQuantity) :
                             u[1] \in some /\ u[2] <= lines[u[1]].price})
Due(o) == Sum(Charged(o))

\* What a request works on: its order and the tables that depend on it.
Touched(q) ==
    LET at == CASE q.kind = "clear" -> Orders \cup Tables
                [] q.kind = "create" -> {q.order, q.table} \cup
                      {o \in Orders : orders[o] # None /\ orders[o].table = q.table}
                [] q.kind \in OnOrder -> {q.order, q.table, orders[q.order].table}
                [] OTHER -> {q.table}
    IN  at \ {None}

-----------------------------------------------------------------------------
\* A request begins; what it shares with one under way is torn.
Start(r, q) ==
    /\ request[r].at = "idle"
    /\ starts < MaxStarts
    /\ starts' = starts + 1
    /\ request' = [request EXCEPT ![r] = q]
    /\ LET shared == {p \in Requests \ {r} :
                         Touched(request[p]) \cap Touched(q) # {}}
       IN  torn' = torn \cup UNION {Touched(request[p]) \cup Touched(q) : p \in shared}
    /\ UNCHANGED <<rows, taken, cancels>>

StartCreate(r) ==
    \E t \in Tables \cup {None}, takeaway \in BOOLEAN, l \in Lines :
        /\ lines[l] = None
        /\ \A q \in Requests : request[q].line # l
        /\ Start(r, [Idle EXCEPT
              !.at = IF t = None \/ takeaway THEN "write" ELSE "find",
              !.kind = "create", !.table = t, !.line = l])

StartOnOrder(r) ==
    \E o \in Orders :
        /\ orders[o] # None
        /\ LET q == [Idle EXCEPT !.at = "read", !.order = o]
           IN  \/ \E s \in Status, n \in 0..MaxAmount :
                     Start(r, [q EXCEPT !.kind = "status", !.status = s, !.number = n])
               \/ \E t \in Tables : Start(r, [q EXCEPT !.kind = "transfer", !.table = t])
               \/ Start(r, [q EXCEPT !.kind = "delete", !.at = "write"])
               \/ Start(r, [q EXCEPT !.kind = "hide"])

StartOnLine(r) ==
    \E l \in Lines :
        /\ lines[l] # None
        /\ LET q == [Idle EXCEPT !.at = "read", !.line = l, !.order = lines[l].order]
           IN  \/ \E c, x \in BOOLEAN :
                     Start(r, [q EXCEPT !.kind = "item", !.cancel = c, !.treat = x])
               \/ \E n \in 1..MaxQuantity :
                     Start(r, [q EXCEPT !.kind = "quantity", !.number = n])

StartClear(r) == Start(r, [Idle EXCEPT !.at = "write", !.kind = "clear"])

\* The cleanup has read t as OCCUPIED and not changed for two hours.
StartCleanup(r) ==
    \E t \in Tables :
        /\ tables[t] = "OCCUPIED"
        /\ Start(r, [Idle EXCEPT !.at = "find", !.kind = "cleanup", !.table = t])

\* Staff set a table's status, or seat the guests of a reservation.
SetTable(t, s) ==
    /\ starts < MaxStarts
    /\ ~TableLocked(t)
    /\ starts' = starts + 1
    /\ tables' = [tables EXCEPT ![t] = s]
    /\ torn' = torn \cup {t}
    /\ UNCHANGED <<orders, lines, tickets, request, taken, cancels>>

-----------------------------------------------------------------------------
\* Steps

\* To a place, with what was read.
To(r, q) == request' = [request EXCEPT ![r] = q]
Done(r) == To(r, Idle)

\* The write of a transaction is done: the tables in sync come next.
Wrote(r, row, sync) ==
    To(r, [request[r] EXCEPT !.at = IF sync = <<>> THEN "commit" ELSE "count",
                             !.row = row, !.sync = sync])

SyncOf(row) == IF row.table = None THEN <<>> ELSE <<row.table>>

FindOrder(r) ==
    LET q == request[r]
        found == {o \in Orders : Active(orders[o]) /\ orders[o].table = q.table}
    IN  /\ q.at = "find" /\ q.kind = "create"
        /\ \/ \E o \in found : To(r, [q EXCEPT !.at = "write", !.order = o])
           \/ found = {} /\ To(r, [q EXCEPT !.at = "write"])
        /\ UNCHANGED <<rows, history, starts>>

NewLine(o) == [order |-> o, quantity |-> 1, price |-> 1, cancelled |-> FALSE,
               treat |-> FALSE]

\* An append is committed with its increment: no table changes.
AppendLine(r) ==
    LET q == request[r]
    IN  /\ q.at = "write" /\ q.kind = "create" /\ q.order # None
        /\ ~RowLocked(q.order)
        /\ orders' = [orders EXCEPT ![q.order].total = @ + 1]
        /\ lines' = [lines EXCEPT ![q.line] = NewLine(q.order)]
        /\ Done(r)
        /\ UNCHANGED <<tables, tickets, history, starts>>

NewOrder(r) ==
    LET q == request[r]
        row == [table |-> q.table, status |-> "PENDING", hidden |-> FALSE,
                total |-> 1, paid |-> 0, payments |-> 0]
    IN  /\ q.at = "write" /\ q.kind = "create" /\ q.order = None
        /\ \E o \in Orders :
              /\ orders[o] = None
              /\ \A p \in Requests : request[p].order # o
              /\ To(r, [q EXCEPT !.order = o, !.row = row, !.sync = SyncOf(row),
                                 !.at = IF q.table = None THEN "commit" ELSE "count"])
        /\ UNCHANGED <<rows, history, starts>>

\* The first read of updateStatus, transferTable, toggleHide and the item's.
Read(r) ==
    LET q == request[r]
    IN  /\ q.at = "read"
        /\ To(r, [q EXCEPT !.at = "write", !.row = orders[q.order],
                           !.old = IF q.line = None THEN None ELSE lines[q.line]])
        /\ UNCHANGED <<rows, history, starts>>

\* A payment is added to what was read, and completes what it covers.
Paid(q) ==
    LET paid == q.row.paid + q.number
    IN  CASE q.number = 0 -> q.status
          [] q.number > 0 /\ paid >= q.row.total -> "COMPLETED"
          [] OTHER -> IF q.status = "COMPLETED" THEN "PENDING" ELSE q.status

\* Mutants: the amount is an increment of the row, the list is not; the
\* table is left to the next operation.
WriteStatusAtomicSum(r) ==
    LET q == request[r]
        row == [orders[q.order] EXCEPT !.status = Paid(q), !.paid = @ + q.number,
                                       !.payments = q.row.payments + q.number]
    IN  /\ q.at = "write" /\ q.kind = "status"
        /\ ~RowLocked(q.order)
        /\ Wrote(r, row, SyncOf(row))
        /\ UNCHANGED <<rows, history, starts>>

WriteStatusOnly(r) ==
    LET q == request[r]
        row == [orders[q.order] EXCEPT !.status = Paid(q),
                                       !.paid = q.row.paid + q.number,
                                       !.payments = q.row.payments + q.number]
    IN  /\ q.at = "write" /\ q.kind = "status"
        /\ ~RowLocked(q.order)
        /\ Wrote(r, row, <<>>)
        /\ UNCHANGED <<rows, history, starts>>

WriteStatus(r) ==
    LET q == request[r]
        row == [orders[q.order] EXCEPT !.status = Paid(q),
                                       !.paid = q.row.paid + q.number,
                                       !.payments = q.row.payments + q.number]
    IN  /\ q.at = "write" /\ q.kind = "status"
        /\ ~RowLocked(q.order)
        /\ Wrote(r, row, SyncOf(row))
        /\ UNCHANGED <<rows, history, starts>>

\* A takeaway, or the table it is on already, is refused.
WriteTransfer(r) ==
    LET q == request[r]
    IN  /\ q.at = "write" /\ q.kind = "transfer"
        /\ ~RowLocked(q.order)
        /\ IF q.row.table \in {None, q.table}
           THEN Done(r)
           ELSE Wrote(r, [orders[q.order] EXCEPT !.table = q.table],
                      <<q.table, q.row.table>>)
        /\ UNCHANGED <<rows, history, starts>>

WriteDelete(r) ==
    LET q == request[r]
        row == [orders[q.order] EXCEPT !.hidden = TRUE, !.status = "CANCELLED"]
    IN  /\ q.at = "write" /\ q.kind = "delete"
        /\ ~RowLocked(q.order)
        /\ Wrote(r, row, SyncOf(row))
        /\ UNCHANGED <<rows, history, starts>>

\* No table is looked after: one whose order is hidden keeps its status.
WriteHide(r) ==
    LET q == request[r]
    IN  /\ q.at = "write" /\ q.kind = "hide"
        /\ ~RowLocked(q.order)
        /\ orders' = [orders EXCEPT ![q.order].hidden = ~q.row.hidden]
        /\ torn' = torn \cup (Tables \cap {orders[q.order].table})
        /\ Done(r)
        /\ UNCHANGED <<lines, tables, tickets, taken, cancels, starts>>

\* The trigger goes by the status that was read.  Mutant: the item is read
\* after the update.
TriggerAfterWrite(q) == LET old == [q.old EXCEPT !.cancelled = q.cancel]
                        IN  q.cancel /\ ~old.cancelled
Trigger(q) == q.cancel /\ ~q.old.cancelled

\* A line's status and notes; notes without the mark end a treat.
WriteItem(r) ==
    LET q == request[r]
        now == lines[q.line]
        treat == q.treat \/ (now.treat /\ ~q.old.treat)
        price == CASE q.treat -> 0
                   [] ~q.treat /\ q.old.treat -> q.old.quantity
                   [] OTHER -> now.price
    IN  /\ q.at = "write" /\ q.kind = "item"
        /\ lines' = [lines EXCEPT ![q.line] =
              [now EXCEPT !.cancelled = q.cancel, !.treat = treat, !.price = price]]
        /\ tickets' = [tickets EXCEPT ![q.line] = IF Trigger(q) THEN @ + 1 ELSE @]
        /\ cancels' = [cancels EXCEPT ![q.line] =
              IF q.cancel /\ ~now.cancelled THEN @ + 1 ELSE @]
        /\ To(r, [q EXCEPT !.at = "reread"])
        /\ UNCHANGED <<orders, tables, taken, torn, starts>>

WriteQuantity(r) ==
    LET q == request[r]
    IN  /\ q.at = "write" /\ q.kind = "quantity"
        /\ lines' = [lines EXCEPT ![q.line].quantity = q.number,
              ![q.line].price = IF q.old.treat THEN 0 ELSE q.number]
        /\ To(r, [q EXCEPT !.at = "reread"])
        /\ UNCHANGED <<orders, tables, tickets, history, starts>>

\* recalculateOrderTotals, outside of any transaction: one read (the queries
\* of a findFirst with includes are taken as one), ...
\* Mutant: cancelled lines count.
RereadAll(r) ==
    LET q == request[r]
    IN  /\ q.at = "reread"
        /\ To(r, [q EXCEPT !.at = "total", !.row =
              [orders[q.order] EXCEPT
                  !.total = Sum(LinesOf(q.order)),
                  !.status = IF Charged(q.order) = {} THEN "CANCELLED" ELSE @]])
        /\ UNCHANGED <<rows, history, starts>>

Reread(r) ==
    LET q == request[r]
    IN  /\ q.at = "reread"
        /\ To(r, [q EXCEPT !.at = "total", !.row =
              [orders[q.order] EXCEPT
                  !.total = Due(q.order),
                  !.status = IF Charged(q.order) = {} THEN "CANCELLED" ELSE @]])
        /\ UNCHANGED <<rows, history, starts>>

\* ... then the write of total and status, and the table it was on.
WriteTotal(r) ==
    LET q == request[r]
    IN  /\ q.at = "total"
        /\ ~RowLocked(q.order)
        /\ orders' = [orders EXCEPT ![q.order].total = q.row.total,
                                    ![q.order].status = q.row.status]
        /\ IF q.row.table = None
           THEN Done(r)
           ELSE To(r, [q EXCEPT !.at = "count", !.sync = <<q.row.table>>])
        /\ UNCHANGED <<lines, tables, tickets, history, starts>>

\* syncTableStatus: the count ...
CountActive(r) ==
    LET q == request[r]
    IN  /\ q.at = "count"
        /\ To(r, [q EXCEPT !.at = "mark", !.active =
              \E o \in Orders : Active(View(r, o)) /\ View(r, o).table = Head(q.sync)])
        /\ UNCHANGED <<rows, history, starts>>

\* ... and the update, kept to itself by a transaction.
MarkTable(r) ==
    LET q == request[r]
        t == Head(q.sync)
        s == IF q.active THEN "OCCUPIED" ELSE "AVAILABLE"
        next == [q EXCEPT !.sync = Tail(@)]
    IN  /\ q.at = "mark"
        /\ ~TableLocked(t)
        /\ IF InTransaction(r)
           THEN /\ To(r, [next EXCEPT !.marks[t] = s,
                          !.at = IF Tail(q.sync) = <<>> THEN "commit" ELSE "count"])
                /\ UNCHANGED tables
           ELSE /\ tables' = [tables EXCEPT ![t] = s]
                /\ Done(r)
        /\ UNCHANGED <<orders, lines, tickets, history, starts>>

Commit(r) ==
    LET q == request[r]
    IN  /\ q.at = "commit"
        /\ orders' = [orders EXCEPT ![q.order] = q.row]
        /\ tables' = [t \in Tables |->
              IF q.marks[t] = None THEN tables[t] ELSE q.marks[t]]
        /\ lines' = IF q.kind = "create"
                    THEN [lines EXCEPT ![q.line] = NewLine(q.order)]
                    ELSE lines
        /\ taken' = [taken EXCEPT ![q.order] = @ + q.number]
        /\ Done(r)
        /\ UNCHANGED <<tickets, cancels, torn, starts>>

\* deleteAll: two statements, without a transaction.
ClearOrders(r) ==
    LET q == request[r]
        shown == {o \in Orders : orders[o] # None /\ ~orders[o].hidden}
    IN  /\ q.at = "write" /\ q.kind = "clear"
        /\ \A o \in shown : ~RowLocked(o)
        /\ orders' = [o \in Orders |->
              IF o \in shown
              THEN [orders[o] EXCEPT !.hidden = TRUE, !.status = "CANCELLED"]
              ELSE orders[o]]
        /\ To(r, [q EXCEPT !.at = "free"])
        /\ UNCHANGED <<lines, tables, tickets, history, starts>>

FreeAll(r) ==
    /\ request[r].at = "free" /\ request[r].kind = "clear"
    /\ \A t \in Tables : ~TableLocked(t)
    /\ tables' = [t \in Tables |-> "AVAILABLE"]
    /\ Done(r)
    /\ UNCHANGED <<orders, lines, tickets, history, starts>>

\* The cleanup leaves a table with an open order alone.
LookForOrders(r) ==
    LET q == request[r]
    IN  /\ q.at = "find" /\ q.kind = "cleanup"
        /\ IF \E o \in Orders : Active(orders[o]) /\ orders[o].table = q.table
           THEN Done(r)
           ELSE To(r, [q EXCEPT !.at = "free"])
        /\ UNCHANGED <<rows, history, starts>>

FreeTable(r) ==
    LET q == request[r]
    IN  /\ q.at = "free" /\ q.kind = "cleanup"
        /\ ~TableLocked(q.table)
        /\ tables' = [tables EXCEPT ![q.table] = "AVAILABLE"]
        /\ Done(r)
        /\ UNCHANGED <<orders, lines, tickets, history, starts>>

\* A failure rolls a transaction back, and PostgreSQL ends a deadlock by one;
\* what is committed half-way stays so.
Dies(r) ==
    /\ request[r].at # "idle"
    /\ torn' = IF request[r].at \in {"reread", "total", "free"}
                  \/ (request[r].at \in {"count", "mark"} /\ ~InTransaction(r))
               THEN torn \cup Touched(request[r]) ELSE torn
    /\ Done(r)
    /\ UNCHANGED <<rows, taken, cancels, starts>>

-----------------------------------------------------------------------------
Begin(r) ==
    \/ StartCreate(r) \/ StartOnOrder(r) \/ StartOnLine(r) \/ StartClear(r)
    \/ StartCleanup(r)

Proceed(r) ==
    \/ FindOrder(r) \/ AppendLine(r) \/ NewOrder(r) \/ Read(r) \/ WriteStatus(r)
    \/ WriteTransfer(r) \/ WriteDelete(r) \/ WriteHide(r) \/ WriteItem(r)
    \/ WriteQuantity(r) \/ Reread(r) \/ WriteTotal(r) \/ CountActive(r)
    \/ MarkTable(r) \/ Commit(r) \/ ClearOrders(r) \/ FreeAll(r)
    \/ LookForOrders(r) \/ FreeTable(r)

Next ==
    \/ \E r \in Requests : Begin(r) \/ Proceed(r) \/ Dies(r)
    \/ \E t \in Tables, s \in TableStatus : SetTable(t, s)

Spec == Init /\ [][Next]_vars

-----------------------------------------------------------------------------
\* Properties

Quiet(x) == x \notin torn /\ \A r \in Requests : x \notin Touched(request[r])

\* Whatever overlaps, what an order says is paid is what its payments add up
\* to, and no payment appears that nobody made: updateStatus writes both from
\* one read.
PaidIsPayments ==
    \A o \in Orders : orders[o] # None =>
        /\ orders[o].paid = orders[o].payments
        /\ orders[o].paid <= taken[o]

\* Without overlaps and half-done requests, whatever the operations and their
\* order, the total is that of the lines: increments of appends and
\* recalculations agree.
TotalsAgree ==
    \A o \in Orders : orders[o] # None /\ Quiet(o) =>
        /\ orders[o].total = Due(o)
        /\ \A l \in LinesOf(o) :
              lines[l].price = IF lines[l].treat THEN 0 ELSE lines[l].quantity

\* In the same circumstances a table is occupied exactly if it has an active
\* order: every operation that may change that looks after every table
\* concerned.  Hiding is the exception, and tears its table, as setting a
\* table's status by hand does.
TablesAgree ==
    \A t \in Tables : Quiet(t) =>
        (tables[t] = "OCCUPIED" <=>
            \E o \in Orders : Active(orders[o]) /\ orders[o].table = t)

\* A line that the kitchen should not cook has had its cancellation ticket:
\* the ticket is enqueued in the transaction that cancels.
CancelledHasTicket ==
    \A l \in Lines : lines[l] # None /\ lines[l].cancelled => tickets[l] > 0

\* "Repeated cancel requests produce only ONE ticket": a ticket is printed
\* only when the line really changes.
OneTicketPerCancel == \A l \in Lines : tickets[l] <= cancels[l]
=============================================================================
