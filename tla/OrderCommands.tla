---------------------------- MODULE OrderCommands ----------------------------
(***************************************************************************)
(* Creating orders: orderService.create, its transaction, and what the     *)
(* HTTP and socket handlers do after it.  A client sends a command under   *)
(* an idempotency key and sends it again whenever it got no answer; the    *)
(* requests run concurrently, at READ COMMITTED, and each may die at any   *)
(* point.                                                                  *)
(*                                                                         *)
(* A transaction is its statements up to the commit that makes its writes  *)
(* visible; the locks it holds on the way are those of its place in the    *)
(* code: the receipt of its key from the insert on, then the row of the    *)
(* table's open order or the day's counter.  Only the table of a payload   *)
(* is kept: two payloads of one key differ in it.  An order's other        *)
(* operations are OrderChanges here.                                       *)
(***************************************************************************)
EXTENDS Integers, FiniteSets

CONSTANTS
    Keys,           \* idempotency keys
    NoKey,          \* the key of a request that carries none
    Requests,       \* requests the API works on at the same time
    Tables,         \* restaurant tables
    Takeaway,       \* the payload of an order without a table
    None,           \* no receipt, no order, no ticket
    Conflict,       \* the answer 409: the key was used with another payload
    MaxOrders       \* bound: orders made in a behaviour

ASSUME MaxOrdersType == MaxOrders \in Nat \ {0}
ASSUME NoKeyIsNoKey == NoKey \notin Keys

Payload == Tables \cup {Takeaway}
OrderId == 1..MaxOrders

ASSUME NoOrderIds == None # Conflict /\ {None, Conflict} \cap OrderId = {}

VARIABLES
    orders,     \* orders[o]: the row of order o and the lines it holds
    receipts,   \* receipts[k]: the row of order_commands, once committed
    counter,    \* order_counters.value of the tenant and day
    tickets,    \* tickets[k]: the order whose kitchen ticket has the key of k
    stock,      \* stock[k]: times the lines of command k were deducted
    made,       \* orders made so far: their ids
    request,    \* request[r]: the handler of r and its transaction
    applied,    \* history: applied[k]: commits that applied command k
    forgotten   \* history: forgotten[k]: receipts of k gone with their order

tables == <<orders, receipts, counter, tickets, made>>
history == <<applied, forgotten>>
vars == <<tables, stock, request, history>>

State == {"open", "closed", "deleted"}
Order == [table : Payload, state : State, number : Nat, lines : [Keys -> Nat]]
Receipt == [payload : Payload, order : OrderId]
Place == {"idle", "insert", "find", "write", "commit", "effects", "reply",
          "replay"}
Request == [at : Place, key : Keys \cup {NoKey}, payload : Payload,
            found : OrderId \cup {None, Conflict}, number : Nat]

Idle == [at |-> "idle", key |-> NoKey, payload |-> Takeaway, found |-> None,
         number |-> 0]

ASSUME NoneIsNoRow == None \notin Order /\ None \notin Receipt

TypeOK ==
    /\ orders \in [OrderId -> Order \cup {None}]
    /\ receipts \in [Keys -> Receipt \cup {None}]
    /\ counter \in Nat
    /\ tickets \in [Keys -> OrderId \cup {None}]
    /\ stock \in [Keys -> Nat]
    /\ made \in 0..MaxOrders
    /\ request \in [Requests -> Request]
    /\ applied \in [Keys -> Nat]
    /\ forgotten \in [Keys -> Nat]

Init ==
    /\ orders = [o \in OrderId |-> None]
    /\ receipts = [k \in Keys |-> None]
    /\ counter = 0
    /\ tickets = [k \in Keys |-> None]
    /\ stock = [k \in Keys |-> 0]
    /\ made = 0
    /\ request = [r \in Requests |-> Idle]
    /\ applied = [k \in Keys |-> 0]
    /\ forgotten = [k \in Keys |-> 0]

-----------------------------------------------------------------------------
\* Locks

\* Mutants: the key is looked up and not locked; the counter is read first
\* and written with the order.
ReceiptSeen(r) == FALSE
CounterRead == FALSE

\* The transaction of r is under way: its receipt is inserted, not committed.
InTransaction(r) == request[r].at \in {"find", "write", "commit"}

ReceiptLocked(r) ==
    \E q \in Requests \ {r} : InTransaction(q) /\ request[q].key = request[r].key

\* Between its write and its commit a transaction holds what it wrote: the
\* row of the order it appends to, or the counter.
RowLocked(o) ==
    \E q \in Requests : request[q].at = "commit" /\ request[q].found = o

CounterLocked ==
    \E q \in Requests : request[q].at = "commit" /\ request[q].found = None

GoTo(r, place) == request' = [request EXCEPT ![r].at = place]
Leave(r) == request' = [request EXCEPT ![r] = Idle]

-----------------------------------------------------------------------------
\* The client: any number of times, also after it was answered.  Sending one
\* key with two payloads is a mistake of the client that the API must refuse.
Send(r, k, p) ==
    /\ request[r].at = "idle"
    /\ request' = [request EXCEPT ![r] =
          [Idle EXCEPT !.at = "insert", !.key = k, !.payload = p]]
    /\ UNCHANGED <<tables, stock, history>>

-----------------------------------------------------------------------------
\* The transaction of create()

\* The insert waits for a transaction that inserted the same key, and fails
\* with a unique conflict once that one has committed.
InsertReceipt(r) ==
    /\ request[r].at = "insert"
    /\ \/ /\ request[r].key = NoKey
          /\ GoTo(r, "find")
       \/ /\ request[r].key # NoKey
          /\ ~ReceiptLocked(r)
          /\ GoTo(r, IF receipts[request[r].key] = None THEN "find" ELSE "replay")
    /\ UNCHANGED <<tables, stock, history>>

OpenOrders(t) ==
    {o \in OrderId : orders[o] # None /\ orders[o].table = t
                     /\ orders[o].state = "open"}

\* findFirst takes any open order of the table, as committed now.
FindOpenOrder(r) ==
    /\ request[r].at = "find"
    /\ LET p == request[r].payload
       IN  \/ /\ p # Takeaway
              /\ \E o \in OpenOrders(p) :
                    request' = [request EXCEPT ![r].at = "write", ![r].found = o]
           \/ /\ p = Takeaway \/ OpenOrders(p) = {}
              /\ GoTo(r, "write")
    /\ UNCHANGED <<tables, stock, history>>

\* The increment of the order found, by its id: it may have been closed or
\* deleted meanwhile, and the update fails only if the row is gone.
AppendLines(r) ==
    LET o == request[r].found
    IN  /\ request[r].at = "write"
        /\ o # None
        /\ ~RowLocked(o)
        /\ IF orders[o] = None THEN Leave(r) ELSE GoTo(r, "commit")
        /\ UNCHANGED <<tables, stock, history>>

\* generateOrderNumber: the counter is incremented and its row locked, then
\* the order is inserted under the number returned.
NewOrder(r) ==
    /\ request[r].at = "write"
    /\ request[r].found = None
    /\ ~CounterLocked
    /\ made < MaxOrders
    /\ request' = [request EXCEPT ![r].at = "commit", ![r].number = counter + 1]
    /\ UNCHANGED <<tables, stock, history>>

\* Mutant: an append to an open order forgets the kitchen.
TicketedIfNew(k, o) == IF orders[o] = None THEN [tickets EXCEPT ![k] = o] ELSE tickets

\* The ticket row is upserted by a key made of k: one that is there stays.
Ticketed(k, o) == [tickets EXCEPT ![k] = IF @ = None THEN o ELSE @]

Line(k) == [i \in Keys |-> IF i = k THEN 1 ELSE 0]

\* The receipt gets its result and the kitchen its tickets before the commit:
\* all of it becomes visible at once.
Commit(r) ==
    LET k == request[r].key
        p == request[r].payload
        isNew == request[r].found = None
        o == IF isNew THEN made + 1 ELSE request[r].found
    IN  /\ request[r].at = "commit"
        /\ IF isNew
           THEN /\ orders' = [orders EXCEPT ![o] =
                      [table |-> p, state |-> "open",
                       number |-> request[r].number, lines |-> Line(k)]]
                /\ counter' = request[r].number
                /\ made' = made + 1
           ELSE /\ orders' = [orders EXCEPT ![o].lines =
                      [i \in Keys |-> @[i] + Line(k)[i]]]
                /\ UNCHANGED <<counter, made>>
        /\ IF k = NoKey
           THEN UNCHANGED <<receipts, tickets, applied>>
           ELSE /\ receipts' = [receipts EXCEPT ![k] = [payload |-> p, order |-> o]]
                /\ tickets' = Ticketed(k, o)
                /\ applied' = [applied EXCEPT ![k] = @ + 1]
        /\ request' = [request EXCEPT ![r].at = "effects", ![r].found = o]
        /\ UNCHANGED <<stock, forgotten>>

-----------------------------------------------------------------------------
\* After the commit

\* processCreatedOrder: the deduction is a transaction of its own; if it
\* fails, that is logged and the order stands.
DeductStock(r) ==
    /\ request[r].at = "effects"
    /\ LET k == request[r].key
       IN  \/ /\ k # NoKey
              /\ stock' = [stock EXCEPT ![k] = @ + 1]
           \/ UNCHANGED stock
    /\ GoTo(r, "reply")
    /\ UNCHANGED <<tables, history>>

\* Mutants: a replay goes through the effects again; it ignores the payload.
ReplayWithEffects(r) ==
    /\ request[r].at = "replay"
    /\ receipts[request[r].key] # None
    /\ request' = [request EXCEPT ![r].at = "effects",
                                 ![r].found = receipts[request[r].key].order]
    /\ UNCHANGED <<tables, stock, history>>

ReplayAnyPayload(r) ==
    /\ request[r].at = "replay"
    /\ receipts[request[r].key] # None
    /\ request' = [request EXCEPT ![r].at = "reply",
                                 ![r].found = receipts[request[r].key].order]
    /\ UNCHANGED <<tables, stock, history>>

\* loadIdempotentReplay, after the conflict: the same payload gets the first
\* result, another one is refused; a receipt that has gone meanwhile is an
\* error.
Replay(r) ==
    LET k == request[r].key
    IN  /\ request[r].at = "replay"
        /\ receipts[k] # None
        /\ request' = [request EXCEPT
              ![r].at = "reply",
              ![r].found = IF receipts[k].payload = request[r].payload
                           THEN receipts[k].order ELSE Conflict]
        /\ UNCHANGED <<tables, stock, history>>

\* The client gets the order found, or the refusal.  sync:offline_orders
\* answers before it deducts; nothing here tells the two orders apart.
Reply(r) ==
    /\ request[r].at = "reply"
    /\ Leave(r)
    /\ UNCHANGED <<tables, stock, history>>

\* A crash, a transaction timeout, an unknown menu item, a lost answer: what
\* is not committed is rolled back, what is committed stays.
Dies(r) ==
    /\ request[r].at # "idle"
    /\ Leave(r)
    /\ UNCHANGED <<tables, stock, history>>

-----------------------------------------------------------------------------
\* What else happens to orders

\* updateStatus, delete and toggleHide.
OrderChanges(o) ==
    /\ orders[o] # None
    /\ ~RowLocked(o)
    /\ \E s \in State \ {orders[o].state} :
          orders' = [orders EXCEPT ![o].state = s]
    /\ UNCHANGED <<receipts, counter, tickets, made, stock, request, history>>

\* deleteAll of the deleted: the rows go, and their receipts with them.
PurgeDeleted ==
    LET gone == {o \in OrderId : orders[o] # None /\ orders[o].state = "deleted"}
        lost == {k \in Keys : receipts[k] # None /\ receipts[k].order \in gone}
    IN  /\ gone # {}
        /\ \A o \in gone : ~RowLocked(o)
        /\ orders' = [o \in OrderId |-> IF o \in gone THEN None ELSE orders[o]]
        /\ receipts' = [k \in Keys |-> IF k \in lost THEN None ELSE receipts[k]]
        /\ forgotten' = [k \in Keys |->
                            IF k \in lost THEN forgotten[k] + 1 ELSE forgotten[k]]
        /\ UNCHANGED <<counter, tickets, made, stock, request, applied>>

-----------------------------------------------------------------------------
Proceed(r) ==
    \/ InsertReceipt(r) \/ FindOpenOrder(r) \/ AppendLines(r) \/ NewOrder(r)
    \/ Commit(r) \/ DeductStock(r) \/ Reply(r) \/ Replay(r)

Next ==
    \/ \E r \in Requests :
          \/ \E k \in Keys \cup {NoKey}, p \in Payload : Send(r, k, p)
          \/ Proceed(r) \/ Dies(r)
    \/ \E o \in OrderId : OrderChanges(o)
    \/ PurgeDeleted

Spec == Init /\ [][Next]_vars

-----------------------------------------------------------------------------
\* Properties

\* A command is applied at most once for each receipt it ever had, and its
\* lines are where its receipt says: in one order, once.  Concurrent retries
\* cannot both change an order, and a rollback leaves nothing behind.
CommandAppliedOnce ==
    \A k \in Keys :
        /\ applied[k] = forgotten[k] + IF receipts[k] = None THEN 0 ELSE 1
        /\ \A o \in OrderId : orders[o] # None =>
              orders[o].lines[k] =
                  IF receipts[k] # None /\ receipts[k].order = o THEN 1 ELSE 0

\* Concurrent commands get distinct, growing numbers: a new order's is above
\* that of every order there is, whatever became of them.
NumbersGrow ==
    [][\A o, i \in OrderId :
          orders[o] = None /\ orders'[o] # None /\ orders[i] # None =>
              orders'[o].number > orders[i].number]_vars

\* A replay takes nothing from the stock a second time.
StockDeductedOnce == \A k \in Keys : stock[k] <= applied[k]

\* As long as no receipt of a command was purged, every line has its kitchen
\* ticket: the two are committed together.
LinesHaveTicket ==
    \A o \in OrderId, k \in Keys :
        orders[o] # None /\ orders[o].lines[k] > 0 /\ forgotten[k] = 0 =>
            tickets[k] = o

\* An answer agrees with the receipt, also when another request applied the
\* command, concurrently: who is told of success is told of the order that
\* holds the lines, and only for the payload that was applied.
AnswersAgree ==
    \A r \in Requests :
        LET k == request[r].key
            o == request[r].found
        IN  /\ request[r].at \in {"effects", "reply"}
            /\ k \in Keys
            /\ forgotten[k] = 0
            => /\ receipts[k] # None
               /\ (o # Conflict) <=> (receipts[k].payload = request[r].payload)
               /\ o # Conflict => receipts[k].order = o
=============================================================================
