------------------------- MODULE OrderCommandsProofs -------------------------
(***************************************************************************)
(* What order creation guarantees for any number of keys, tables, orders   *)
(* and concurrent requests.  IInv adds to the properties what the locks    *)
(* guarantee between two statements of a transaction.                      *)
(***************************************************************************)
EXTENDS OrderCommands, FiniteSetTheorems, TLAPS

\* Orders have ids and numbers that were given out.
IdInv ==
    \A o \in OrderId : orders[o] # None =>
        o <= made /\ orders[o].number <= counter

\* What a request has found, place by place.
Found(m) ==
    /\ m.at \in {"insert", "find", "replay"} => m.found = None
    /\ m.at = "replay" => m.key \in Keys
    /\ m.at = "write" => m.found # Conflict
    /\ m.at = "commit" =>
          IF m.found = None
          THEN made < MaxOrders /\ m.number = counter + 1
          ELSE m.found \in OrderId /\ orders[m.found] # None
    /\ m.at = "effects" => m.found \in OrderId

FoundInv == \A r \in Requests : Found(request[r])

\* The counter's row is locked by one transaction, the receipt of a key by
\* one; while it is, no receipt of that key is committed.
LockInv ==
    /\ \A r, q \in Requests :
          /\ request[r].at = "commit" /\ request[r].found = None
          /\ request[q].at = "commit" /\ request[q].found = None
          => r = q
    /\ \A r \in Requests : InTransaction(r) /\ request[r].key \in Keys =>
          receipts[request[r].key] = None /\ ~ReceiptLocked(r)

\* A receipt names an order that is there.
ReceiptInv == \A k \in Keys : receipts[k] # None => orders[receipts[k].order] # None

\* The ticket of a command is that of its receipt.
TicketInv ==
    \A k \in Keys : forgotten[k] = 0 =>
        tickets[k] = IF receipts[k] = None THEN None ELSE receipts[k].order

IInv ==
    /\ TypeOK
    /\ IdInv
    /\ FoundInv
    /\ LockInv
    /\ ReceiptInv
    /\ TicketInv
    /\ CommandAppliedOnce
    /\ AnswersAgree

-----------------------------------------------------------------------------
\* The initial state satisfies the inductive invariant.
LEMMA InitIInv == Init => IInv
<1> SUFFICES ASSUME Init PROVE IInv
  OBVIOUS
<1> USE MaxOrdersType DEF Init
<1>1. TypeOK
  BY DEF TypeOK, Request, Idle, Place, Payload
<1>2. IdInv /\ ReceiptInv /\ TicketInv
  BY DEF IdInv, ReceiptInv, TicketInv
<1>3. FoundInv /\ LockInv /\ AnswersAgree
  BY DEF FoundInv, Found, LockInv, InTransaction, AnswersAgree, Idle
<1>4. CommandAppliedOnce
  BY DEF CommandAppliedOnce
<1> QED BY <1>1, <1>2, <1>3, <1>4 DEF IInv

-----------------------------------------------------------------------------
\* Steps of a request that leave the tables alone.

\* What a step of r to the place m must have made sure of: no other
\* transaction has the locks it holds there, and its answer is the receipt's.
MayBe(r, m) ==
    /\ Found(m)
    /\ m.at = "commit" /\ m.found = None => ~CounterLocked
    /\ m.at \in {"find", "write", "commit"} /\ m.key \in Keys =>
          /\ receipts[m.key] = None
          /\ \A q \in Requests \ {r} : InTransaction(q) => request[q].key # m.key
    /\ m.at \in {"effects", "reply"} /\ m.key \in Keys /\ forgotten[m.key] = 0 =>
          /\ receipts[m.key] # None
          /\ (m.found # Conflict) <=> (receipts[m.key].payload = m.payload)
          /\ m.found # Conflict => receipts[m.key].order = m.found

LEMMA MoveIInv ==
    ASSUME IInv, NEW r \in Requests, NEW m \in Request, MayBe(r, m),
           request' = [request EXCEPT ![r] = m],
           UNCHANGED <<tables, history>>, stock' \in [Keys -> Nat]
    PROVE  IInv'
<1>a. request'[r] = m /\ \A q \in Requests \ {r} : request'[q] = request[q]
  BY DEF IInv, TypeOK
<1>t. /\ UNCHANGED <<orders, receipts, counter, tickets, made>>
      /\ UNCHANGED <<applied, forgotten>>
  BY DEF tables, history
<1>1. TypeOK'
  BY <1>t DEF IInv, TypeOK
<1>2. FoundInv'
  BY <1>a, <1>t DEF IInv, FoundInv, Found, MayBe
<1>3. LockInv'
  <2>1. ASSUME NEW p \in Requests, NEW q \in Requests,
               request'[p].at = "commit", request'[p].found = None,
               request'[q].at = "commit", request'[q].found = None
        PROVE  p = q
    BY <1>a, <2>1 DEF IInv, LockInv, MayBe, CounterLocked
  <2>2. ASSUME NEW p \in Requests, InTransaction(p)', request'[p].key \in Keys
        PROVE  receipts'[request'[p].key] = None /\ ~ReceiptLocked(p)'
    BY <1>a, <1>t, <2>2 DEF IInv, LockInv, MayBe, InTransaction, ReceiptLocked
  <2> QED BY <2>1, <2>2 DEF LockInv
<1>4. AnswersAgree'
  BY <1>a, <1>t DEF IInv, AnswersAgree, MayBe
<1>5. IdInv' /\ ReceiptInv' /\ TicketInv' /\ CommandAppliedOnce'
  BY <1>t DEF IInv, IdInv, ReceiptInv, TicketInv, CommandAppliedOnce
<1> QED BY <1>1, <1>2, <1>3, <1>4, <1>5 DEF IInv

LEMMA SendIInv ==
    ASSUME IInv, NEW r \in Requests, NEW k \in Keys \cup {NoKey},
           NEW p \in Payload, Send(r, k, p)
    PROVE  IInv'
<1> DEFINE m == [Idle EXCEPT !.at = "insert", !.key = k, !.payload = p]
<1>1. m \in Request /\ m.at = "insert" /\ m.found = None
  BY DEF Request, Idle, Place
<1>2. MayBe(r, m)
  BY <1>1 DEF MayBe, Found
<1>3. /\ request' = [request EXCEPT ![r] = m]
      /\ UNCHANGED <<tables, history>> /\ stock' \in [Keys -> Nat]
  BY DEF Send, IInv, TypeOK
<1> QED BY <1>1, <1>2, <1>3, MoveIInv

LEMMA DiesIInv ==
    ASSUME IInv, NEW r \in Requests, Dies(r)
    PROVE  IInv'
<1>1. Idle \in Request /\ Idle.at = "idle"
  BY DEF Request, Idle, Place, Payload
<1>2. MayBe(r, Idle)
  BY <1>1 DEF MayBe, Found
<1>3. /\ request' = [request EXCEPT ![r] = Idle]
      /\ UNCHANGED <<tables, history>> /\ stock' \in [Keys -> Nat]
  BY DEF Dies, Leave, IInv, TypeOK
<1> QED BY <1>1, <1>2, <1>3, MoveIInv

LEMMA ReplyIInv ==
    ASSUME IInv, NEW r \in Requests, Reply(r)
    PROVE  IInv'
<1>1. Dies(r)
  BY DEF Reply, Dies
<1> QED BY <1>1, DiesIInv

\* A step to another place that finds nothing new.
LEMMA GoToMoves ==
    ASSUME IInv, NEW r \in Requests, NEW place \in Place, GoTo(r, place)
    PROVE  LET m == [request[r] EXCEPT !.at = place]
           IN  /\ m \in Request /\ request' = [request EXCEPT ![r] = m]
               /\ m.at = place /\ m.key = request[r].key
               /\ m.payload = request[r].payload /\ m.found = request[r].found
               /\ m.number = request[r].number
BY DEF IInv, TypeOK, Request, GoTo

LEMMA InsertReceiptIInv ==
    ASSUME IInv, NEW r \in Requests, InsertReceipt(r)
    PROVE  IInv'
<1> DEFINE m(place) == [request[r] EXCEPT !.at = place]
<1>u. UNCHANGED <<tables, history>> /\ stock' \in [Keys -> Nat]
  BY DEF InsertReceipt, IInv, TypeOK
<1>f. request[r].found = None /\ request[r].key \in Keys \cup {NoKey}
  BY DEF InsertReceipt, IInv, FoundInv, Found, TypeOK, Request
<1>1. CASE GoTo(r, "find") /\ (request[r].key \in Keys =>
                 receipts[request[r].key] = None /\ ~ReceiptLocked(r))
  <2>1. "find" \in Place
    BY DEF Place
  <2>2. MayBe(r, m("find"))
    BY <1>1, <1>f, <2>1, GoToMoves DEF MayBe, Found, ReceiptLocked
  <2> QED BY <1>1, <1>u, <2>1, <2>2, GoToMoves, MoveIInv
<1>2. CASE GoTo(r, "replay") /\ request[r].key \in Keys
  <2>1. "replay" \in Place
    BY DEF Place
  <2>2. MayBe(r, m("replay"))
    BY <1>2, <1>f, <2>1, GoToMoves DEF MayBe, Found
  <2> QED BY <1>2, <1>u, <2>1, <2>2, GoToMoves, MoveIInv
<1> QED BY <1>1, <1>2, <1>f, NoKeyIsNoKey DEF InsertReceipt

LEMMA FindOpenOrderIInv ==
    ASSUME IInv, NEW r \in Requests, FindOpenOrder(r)
    PROVE  IInv'
<1>u. UNCHANGED <<tables, history>> /\ stock' \in [Keys -> Nat]
  BY DEF FindOpenOrder, IInv, TypeOK
<1>f. /\ request[r] \in Request /\ request[r].at = "find"
      /\ request[r].found = None
  BY DEF FindOpenOrder, IInv, FoundInv, Found, TypeOK
<1>0. PICK f \in OrderId \cup {None} :
        request' = [request EXCEPT ![r] = [request[r] EXCEPT !.at = "write",
                                                             !.found = f]]
  <2>2. CASE \E o \in OpenOrders(request[r].payload) :
                request' = [request EXCEPT ![r].at = "write", ![r].found = o]
    BY <2>2 DEF IInv, TypeOK, OpenOrders
  <2>3. CASE GoTo(r, "write")
    <3>1. [request[r] EXCEPT !.at = "write"]
             = [request[r] EXCEPT !.at = "write", !.found = None]
      BY <1>f DEF Request
    <3> QED BY <2>3, <3>1 DEF GoTo
  <2> QED BY <2>2, <2>3 DEF FindOpenOrder
<1> DEFINE m == [request[r] EXCEPT !.at = "write", !.found = f]
<1>1. /\ m \in Request /\ m.at = "write" /\ m.found = f
      /\ m.key = request[r].key
  BY <1>f DEF Request, Place
<1>2. request[r].key \in Keys =>
         receipts[request[r].key] = None /\ ~ReceiptLocked(r)
  BY <1>f DEF IInv, LockInv, InTransaction
<1> HIDE DEF m
<1>3. MayBe(r, m)
  BY <1>1, <1>2, NoOrderIds DEF MayBe, Found, ReceiptLocked
<1> QED BY <1>0, <1>1, <1>3, <1>u, MoveIInv DEF m

LEMMA AppendLinesIInv ==
    ASSUME IInv, NEW r \in Requests, AppendLines(r)
    PROVE  IInv'
<1>1. CASE orders[request[r].found] = None
  BY <1>1, DiesIInv DEF AppendLines, Dies
<1>2. CASE orders[request[r].found] # None
  <2>u. UNCHANGED <<tables, history>> /\ stock' \in [Keys -> Nat]
    BY DEF AppendLines, IInv, TypeOK
  <2>f. /\ request[r].at = "write" /\ request[r].found # None
        /\ request[r].found \in OrderId
    BY DEF AppendLines, IInv, FoundInv, Found, TypeOK, Request
  <2>g. GoTo(r, "commit") /\ "commit" \in Place
    BY <1>2 DEF AppendLines, Place
  <2>1. request[r].key \in Keys =>
           receipts[request[r].key] = None /\ ~ReceiptLocked(r)
    BY <2>f DEF IInv, LockInv, InTransaction
  <2>2. MayBe(r, [request[r] EXCEPT !.at = "commit"])
    BY <1>2, <2>f, <2>g, <2>1, GoToMoves DEF MayBe, Found, ReceiptLocked
  <2> QED BY <2>u, <2>g, <2>2, GoToMoves, MoveIInv
<1> QED BY <1>1, <1>2

LEMMA NewOrderIInv ==
    ASSUME IInv, NEW r \in Requests, NewOrder(r)
    PROVE  IInv'
<1> DEFINE m == [request[r] EXCEPT !.at = "commit", !.number = counter + 1]
<1>u. UNCHANGED <<tables, history>> /\ stock' \in [Keys -> Nat]
  BY DEF NewOrder, IInv, TypeOK
<1>a. request' = [request EXCEPT ![r] = m] /\ request[r] \in Request
  BY DEF IInv, TypeOK, NewOrder
<1>b. counter + 1 \in Nat /\ made < MaxOrders
  BY MaxOrdersType DEF IInv, TypeOK, NewOrder
<1>c. /\ m \in Request /\ m.at = "commit" /\ m.found = None
      /\ m.number = counter + 1 /\ m.key = request[r].key
  BY <1>a, <1>b DEF NewOrder, Request, Place
<1>d. request[r].key \in Keys =>
         receipts[request[r].key] = None /\ ~ReceiptLocked(r)
  BY DEF NewOrder, IInv, LockInv, InTransaction
<1> HIDE DEF m
<1>1. MayBe(r, m)
  BY <1>b, <1>c, <1>d DEF NewOrder, MayBe, Found, ReceiptLocked
<1> QED BY <1>u, <1>a, <1>c, <1>1, MoveIInv

LEMMA ReplayIInv ==
    ASSUME IInv, NEW r \in Requests, Replay(r)
    PROVE  IInv'
<1> DEFINE k == request[r].key
           answer == IF receipts[k].payload = request[r].payload
                     THEN receipts[k].order ELSE Conflict
           m == [request[r] EXCEPT !.at = "reply", !.found = answer]
<1>u. UNCHANGED <<tables, history>> /\ stock' \in [Keys -> Nat]
  BY DEF Replay, IInv, TypeOK
<1>a. request' = [request EXCEPT ![r] = m] /\ request[r] \in Request
  BY DEF IInv, TypeOK, Replay
<1>k. k \in Keys /\ receipts[k] \in Receipt /\ receipts[k] # None
  BY DEF IInv, TypeOK, FoundInv, Found, Replay
<1>b. /\ answer \in OrderId \cup {Conflict}
      /\ (answer # Conflict) <=> (receipts[k].payload = request[r].payload)
      /\ answer # Conflict => receipts[k].order = answer
  BY <1>k, NoOrderIds DEF Receipt
<1> HIDE DEF answer
<1>c. /\ m \in Request /\ m.at = "reply" /\ m.found = answer
      /\ m.key = k /\ m.payload = request[r].payload
  BY <1>a, <1>b DEF Request, Place
<1> HIDE DEF m
<1>1. MayBe(r, m)
  BY <1>b, <1>c, <1>k DEF MayBe, Found
<1> QED BY <1>u, <1>a, <1>c, <1>1, MoveIInv

\* The stock changes, and nothing the invariant speaks of.
LEMMA DeductStockIInv ==
    ASSUME IInv, NEW r \in Requests, DeductStock(r)
    PROVE  IInv'
<1>u. UNCHANGED <<tables, history>> /\ stock' \in [Keys -> Nat]
  BY DEF DeductStock, IInv, TypeOK
<1>g. /\ GoTo(r, "reply") /\ "reply" \in Place /\ request[r].at = "effects"
  BY DEF DeductStock, Place
<1>1. MayBe(r, [request[r] EXCEPT !.at = "reply"])
  BY <1>g, GoToMoves DEF IInv, AnswersAgree, MayBe, Found
<1> QED BY <1>u, <1>g, <1>1, GoToMoves, MoveIInv

-----------------------------------------------------------------------------
\* Steps that write the tables.

\* What Commit makes of the order o: one that was not there, whose number is
\* the next one, or one that was, with the lines of the command in addition.
LEMMA CommitRow ==
    ASSUME IInv, NEW r \in Requests, Commit(r)
    PROVE  \E o \in OrderId, row \in Order :
              /\ orders' = [orders EXCEPT ![o] = row]
              /\ request' = [request EXCEPT ![r].at = "effects", ![r].found = o]
              /\ IF request[r].found = None
                 THEN /\ orders[o] = None /\ o = made + 1
                      /\ made' = made + 1 /\ counter' = counter + 1
                      /\ row.number = counter + 1
                 ELSE /\ orders[o] \in Order /\ o = request[r].found
                      /\ UNCHANGED <<made, counter>>
                      /\ row.number = orders[o].number
              /\ \A i \in Keys : row.lines[i] =
                    (IF request[r].found = None THEN 0 ELSE orders[o].lines[i])
                    + (IF i = request[r].key THEN 1 ELSE 0)
              /\ IF request[r].key = NoKey
                 THEN UNCHANGED <<receipts, tickets, applied>>
                 ELSE /\ receipts' = [receipts EXCEPT ![request[r].key] =
                            [payload |-> request[r].payload, order |-> o]]
                      /\ tickets' = Ticketed(request[r].key, o)
                      /\ applied' = [applied EXCEPT ![request[r].key] = @ + 1]
<1> DEFINE k == request[r].key
           p == request[r].payload
<1>1. /\ request[r] \in Request /\ request[r].at = "commit"
      /\ p \in Payload /\ k \in Keys \cup {NoKey} /\ counter \in Nat
      /\ made \in 0..MaxOrders /\ orders \in [OrderId -> Order \cup {None}]
  BY DEF IInv, TypeOK, Request, Commit
<1>2. CASE request[r].found = None
  <2> DEFINE o == made + 1
             row == [table |-> p, state |-> "open", number |-> request[r].number,
                     lines |-> Line(k)]
  <2>1. request[r].number = counter + 1 /\ o \in OrderId
    BY <1>1, <1>2, MaxOrdersType DEF IInv, FoundInv, Found, OrderId
  <2>2. orders[o] = None
    BY <1>1, <2>1 DEF IInv, IdInv
  <2>3. Line(k) \in [Keys -> Nat]
    BY DEF Line
  <2>4. row \in Order
    BY <1>1, <2>1, <2>3 DEF Order, State
  <2>5. \A i \in Keys : row.lines[i] = 0 + (IF i = k THEN 1 ELSE 0)
    BY DEF Line
  <2>6. /\ orders' = [orders EXCEPT ![o] = row]
        /\ counter' = request[r].number /\ made' = made + 1
        /\ request' = [request EXCEPT ![r].at = "effects", ![r].found = o]
        /\ IF k = NoKey
           THEN UNCHANGED <<receipts, tickets, applied>>
           ELSE /\ receipts' = [receipts EXCEPT ![k] = [payload |-> p, order |-> o]]
                /\ tickets' = Ticketed(k, o)
                /\ applied' = [applied EXCEPT ![k] = @ + 1]
    BY <1>2 DEF Commit
  <2>7. row.number = counter + 1
    BY <2>1
  <2> HIDE DEF row
  <2> QED BY <1>2, <2>1, <2>2, <2>4, <2>5, <2>6, <2>7
<1>3. CASE request[r].found # None
  <2> DEFINE o == request[r].found
             row == [orders[o] EXCEPT !.lines =
                        [i \in Keys |-> orders[o].lines[i] + Line(k)[i]]]
  <2>1. o \in OrderId /\ orders[o] \in Order
    BY <1>1, <1>3 DEF IInv, FoundInv, Found
  <2>2. /\ [i \in Keys |-> orders[o].lines[i] + Line(k)[i]] \in [Keys -> Nat]
        /\ \A i \in Keys : orders[o].lines[i] + Line(k)[i]
                              = orders[o].lines[i] + (IF i = k THEN 1 ELSE 0)
    BY <2>1 DEF Order, Line
  <2>3. /\ row \in Order /\ row.number = orders[o].number
        /\ row.lines = [i \in Keys |-> orders[o].lines[i] + Line(k)[i]]
    BY <2>1, <2>2 DEF Order
  <2>4. /\ orders' = [orders EXCEPT ![o] = row]
        /\ UNCHANGED <<counter, made>>
        /\ request' = [request EXCEPT ![r].at = "effects", ![r].found = o]
        /\ IF k = NoKey
           THEN UNCHANGED <<receipts, tickets, applied>>
           ELSE /\ receipts' = [receipts EXCEPT ![k] = [payload |-> p, order |-> o]]
                /\ tickets' = Ticketed(k, o)
                /\ applied' = [applied EXCEPT ![k] = @ + 1]
    BY <1>1, <1>3, <2>1 DEF Commit
  <2>5. \A i \in Keys : row.lines[i] = orders[o].lines[i] + (IF i = k THEN 1 ELSE 0)
    BY <2>2, <2>3
  <2> HIDE DEF row
  <2> QED BY <1>3, <2>1, <2>3, <2>4, <2>5
<1> QED BY <1>2, <1>3

LEMMA CommitIInv ==
    ASSUME IInv, NEW r \in Requests, Commit(r)
    PROVE  IInv'
<1> DEFINE k == request[r].key
           p == request[r].payload
           new == request[r].found = None
<1>0. PICK o \in OrderId, row \in Order :
         /\ orders' = [orders EXCEPT ![o] = row]
         /\ request' = [request EXCEPT ![r].at = "effects", ![r].found = o]
         /\ IF new
            THEN /\ orders[o] = None /\ o = made + 1
                 /\ made' = made + 1 /\ counter' = counter + 1
                 /\ row.number = counter + 1
            ELSE /\ orders[o] \in Order /\ o = request[r].found
                 /\ UNCHANGED <<made, counter>>
                 /\ row.number = orders[o].number
         /\ \A i \in Keys : row.lines[i] =
               (IF new THEN 0 ELSE orders[o].lines[i]) + (IF i = k THEN 1 ELSE 0)
         /\ IF k = NoKey
            THEN UNCHANGED <<receipts, tickets, applied>>
            ELSE /\ receipts' = [receipts EXCEPT ![k] = [payload |-> p, order |-> o]]
                 /\ tickets' = Ticketed(k, o)
                 /\ applied' = [applied EXCEPT ![k] = @ + 1]
  BY CommitRow
<1>t. TypeOK
  BY DEF IInv
<1>r. /\ request[r] \in Request /\ request[r].at = "commit" /\ p \in Payload
      /\ k \in Keys \cup {NoKey}
  BY <1>t DEF TypeOK, Request, Commit
<1>s. UNCHANGED <<stock, forgotten>>
  BY DEF Commit
<1>q. /\ \A q \in Requests \ {r} : request'[q] = request[q]
      /\ request'[r].at = "effects" /\ request'[r].found = o
      /\ request'[r].key = k /\ request'[r].payload = p
      /\ request'[r] \in Request
  BY <1>0, <1>r, <1>t DEF TypeOK, Request, Place
<1>o. /\ \A i \in OrderId \ {o} : orders'[i] = orders[i]
      /\ orders'[o] = row /\ row # None
      /\ \A i \in OrderId : orders[i] # None => orders'[i] # None
  BY <1>0, <1>t, NoneIsNoRow DEF TypeOK
<1>k. /\ \A i \in Keys \ {k} : receipts'[i] = receipts[i]
      /\ \A i \in Keys \ {k} : tickets'[i] = tickets[i]
      /\ \A i \in Keys \ {k} : applied'[i] = applied[i]
  BY <1>0, <1>t, <1>r, NoKeyIsNoKey DEF TypeOK, Ticketed
<1>n. ASSUME k \in Keys
      PROVE  /\ receipts[k] = None
             /\ \A q \in Requests \ {r} : InTransaction(q) => request[q].key # k
             /\ receipts'[k] = [payload |-> p, order |-> o]
             /\ receipts'[k] # None /\ receipts'[k].order = o
             /\ receipts'[k].payload = p
             /\ tickets'[k] = IF tickets[k] = None THEN o ELSE tickets[k]
             /\ applied'[k] = applied[k] + 1
  <2>1. receipts[k] = None /\ ~ReceiptLocked(r)
    BY <1>n, <1>r DEF IInv, LockInv, InTransaction
  <2>2. [payload |-> p, order |-> o] \in Receipt
    BY <1>r DEF Receipt
  <2>3. receipts'[k] = [payload |-> p, order |-> o]
    BY <1>0, <1>n, <1>t, NoKeyIsNoKey DEF TypeOK
  <2>4. /\ tickets'[k] = IF tickets[k] = None THEN o ELSE tickets[k]
        /\ applied'[k] = applied[k] + 1
    BY <1>0, <1>n, <1>t, NoKeyIsNoKey DEF TypeOK, Ticketed
  <2> QED BY <1>n, <2>1, <2>2, <2>3, <2>4, NoneIsNoRow DEF ReceiptLocked
<1>1. TypeOK'
  <2>1. orders' \in [OrderId -> Order \cup {None}]
    BY <1>0, <1>t DEF TypeOK
  <2>2. counter' \in Nat /\ made' \in 0..MaxOrders
    BY <1>0, <1>t, MaxOrdersType DEF TypeOK, OrderId
  <2>3. request' \in [Requests -> Request]
    <3>1. request' = [request EXCEPT ![r] = request'[r]]
      BY <1>0, <1>t DEF TypeOK
    <3> QED BY <3>1, <1>q, <1>t DEF TypeOK
  <2>4. /\ receipts' \in [Keys -> Receipt \cup {None}]
        /\ tickets' \in [Keys -> OrderId \cup {None}]
        /\ applied' \in [Keys -> Nat]
    <3>1. [payload |-> p, order |-> o] \in Receipt
      BY <1>r DEF Receipt
    <3> QED BY <3>1, <1>0, <1>r, <1>t DEF TypeOK, Ticketed
  <2> QED BY <2>1, <2>2, <2>3, <2>4, <1>s, <1>t DEF TypeOK
<1>2. IdInv'
  <2>1. counter \in Nat /\ made \in Nat /\ counter' \in Nat /\ made' \in Nat
        /\ counter' >= counter /\ made' >= made
    BY <1>0, <1>t, MaxOrdersType DEF TypeOK
  <2>2. ASSUME NEW i \in OrderId \ {o}, orders'[i] # None
        PROVE  i <= made' /\ orders'[i].number <= counter'
    <3>1. orders'[i] = orders[i] /\ orders[i] \in Order
      BY <1>o, <1>t, <2>2 DEF TypeOK
    <3>2. i <= made /\ orders[i].number <= counter
      BY <2>2, <3>1 DEF IInv, IdInv
    <3>3. i \in Int /\ orders[i].number \in Nat
      BY <3>1 DEF Order, OrderId
    <3> QED BY <2>1, <3>1, <3>2, <3>3
  <2>3. o <= made' /\ orders'[o].number <= counter'
    BY <1>0, <1>o, <1>t, NoneIsNoRow, <2>1 DEF IInv, IdInv, OrderId
  <2> QED BY <2>2, <2>3 DEF IdInv
<1>3. FoundInv'
  <2>1. Found(request[r])'
    BY <1>q DEF Found
  <2>2. ASSUME NEW q \in Requests \ {r} PROVE Found(request[q])'
    <3>1. Found(request[q])
      BY DEF IInv, FoundInv
    <3>2. request[q].at = "commit" /\ request[q].found = None => ~new
      BY <1>r DEF IInv, LockInv
    <3> QED BY <1>0, <1>o, <1>q, <3>1, <3>2 DEF Found
  <2> QED BY <1>q, <2>1, <2>2 DEF FoundInv, Found
<1>4. LockInv'
  <2>1. ASSUME NEW a \in Requests, InTransaction(a)', request'[a].key \in Keys
        PROVE  receipts'[request'[a].key] = None /\ ~ReceiptLocked(a)'
    <3>1. a # r /\ request'[a] = request[a]
      BY <1>q, <2>1 DEF InTransaction
    <3>2. receipts[request[a].key] = None /\ ~ReceiptLocked(a)
      BY <2>1, <3>1 DEF IInv, LockInv, InTransaction
    <3>3. request[a].key # k
      BY <1>n, <1>r, <2>1, <3>1 DEF InTransaction
    <3> QED BY <1>k, <1>q, <2>1, <3>1, <3>2, <3>3 DEF ReceiptLocked, InTransaction
  <2> QED BY <1>q, <2>1 DEF IInv, LockInv
<1>5. ReceiptInv'
  <2>1. ASSUME NEW i \in Keys \ {k}, receipts'[i] # None
        PROVE  orders'[receipts'[i].order] # None
    <3>1. receipts[i] \in Receipt /\ orders[receipts[i].order] # None
      BY <1>k, <1>t, <2>1 DEF IInv, ReceiptInv, TypeOK
    <3> QED BY <1>k, <1>o, <3>1 DEF Receipt
  <2> QED BY <1>n, <1>o, <2>1 DEF ReceiptInv
<1>6. TicketInv'
  BY <1>k, <1>n, <1>s DEF IInv, TicketInv
<1>7. CommandAppliedOnce'
  <2>1. ASSUME NEW i \in Keys
        PROVE  applied'[i] = forgotten'[i] + IF receipts'[i] = None THEN 0 ELSE 1
    <3>1. applied[i] = forgotten[i] + (IF receipts[i] = None THEN 0 ELSE 1)
          /\ applied[i] \in Nat /\ forgotten[i] \in Nat
      BY <1>t DEF IInv, CommandAppliedOnce, TypeOK
    <3> QED BY <1>k, <1>n, <1>s, <3>1
  <2>2. ASSUME NEW i \in Keys, NEW x \in OrderId, orders'[x] # None
        PROVE  orders'[x].lines[i] =
                  IF receipts'[i] # None /\ receipts'[i].order = x THEN 1 ELSE 0
    <3>1. orders[x] # None =>
             orders[x].lines[i] =
                IF receipts[i] # None /\ receipts[i].order = x THEN 1 ELSE 0
      BY DEF IInv, CommandAppliedOnce
    <3>2. CASE x # o
      BY <1>k, <1>n, <1>o, <2>2, <3>1, <3>2
    <3>3. CASE x = o
      <4>1. orders[o] # None <=> ~new
        BY <1>0, NoneIsNoRow
      <4>2. new => ~(receipts[i] # None /\ receipts[i].order = o)
        BY <4>1 DEF IInv, ReceiptInv
      <4>3. (IF new THEN 0 ELSE orders[o].lines[i])
               = IF receipts[i] # None /\ receipts[i].order = o THEN 1 ELSE 0
        BY <3>1, <3>3, <4>1, <4>2
      <4>4. orders'[o].lines[i] =
               (IF receipts[i] # None /\ receipts[i].order = o THEN 1 ELSE 0)
               + (IF i = k THEN 1 ELSE 0)
        BY <1>0, <1>o, <4>3
      <4> QED BY <1>k, <1>n, <3>3, <4>4
    <3> QED BY <3>2, <3>3
  <2> QED BY <2>1, <2>2 DEF CommandAppliedOnce
<1>8. AnswersAgree'
  <2>1. ASSUME NEW q \in Requests,
               request'[q].at \in {"effects", "reply"}, request'[q].key \in Keys,
               forgotten'[request'[q].key] = 0
        PROVE  /\ receipts'[request'[q].key] # None
               /\ (request'[q].found # Conflict)
                     <=> (receipts'[request'[q].key].payload = request'[q].payload)
               /\ request'[q].found # Conflict =>
                     receipts'[request'[q].key].order = request'[q].found
    <3>1. CASE q = r
      BY <1>n, <1>q, <2>1, <3>1, NoOrderIds
    <3>2. CASE q # r
      <4>1. /\ receipts[request[q].key] # None
            /\ (request[q].found # Conflict)
                  <=> (receipts[request[q].key].payload = request[q].payload)
            /\ request[q].found # Conflict =>
                  receipts[request[q].key].order = request[q].found
        BY <1>q, <1>s, <2>1, <3>2 DEF IInv, AnswersAgree
      <4> QED BY <1>k, <1>n, <1>q, <2>1, <3>2, <4>1
    <3> QED BY <3>1, <3>2
  <2> QED BY <2>1 DEF AnswersAgree
<1> QED BY <1>1, <1>2, <1>3, <1>4, <1>5, <1>6, <1>7, <1>8 DEF IInv

LEMMA OrderChangesIInv ==
    ASSUME IInv, NEW o \in OrderId, OrderChanges(o)
    PROVE  IInv'
<1>0. PICK s \in State : orders' = [orders EXCEPT ![o].state = s]
  BY DEF OrderChanges
<1>t. TypeOK
  BY DEF IInv
<1>u. UNCHANGED <<receipts, counter, tickets, made, stock, request, applied,
                  forgotten>>
  BY DEF OrderChanges, history
<1>o. orders[o] \in Order
  BY <1>t DEF OrderChanges, TypeOK
<1>1. /\ orders' \in [OrderId -> Order \cup {None}]
      /\ \A i \in OrderId : orders[i] # None <=> orders'[i] # None
      /\ \A i \in OrderId : orders[i] # None =>
            /\ orders'[i].number = orders[i].number
            /\ orders'[i].lines = orders[i].lines
  <2> DEFINE row == [orders[o] EXCEPT !.state = s]
  <2>1. /\ row \in Order /\ row.number = orders[o].number
        /\ row.lines = orders[o].lines
    BY <1>o DEF Order
  <2>2. orders' = [orders EXCEPT ![o] = row]
    BY <1>0
  <2> HIDE DEF row
  <2> QED BY <1>o, <1>t, <2>1, <2>2, NoneIsNoRow DEF TypeOK
<1>2. TypeOK' /\ IdInv'
  BY <1>1, <1>t, <1>u DEF IInv, TypeOK, IdInv
<1>3. FoundInv' /\ LockInv'
  BY <1>1, <1>u
  DEF IInv, FoundInv, Found, LockInv, InTransaction, ReceiptLocked
<1>4. ReceiptInv'
  BY <1>1, <1>t, <1>u DEF IInv, ReceiptInv, TypeOK, Receipt
<1>5. TicketInv' /\ CommandAppliedOnce' /\ AnswersAgree'
  BY <1>1, <1>u DEF IInv, TicketInv, CommandAppliedOnce, AnswersAgree
<1> QED BY <1>2, <1>3, <1>4, <1>5 DEF IInv

LEMMA PurgeDeletedIInv ==
    ASSUME IInv, PurgeDeleted
    PROVE  IInv'
<1> DEFINE gone == {o \in OrderId : orders[o] # None /\ orders[o].state = "deleted"}
           lost == {k \in Keys : receipts[k] # None /\ receipts[k].order \in gone}
<1>0. /\ \A o \in gone : ~RowLocked(o)
      /\ orders' = [o \in OrderId |-> IF o \in gone THEN None ELSE orders[o]]
      /\ receipts' = [k \in Keys |-> IF k \in lost THEN None ELSE receipts[k]]
      /\ forgotten' = [k \in Keys |->
                          IF k \in lost THEN forgotten[k] + 1 ELSE forgotten[k]]
      /\ UNCHANGED <<counter, tickets, made, stock, request, applied>>
  BY DEF PurgeDeleted
<1>t. TypeOK
  BY DEF IInv
<1>l. \A k \in Keys : k \in lost <=> receipts[k] # None /\ receipts[k].order \in gone
  OBVIOUS
<1> HIDE DEF gone, lost
<1>k. \A k \in Keys :
         /\ forgotten[k] \in Nat
         /\ receipts'[k] # None => receipts[k] # None /\ receipts'[k] = receipts[k]
         /\ receipts[k] = None => receipts'[k] = None
         /\ forgotten'[k] = 0 => forgotten[k] = 0 /\ receipts'[k] = receipts[k]
  BY <1>0, <1>t DEF TypeOK
<1>1. TypeOK'
  BY <1>0, <1>t DEF TypeOK
<1>2. IdInv'
  BY <1>0 DEF IInv, IdInv
<1>3. FoundInv'
  <2>1. ASSUME NEW r \in Requests PROVE Found(request[r])'
    <3>1. Found(request[r])
      BY DEF IInv, FoundInv
    <3>2. request[r].at = "commit" => request[r].found \notin gone
      BY <1>0 DEF RowLocked
    <3> QED BY <1>0, <3>1, <3>2 DEF Found
  <2> QED BY <2>1 DEF FoundInv
<1>4. LockInv'
  BY <1>0, <1>k DEF IInv, LockInv, InTransaction, ReceiptLocked
<1>5. ReceiptInv'
  <2>1. ASSUME NEW k \in Keys, receipts'[k] # None
        PROVE  orders'[receipts'[k].order] # None
    <3>1. receipts[k] # None /\ receipts'[k] = receipts[k] /\ k \notin lost
      BY <1>0, <1>k, <2>1
    <3>2. receipts[k].order \in OrderId \ gone
      BY <1>l, <1>t, <3>1 DEF TypeOK, Receipt
    <3> QED BY <1>0, <3>1, <3>2 DEF IInv, ReceiptInv
  <2> QED BY <2>1 DEF ReceiptInv
<1>6. TicketInv'
  BY <1>0, <1>k DEF IInv, TicketInv
<1>7. CommandAppliedOnce'
  <2>1. ASSUME NEW k \in Keys
        PROVE  applied'[k] = forgotten'[k] + IF receipts'[k] = None THEN 0 ELSE 1
    <3>1. applied[k] = forgotten[k] + (IF receipts[k] = None THEN 0 ELSE 1)
          /\ forgotten[k] \in Nat
      BY <1>t DEF IInv, CommandAppliedOnce, TypeOK
    <3> QED BY <1>0, <1>l, <3>1
  <2>2. ASSUME NEW k \in Keys, NEW o \in OrderId, orders'[o] # None
        PROVE  orders'[o].lines[k] =
                  IF receipts'[k] # None /\ receipts'[k].order = o THEN 1 ELSE 0
    <3>1. o \notin gone /\ orders[o] # None /\ orders'[o] = orders[o]
      BY <1>0, <2>2
    <3>2. orders[o].lines[k] =
             IF receipts[k] # None /\ receipts[k].order = o THEN 1 ELSE 0
      BY <3>1 DEF IInv, CommandAppliedOnce
    <3> QED BY <1>0, <1>l, <3>1, <3>2
  <2> QED BY <2>1, <2>2 DEF CommandAppliedOnce
<1>8. AnswersAgree'
  BY <1>0, <1>k DEF IInv, AnswersAgree
<1> QED BY <1>1, <1>2, <1>3, <1>4, <1>5, <1>6, <1>7, <1>8 DEF IInv

-----------------------------------------------------------------------------
\* Every step preserves the invariant.

LEMMA NextIInv == IInv /\ [Next]_vars => IInv'
<1> SUFFICES ASSUME IInv, [Next]_vars PROVE IInv'
  OBVIOUS
<1>1. ASSUME NEW r \in Requests, Proceed(r) PROVE IInv'
  BY <1>1, InsertReceiptIInv, FindOpenOrderIInv, AppendLinesIInv, NewOrderIInv,
     CommitIInv, DeductStockIInv, ReplyIInv, ReplayIInv DEF Proceed
<1>2. CASE UNCHANGED vars
  <2>1. TypeOK' /\ IdInv' /\ ReceiptInv' /\ TicketInv'
    BY <1>2 DEF IInv, vars, tables, history, TypeOK, IdInv, ReceiptInv, TicketInv
  <2>2. FoundInv' /\ LockInv'
    BY <1>2 DEF IInv, vars, tables, FoundInv, Found, LockInv, InTransaction,
                ReceiptLocked
  <2>3. CommandAppliedOnce' /\ AnswersAgree'
    BY <1>2 DEF IInv, vars, tables, history, CommandAppliedOnce, AnswersAgree
  <2> QED BY <2>1, <2>2, <2>3 DEF IInv
<1> QED BY <1>1, <1>2, SendIInv, DiesIInv, OrderChangesIInv, PurgeDeletedIInv DEF Next

LEMMA Invariance == Spec => []IInv
BY InitIInv, NextIInv, PTL DEF Spec

-----------------------------------------------------------------------------
\* The stock.

\* The requests that have committed the command k and may still deduct it:
\* there is more than one when a receipt was purged and its key used again.
Owing(k) == {r \in Requests : request[r].at = "effects" /\ request[r].key = k}

\* A commit pays for one deduction, which its request makes or drops: what was
\* deducted and what may still be do not exceed what was applied.
StockInv ==
    \A k \in Keys : /\ IsFiniteSet(Owing(k))
                    /\ stock[k] + Cardinality(Owing(k)) <= applied[k]

LEMMA InitStock == Init => StockInv
<1> SUFFICES ASSUME Init, NEW k \in Keys
             PROVE  /\ IsFiniteSet(Owing(k))
                    /\ stock[k] + Cardinality(Owing(k)) <= applied[k]
  BY DEF StockInv
<1>1. Owing(k) = {}
  BY DEF Init, Owing, Idle
<1> QED BY <1>1, FS_EmptySet DEF Init

\* Only r moves, and not to the effects.
Elsewhere(r) == /\ request'[r].at # "effects"
                /\ \A q \in Requests \ {r} : request'[q] = request[q]

\* A step of r that does not commit: r owes nothing after it, and what it
\* deducted it owed.
LEMMA MoveStock ==
    ASSUME TypeOK, StockInv, NEW r \in Requests, Elsewhere(r), applied' = applied,
           \A k \in Keys : \/ stock'[k] = stock[k]
                           \/ r \in Owing(k) /\ stock'[k] = stock[k] + 1
    PROVE  StockInv'
<1> SUFFICES ASSUME NEW k \in Keys
             PROVE  /\ IsFiniteSet(Owing(k)')
                    /\ stock'[k] + Cardinality(Owing(k)') <= applied'[k]
  BY DEF StockInv
<1>1. Owing(k)' = Owing(k) \ {r}
  BY DEF Elsewhere, Owing
<1>2. /\ IsFiniteSet(Owing(k)) /\ Cardinality(Owing(k)) \in Nat
      /\ stock[k] + Cardinality(Owing(k)) <= applied[k]
      /\ stock[k] \in Nat /\ applied[k] \in Nat
  BY FS_CardinalityType DEF StockInv, TypeOK
<1>3. /\ IsFiniteSet(Owing(k) \ {r})
      /\ Cardinality(Owing(k) \ {r}) =
            IF r \in Owing(k) THEN Cardinality(Owing(k)) - 1 ELSE Cardinality(Owing(k))
  BY <1>2, FS_RemoveElement
<1> QED BY <1>1, <1>2, <1>3

\* The commit of r: its command is applied once more, and r owes it.
LEMMA CommitStock ==
    ASSUME IInv, StockInv, NEW r \in Requests, Commit(r)
    PROVE  StockInv'
<1> SUFFICES ASSUME NEW k \in Keys
             PROVE  /\ IsFiniteSet(Owing(k)')
                    /\ stock'[k] + Cardinality(Owing(k)') <= applied'[k]
  BY DEF StockInv
<1>t. TypeOK /\ request[r].at = "commit" /\ stock' = stock
  BY DEF IInv, Commit
<1>0. PICK o \in OrderId :
        /\ request' = [request EXCEPT ![r].at = "effects", ![r].found = o]
        /\ IF request[r].key = NoKey
           THEN applied' = applied
           ELSE applied' = [applied EXCEPT ![request[r].key] = @ + 1]
  BY CommitRow, Zenon
<1>1. /\ request'[r].at = "effects" /\ request'[r].key = request[r].key
      /\ \A q \in Requests \ {r} : request'[q] = request[q]
  BY <1>0, <1>t DEF TypeOK, Request
<1>2. /\ IsFiniteSet(Owing(k)) /\ Cardinality(Owing(k)) \in Nat
      /\ stock[k] + Cardinality(Owing(k)) <= applied[k]
      /\ stock[k] \in Nat /\ applied[k] \in Nat
  BY <1>t, FS_CardinalityType DEF StockInv, TypeOK
<1>3. r \notin Owing(k)
  BY <1>t DEF Owing
<1>4. CASE request[r].key = k
  <2>1. Owing(k)' = Owing(k) \cup {r}
    BY <1>1, <1>4 DEF Owing
  <2>2. /\ IsFiniteSet(Owing(k) \cup {r})
        /\ Cardinality(Owing(k) \cup {r}) = Cardinality(Owing(k)) + 1
    BY <1>2, <1>3, FS_AddElement
  <2>3. applied'[k] = applied[k] + 1
    BY <1>0, <1>4, <1>t, NoKeyIsNoKey DEF TypeOK
  <2> QED BY <1>2, <1>t, <2>1, <2>2, <2>3
<1>5. CASE request[r].key # k
  <2>1. Owing(k)' = Owing(k)
    BY <1>1, <1>3, <1>5 DEF Owing
  <2>2. applied'[k] = applied[k]
    BY <1>0, <1>5, <1>t DEF TypeOK
  <2> QED BY <1>2, <1>t, <2>1, <2>2
<1> QED BY <1>4, <1>5

\* A step that leaves the requests, the stock and what was applied alone.
LEMMA StillStock ==
    ASSUME StockInv, UNCHANGED <<request, stock, applied>>
    PROVE  StockInv'
<1>1. ASSUME NEW k \in Keys PROVE Owing(k)' = Owing(k)
  BY DEF Owing
<1> QED BY <1>1 DEF StockInv

\* The other actions of a request.
LEMMA OthersMove ==
    ASSUME TypeOK, NEW r \in Requests,
           \/ \E k \in Keys \cup {NoKey}, p \in Payload : Send(r, k, p)
           \/ InsertReceipt(r) \/ FindOpenOrder(r) \/ AppendLines(r)
           \/ NewOrder(r) \/ Reply(r) \/ Replay(r) \/ Dies(r)
    PROVE  Elsewhere(r) /\ UNCHANGED <<stock, applied>>
<1>u. UNCHANGED <<stock, applied>>
  BY DEF Send, InsertReceipt, FindOpenOrder, AppendLines, NewOrder, Reply,
         Replay, Dies, history
<1> SUFFICES Elsewhere(r)
  BY <1>u
<1>r. request[r] \in Request /\ request \in [Requests -> Request]
  BY DEF TypeOK
<1>i. Leave(r) => Elsewhere(r)
  BY <1>r DEF Leave, Elsewhere, Idle
<1>g. ASSUME NEW place \in Place \ {"effects"}, GoTo(r, place)
      PROVE  Elsewhere(r)
  BY <1>r, <1>g DEF GoTo, Elsewhere, Request
<1>1. ASSUME NEW k \in Keys \cup {NoKey}, NEW p \in Payload, Send(r, k, p)
      PROVE  Elsewhere(r)
  BY <1>r, <1>1 DEF Send, Elsewhere, Idle
<1>2. CASE InsertReceipt(r)
  BY <1>2, <1>g DEF InsertReceipt, Place
<1>3. CASE FindOpenOrder(r)
  <2>1. ASSUME NEW o, request' = [request EXCEPT ![r].at = "write", ![r].found = o]
        PROVE  Elsewhere(r)
    BY <1>r, <2>1 DEF Elsewhere, Request
  <2>2. CASE GoTo(r, "write")
    BY <1>g, <2>2 DEF Place
  <2> QED BY <1>3, <2>1, <2>2 DEF FindOpenOrder
<1>4. CASE AppendLines(r)
  <2>1. CASE GoTo(r, "commit")
    BY <1>g, <2>1 DEF Place
  <2> QED BY <1>4, <1>i, <2>1 DEF AppendLines
<1>5. CASE NewOrder(r)
  BY <1>r, <1>5 DEF NewOrder, Elsewhere, Request
<1>6. CASE Replay(r)
  BY <1>r, <1>6 DEF Replay, Elsewhere, Request
<1>7. CASE Reply(r) \/ Dies(r)
  BY <1>7, <1>i DEF Reply, Dies
<1> QED BY <1>1, <1>2, <1>3, <1>4, <1>5, <1>6, <1>7

LEMMA NextStock == IInv /\ StockInv /\ [Next]_vars => StockInv'
<1> SUFFICES ASSUME IInv, StockInv, [Next]_vars PROVE StockInv'
  OBVIOUS
<1>t. TypeOK
  BY DEF IInv
<1>1. ASSUME NEW r \in Requests, DeductStock(r) PROVE StockInv'
  <2>1. request[r] \in Request /\ request[r].at = "effects"
    BY <1>1, <1>t DEF DeductStock, TypeOK
  <2>2. Elsewhere(r)
    BY <1>1, <1>t, <2>1 DEF DeductStock, GoTo, Elsewhere, Request, TypeOK
  <2>3. ASSUME NEW k \in Keys
        PROVE  \/ stock'[k] = stock[k]
               \/ r \in Owing(k) /\ stock'[k] = stock[k] + 1
    BY <1>1, <1>t, <2>1 DEF DeductStock, Owing, TypeOK
  <2>4. applied' = applied
    BY <1>1 DEF DeductStock, history
  <2> QED BY <1>t, <2>2, <2>3, <2>4, MoveStock
<1>2. ASSUME NEW r \in Requests,
             \/ \E k \in Keys \cup {NoKey}, p \in Payload : Send(r, k, p)
             \/ InsertReceipt(r) \/ FindOpenOrder(r) \/ AppendLines(r)
             \/ NewOrder(r) \/ Reply(r) \/ Replay(r) \/ Dies(r)
      PROVE  StockInv'
  BY <1>2, <1>t, OthersMove, MoveStock
<1>3. ASSUME NEW o \in OrderId, OrderChanges(o) PROVE StockInv'
  BY <1>3, StillStock DEF OrderChanges, history
<1>4. CASE PurgeDeleted
  BY <1>4, StillStock DEF PurgeDeleted
<1>5. CASE UNCHANGED vars
  BY <1>5, StillStock DEF vars, history
<1> QED BY <1>1, <1>2, <1>3, <1>4, <1>5, CommitStock DEF Next, Proceed

-----------------------------------------------------------------------------
\* Type correctness.
THEOREM OrdersTypeCorrect == Spec => []TypeOK
<1>1. IInv => TypeOK
  BY DEF IInv
<1> QED BY <1>1, Invariance, PTL

\* The idempotency of order creation: however often and however concurrently a
\* command is sent, its lines are in one order, once, for as long as its
\* receipt is there.
THEOREM AppliedOnce == Spec => []CommandAppliedOnce
<1>1. IInv => CommandAppliedOnce
  BY DEF IInv
<1> QED BY <1>1, Invariance, PTL

\* What is on an order has its kitchen ticket: no crash comes between them.
THEOREM TicketsComplete == Spec => []LinesHaveTicket
<1>1. IInv => LinesHaveTicket
  BY DEF IInv, TicketInv, CommandAppliedOnce, LinesHaveTicket
<1> QED BY <1>1, Invariance, PTL

\* A replay answers with the order that holds the lines, or refuses.
THEOREM AnswersCorrect == Spec => []AnswersAgree
<1>1. IInv => AnswersAgree
  BY DEF IInv
<1> QED BY <1>1, Invariance, PTL

\* No retry and no replay takes the goods of a command from the stock again:
\* every deduction is paid for by a commit of its own.
THEOREM StockOnce == Spec => []StockDeductedOnce
<1>1. IInv /\ StockInv => StockDeductedOnce
  <2> SUFFICES ASSUME IInv, StockInv, NEW k \in Keys PROVE stock[k] <= applied[k]
    BY DEF StockDeductedOnce
  <2>1. /\ Cardinality(Owing(k)) \in Nat
        /\ stock[k] + Cardinality(Owing(k)) <= applied[k]
        /\ stock[k] \in Nat /\ applied[k] \in Nat
    BY FS_CardinalityType DEF StockInv, IInv, TypeOK
  <2> QED BY <2>1
<1>2. Spec => []StockInv
  BY InitStock, NextStock, Invariance, PTL DEF Spec
<1> QED BY <1>1, <1>2, Invariance, PTL

\* The row lock of the counter makes order numbers distinct and growing.
THEOREM NumbersIncrease == Spec => NumbersGrow
<1> DEFINE Grow ==
       \A o, i \in OrderId :
          orders[o] = None /\ orders'[o] # None /\ orders[i] # None =>
              orders'[o].number > orders[i].number
<1>1. ASSUME IInv, [Next]_vars PROVE [Grow]_vars
  <2> SUFFICES ASSUME NEW o \in OrderId, NEW i \in OrderId,
                      orders[o] = None, orders'[o] # None, orders[i] # None
               PROVE  orders'[o].number > orders[i].number
    OBVIOUS
  <2>1. PICK r \in Requests : Commit(r)
    <3>1. orders' # orders
      OBVIOUS
    <3>2. ASSUME NEW x \in OrderId, OrderChanges(x) PROVE FALSE
      BY <3>2 DEF OrderChanges, IInv, TypeOK
    <3>3. ~PurgeDeleted
      BY DEF PurgeDeleted
    <3> QED BY <1>1, <3>1, <3>2, <3>3
        DEF Next, Proceed, Send, InsertReceipt, FindOpenOrder, AppendLines,
            NewOrder, DeductStock, Reply, Replay, Dies, vars, tables
  <2>2. PICK x \in OrderId, row \in Order :
           /\ orders' = [orders EXCEPT ![x] = row]
           /\ IF request[r].found = None
              THEN /\ orders[x] = None /\ x = made + 1
                   /\ made' = made + 1 /\ counter' = counter + 1
                   /\ row.number = counter + 1
              ELSE /\ orders[x] \in Order /\ x = request[r].found
                   /\ UNCHANGED <<made, counter>>
                   /\ row.number = orders[x].number
    BY <1>1, <2>1, CommitRow, Zenon
  <2>3. orders[i] \in Order /\ orders[i].number <= counter /\ counter \in Nat
    BY <1>1 DEF IInv, TypeOK, IdInv
  <2>4. x = o /\ orders'[o] = row
    BY <1>1, <2>2 DEF IInv, TypeOK
  <2> QED BY <2>2, <2>3, <2>4, NoneIsNoRow DEF Order
<1> QED BY <1>1, Invariance, PTL DEF Spec, NumbersGrow
=============================================================================
