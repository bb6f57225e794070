-------------------------- MODULE OrdersStockProofs --------------------------
(***************************************************************************)
(* The stock: no step loses a ticket, and the stock drifts only where a    *)
(* handler writes over an order whose tickets were given back already.     *)
(***************************************************************************)
EXTENDS OrdersProofs

USE DEF vars, dbVars, stripeVars, redisVars, procVars, envVars

(* How many tickets a set of orders has *)

LEMMA TicketsFinite ==
    ASSUME NEW S, S \subseteq OrderIds
    PROVE  IsFiniteSet(Tickets(S)) /\ Cardinality(Tickets(S)) \in Nat
<1>1. IsFiniteSet(S)
  BY OrdersFinite, FS_Subset
<1>2. IsFiniteSet(1..20)
  BY FS_Interval, 1 \in Int, 20 \in Int
<1>3. IsFiniteSet(S \X (1..20))
  BY <1>1, <1>2, FS_Product
<1>4. Tickets(S) \subseteq S \X (1..20)
  BY DEF Tickets
<1> QED BY <1>3, <1>4, FS_Subset, FS_CardinalityType

LEMMA TicketsOfOne ==
    ASSUME NEW o \in OrderIds
    PROVE  Cardinality(Tickets({o})) = Dto[o].quantity
<1> DEFINE q == Dto[o].quantity
<1>1. q \in 1..20
  BY DtoType
<1>2. Tickets({o}) = {o} \X (1..q)
  <2>1. ASSUME NEW t PROVE t \in Tickets({o}) <=> t \in {o} \X (1..q)
    BY <1>1 DEF Tickets
  <2> QED BY <2>1
<1> HIDE DEF q
<1>3. IsFiniteSet(1..q) /\ Cardinality(1..q) = q
  <2>1. 1 \in Int /\ q \in Int /\ ~(1 > q) /\ q - 1 + 1 = q
    BY <1>1
  <2>2. IsFiniteSet(1..q) /\ Cardinality(1..q) = IF 1 > q THEN 0 ELSE q - 1 + 1
    BY <2>1, FS_Interval
  <2> QED BY <2>1, <2>2
<1>4. IsFiniteSet({o}) /\ Cardinality({o}) = 1
  BY FS_Singleton
<1>5. Cardinality({o} \X (1..q)) = 1 * q
  <2>1. Cardinality({o} \X (1..q)) = Cardinality({o}) * Cardinality(1..q)
    BY <1>3, <1>4, FS_Product, Zenon
  <2> QED BY <1>3, <1>4, <2>1, Zenon
<1>6. 1 * q = q
  BY <1>1
<1> QED BY <1>2, <1>5, <1>6 DEF q

\* An order more adds its quantity.
LEMMA TicketsAdd ==
    ASSUME NEW S, S \subseteq OrderIds, NEW o \in OrderIds \ S
    PROVE  Cardinality(Tickets(S \cup {o})) = Cardinality(Tickets(S)) + Dto[o].quantity
<1>1. Tickets(S \cup {o}) = Tickets(S) \cup Tickets({o})
  BY DEF Tickets
<1>2. Tickets(S) \cap Tickets({o}) = {}
  BY DEF Tickets
<1>3. /\ IsFiniteSet(Tickets(S)) /\ IsFiniteSet(Tickets({o}))
      /\ Cardinality(Tickets(S)) \in Nat
  BY TicketsFinite
<1>4. Cardinality(Tickets(S) \cup Tickets({o})) =
         Cardinality(Tickets(S)) + Cardinality(Tickets({o}))
           - Cardinality(Tickets(S) \cap Tickets({o}))
  BY <1>3, FS_Union
<1>5. Cardinality(Tickets({o})) = Dto[o].quantity /\ Dto[o].quantity \in Nat
  BY TicketsOfOne, DtoType
<1>6. Cardinality(Tickets(S) \cap Tickets({o})) = 0
  BY <1>2, FS_EmptySet, Zenon
<1>7. Cardinality(Tickets(S \cup {o})) = Cardinality(Tickets(S)) + Cardinality(Tickets({o})) - 0
  BY <1>1, <1>4, <1>6, Zenon
<1> HIDE DEF Tickets
<1> QED BY <1>3, <1>5, <1>7

-----------------------------------------------------------------------------
(* What a write of one order's status does to the tickets taken *)

LEMMA TakenType ==
    ASSUME NEW c \in Categories
    PROVE  Taken(c) \in Nat /\ Taken(c)' \in Nat
<1>1. Held(c) \subseteq OrderIds /\ Held(c)' \subseteq OrderIds
  BY DEF Held
<1> QED BY <1>1, TicketsFinite DEF Taken

LEMMA SetOrderTaken ==
    ASSUME DbOK, NEW o \in OrderIds, NEW s, SetOrder(o, s), NEW c \in Categories
    PROVE  /\ Dto[o].categoryId # c \/ (status[o] \in Holding <=> s \in Holding)
                => Taken(c)' = Taken(c)
           /\ Dto[o].categoryId = c /\ status[o] \in Holding /\ s \notin Holding
                => Taken(c) = Taken(c)' + Dto[o].quantity
           /\ Dto[o].categoryId = c /\ status[o] \notin Holding /\ s \in Holding
                => Taken(c)' = Taken(c) + Dto[o].quantity
<1>1. Held(c) \subseteq OrderIds /\ Held(c)' \subseteq OrderIds
  BY DEF Held
<1>2. status' = [status EXCEPT ![o] = s] /\ status \in [OrderIds -> OrderStatus]
  BY DEF SetOrder, DbOK
<1>3. CASE Dto[o].categoryId # c \/ (status[o] \in Holding <=> s \in Holding)
  <2>1. Held(c)' = Held(c)
    BY <1>2, <1>3 DEF Held
  <2> QED BY <2>1, <1>3 DEF Taken
<1>4. CASE Dto[o].categoryId = c /\ status[o] \in Holding /\ s \notin Holding
  <2>1. Held(c) = Held(c)' \cup {o} /\ o \notin Held(c)'
    BY <1>2, <1>4 DEF Held
  <2>2. Cardinality(Tickets(Held(c)' \cup {o})) =
           Cardinality(Tickets(Held(c)')) + Dto[o].quantity
    BY <1>1, <2>1, TicketsAdd
  <2>3. Taken(c) = Taken(c)' + Dto[o].quantity
    BY <2>1, <2>2 DEF Taken
  <2> QED BY <1>4, <2>3
<1>5. CASE Dto[o].categoryId = c /\ status[o] \notin Holding /\ s \in Holding
  <2>1. Held(c)' = Held(c) \cup {o} /\ o \notin Held(c)
    BY <1>2, <1>5 DEF Held
  <2>2. Cardinality(Tickets(Held(c) \cup {o})) =
           Cardinality(Tickets(Held(c))) + Dto[o].quantity
    BY <1>1, <2>1, TicketsAdd
  <2>3. Taken(c)' = Taken(c) + Dto[o].quantity
    BY <2>1, <2>2 DEF Taken
  <2> QED BY <1>5, <2>3
<1> QED BY <1>3, <1>4, <1>5

\* A step accounts for the tickets of c: it loses none, keeps the stock from
\* going negative, and is exact unless it is an Overwrite.
Accounts(c) ==
    /\ stock[c] >= 0 => stock'[c] >= 0
    /\ stock'[c] + Taken(c)' >= stock[c] + Taken(c)
    /\ ~Overwrite => stock'[c] + Taken(c)' = stock[c] + Taken(c)

LEMMA KeepsAccount ==
    ASSUME DbOK, NEW c \in Categories, stock' = stock, Taken(c)' = Taken(c)
    PROVE  Accounts(c)
BY TakenType DEF Accounts, DbOK

\* Giving the tickets of an order back.
LEMMA ReleaseAccounts ==
    ASSUME TypeOK, NEW h \in Procs, NEW s \in Released, NEW c \in Categories,
           ord[h] \in OrderIds, status[ord[h]] # "NONE",
           SetOrder(ord[h], s), RestoreStock(ord[h]),
           pc[h] \in {"markFailed", "expire", "markRefunded", "rollback"}, pc'[h] # pc[h]
    PROVE  Accounts(c)
<1> DEFINE o == ord[h]
           q == Dto[o].quantity
<1>1. q \in 1..20 /\ Dto[o].categoryId \in Categories
  BY DtoType
<1>2. stock'[c] = IF Dto[o].categoryId = c THEN stock[c] + q ELSE stock[c]
  BY <1>1 DEF RestoreStock, TypeOK, DbOK
<1>3. s \notin Holding /\ (status[o] \in Released => Overwrite)
      /\ (status[o] \notin Released => status[o] \in Holding)
  BY DEF Released, Holding, Overwrite, TypeOK, DbOK, OrderStatus
<1>4. stock[c] \in Int /\ Taken(c) \in Nat /\ Taken(c)' \in Nat
  BY TakenType DEF TypeOK, DbOK
<1>5. /\ Dto[o].categoryId # c \/ status[o] \notin Holding => Taken(c)' = Taken(c)
      /\ Dto[o].categoryId = c /\ status[o] \in Holding => Taken(c) = Taken(c)' + q
  BY <1>3, SetOrderTaken DEF TypeOK
<1> HIDE DEF q, o
<1> QED BY <1>1, <1>2, <1>3, <1>4, <1>5 DEF Accounts

LEMMA ReserveAccounts ==
    ASSUME TypeOK, FreshUntilReserved, NEW h \in Procs, CheckoutReserve(h), NEW c \in Categories
    PROVE  Accounts(c)
<1>1. CASE UNCHANGED <<stock, status>>
  <2>1. Taken(c)' = Taken(c)
    BY <1>1 DEF Taken, Held
  <2> QED BY <1>1, <2>1, KeepsAccount DEF TypeOK
<1>2. CASE HasStock(Dto[ord[h]]) /\ ~UNCHANGED <<stock, status>>
  <2> DEFINE o == ord[h]
             q == Dto[o].quantity
  <2>1. pc[h] = "reserve" /\ o \in OrderIds /\ status[o] = "NONE"
    <3>1. pc[h] = "reserve" /\ pc[h] \in OrderSteps
      BY DEF CheckoutReserve, OrderSteps, Steps, CheckoutSteps, CancelSteps
    <3> QED BY <3>1, OrdTyped DEF TypeOK, FreshUntilReserved, OrderSteps
  <2>2. q \in 1..20 /\ Dto[o].categoryId \in Categories
    BY <2>1, DtoType
  <2>3. /\ SetOrder(o, "PENDING")
        /\ stock'[c] = IF Dto[o].categoryId = c THEN stock[c] - q ELSE stock[c]
        /\ Dto[o].categoryId = c => stock[c] >= q
    BY <1>2, <2>2 DEF CheckoutReserve, HasStock, TypeOK, DbOK
  <2>4. stock[c] \in Int /\ Taken(c) \in Nat /\ Taken(c)' \in Nat
    BY TakenType DEF TypeOK, DbOK
  <2>5. Taken(c)' = IF Dto[o].categoryId = c THEN Taken(c) + q ELSE Taken(c)
    BY <2>1, <2>3, SetOrderTaken DEF TypeOK, Holding
  <2> HIDE DEF q, o
  <2> QED BY <2>2, <2>3, <2>4, <2>5 DEF Accounts
<1> QED BY <1>1, <1>2 DEF CheckoutReserve

LEMMA PaidAccounts ==
    ASSUME TypeOK, FreshUntilReserved, NEW h \in Procs, MarkPaid(h), NEW c \in Categories
    PROVE  Accounts(c)
<1> DEFINE o == ord[h]
           q == Dto[o].quantity
<1>1. pc[h] = "markPaid" /\ o \in OrderIds /\ status[o] # "NONE" /\ pc'[h] # pc[h]
  <2>1. pc[h] = "markPaid" /\ pc[h] \in OrderSteps
    BY DEF MarkPaid, OrderSteps, Steps, SucceededSteps, CancelSteps
  <2> QED BY <2>1, OrdTyped DEF MarkPaid, Await, TypeOK, ProcOK, FreshUntilReserved, OrderSteps
<1>2. q \in 1..20
  BY <1>1, DtoType
<1>3. SetOrder(o, "PAID") /\ stock' = stock /\ "PAID" \in Holding
  BY DEF MarkPaid, Holding
<1>4. stock[c] \in Int /\ Taken(c) \in Nat /\ Taken(c)' \in Nat
  BY TakenType DEF TypeOK, DbOK
<1>5. (status[o] \in Released => Overwrite) /\ (status[o] \notin Released => status[o] \in Holding)
  BY <1>1 DEF Released, Holding, Overwrite, TypeOK, DbOK, OrderStatus
<1>6. Taken(c)' = Taken(c) \/ (Taken(c)' = Taken(c) + q /\ status[o] \notin Holding)
  BY <1>1, <1>3, SetOrderTaken DEF TypeOK
<1>7. status[o] \in Holding => Taken(c)' = Taken(c)
  BY <1>1, <1>3, SetOrderTaken DEF TypeOK
<1> HIDE DEF q, o
<1> QED BY <1>2, <1>3, <1>4, <1>5, <1>6, <1>7 DEF Accounts

LEMMA CancelAccounts ==
    ASSUME TypeOK, NEW h \in Procs, CancelOrders(h), NEW c \in Categories
    PROVE  Accounts(c)
<1>1. Held(c)' = Held(c)
  BY DEF CancelOrders, Held, Holding
<1>2. Taken(c)' = Taken(c) /\ stock' = stock
  BY <1>1 DEF CancelOrders, Taken
<1> QED BY <1>2, KeepsAccount DEF TypeOK

\* The other handlers that give tickets back.
LEMMA ReleasesAccount ==
    ASSUME TypeOK, FreshUntilReserved, NEW h \in Procs, NEW c \in Categories,
           CheckoutRollback(h) \/ MarkFailed(h) \/ ExpireOrder(h) \/ MarkRefunded(h)
    PROVE  Accounts(c)
<1>1. /\ pc[h] \in {"rollback", "markFailed", "expire", "markRefunded"}
      /\ pc[h] \in OrderSteps
  BY DEF CheckoutRollback, MarkFailed, ExpireOrder, MarkRefunded, OrderSteps, Steps,
         CheckoutSteps, FailedSteps, ExpirySteps, RefundSteps, CancelSteps
<1>2. ord[h] \in OrderIds /\ status[ord[h]] # "NONE"
  BY <1>1, OrdTyped DEF TypeOK, FreshUntilReserved, OrderSteps
<1>3. PICK s \in Released : SetOrder(ord[h], s)
  BY DEF CheckoutRollback, MarkFailed, ExpireOrder, MarkRefunded, RefundStatus, Released
<1>4. RestoreStock(ord[h]) /\ pc'[h] # pc[h]
  BY <1>1 DEF CheckoutRollback, MarkFailed, ExpireOrder, MarkRefunded, Await, Return,
              TypeOK, ProcOK
<1> QED BY <1>1, <1>2, <1>3, <1>4, ReleaseAccounts

\* The steps that write the stock or the status of an order.
LEMMA StockWriters ==
    /\ \A h \in Procs : Continue(h) /\ ~UNCHANGED <<stock, status>> =>
          \/ CheckoutReserve(h) \/ MarkPaid(h) \/ CancelOrders(h)
          \/ CheckoutRollback(h) \/ MarkFailed(h) \/ ExpireOrder(h) \/ MarkRefunded(h)
    /\ [Next]_vars /\ ~UNCHANGED <<stock, status>> => \E h \in Procs : Continue(h)
<1>1. ASSUME NEW h \in Procs, Continue(h), ~UNCHANGED <<stock, status>>
      PROVE  \/ CheckoutReserve(h) \/ MarkPaid(h) \/ CancelOrders(h)
             \/ CheckoutRollback(h) \/ MarkFailed(h) \/ ExpireOrder(h) \/ MarkRefunded(h)
  BY <1>1 DEF Continue, CheckoutAggregate, CreatePaymentIntent, CreatePaymentIntentFails,
              SavePaymentIntent, AddOrderExpiryJob, AddReminder, AnswerCheckout, StripeRefund,
              FindAffected, CancelDone, CancelMail, SendMail, EmitStock, Rejects
<1>2. ASSUME NEW h \in Handlers, Arrive(h) PROVE UNCHANGED <<stock, status>>
  BY <1>2 DEF Arrive, CancelRequest, CheckoutRequest, RefundRequest, PaymentSucceeded,
              PaymentFailed
<1>3. ASSUME NEW o \in OrderIds, ExpiryJobStart(o) \/ CustomerPays(o) \/ PaymentDeclined(o)
      PROVE  UNCHANGED <<stock, status>>
  BY <1>3 DEF ExpiryJobStart, CustomerPays, PaymentDeclined
<1>4. ASSUME \/ \E e \in Hooks : Redeliver(e)
             \/ \E s \in StatusRequests : UpdateStatus(s)
             \/ Crash \/ Tick \/ UNCHANGED vars
      PROVE  UNCHANGED <<stock, status>>
  BY <1>4 DEF Redeliver, UpdateStatus, Crash, Tick
<1> QED BY <1>1, <1>2, <1>3, <1>4 DEF Next

\* Every step accounts for the tickets of every category.
LEMMA StepAccounts ==
    ASSUME TypeOK, FreshUntilReserved, [Next]_vars, NEW c \in Categories
    PROVE  Accounts(c)
<1>1. CASE UNCHANGED <<stock, status>>
  <2>1. Taken(c)' = Taken(c)
    BY <1>1 DEF Taken, Held
  <2> QED BY <1>1, <2>1, KeepsAccount DEF TypeOK
<1>2. ASSUME NEW h \in Procs, Continue(h), ~UNCHANGED <<stock, status>>
      PROVE  Accounts(c)
  BY <1>2, StockWriters, ReserveAccounts, PaidAccounts, CancelAccounts, ReleasesAccount
<1> QED BY <1>1, <1>2, StockWriters DEF Next

-----------------------------------------------------------------------------

\* Whatever is interleaved, retried or cut off: no ticket vanishes.
THEOREM NoTicketIsLost == Spec => []NoTicketLost
<1>1. Init => NoTicketLost
  <2> SUFFICES ASSUME Init, NEW c \in Categories
               PROVE  stock[c] + Taken(c) >= Category[c].totalStock
    BY DEF NoTicketLost
  <2>1. stock[c] = Category[c].totalStock /\ Category[c].totalStock \in Nat
    BY CategoryType DEF Init
  <2> QED BY <2>1, TakenType
<1>2. TypeOK /\ FreshUntilReserved /\ NoTicketLost /\ [Next]_vars => NoTicketLost'
  <2> SUFFICES ASSUME TypeOK, FreshUntilReserved, NoTicketLost, [Next]_vars, NEW c \in Categories
               PROVE  stock'[c] + Taken(c)' >= Category[c].totalStock
    BY DEF NoTicketLost
  <2>1. stock[c] + Taken(c) >= Category[c].totalStock
    BY DEF NoTicketLost
  <2>2. stock'[c] + Taken(c)' >= stock[c] + Taken(c)
    BY StepAccounts DEF Accounts
  <2>3. stock[c] \in Int /\ stock'[c] \in Int /\ Taken(c) \in Nat /\ Taken(c)' \in Nat
        /\ Category[c].totalStock \in Nat
    <3>1. TypeOK'
      BY TypeOKKept
    <3> QED BY <3>1, TakenType, CategoryType DEF TypeOK, DbOK
  <2> QED BY <2>1, <2>2, <2>3
<1> QED BY <1>1, <1>2, TypeCorrect, CheckoutIsAlone, PTL DEF Spec

\* The stock drifts only where a handler overwrites a status whose tickets were
\* given back since it read the order.
THEOREM StockDriftsOnlyByOverwrite == Spec => DriftsOnlyByOverwrite
<1>1. TypeOK /\ FreshUntilReserved /\ [Next]_vars =>
        [StockExact /\ ~StockExact' => Overwrite]_vars
  <2> SUFFICES ASSUME TypeOK, FreshUntilReserved, [Next]_vars, StockExact, ~Overwrite
               PROVE  StockExact'
    OBVIOUS
  <2> SUFFICES ASSUME NEW c \in Categories
               PROVE  stock'[c] >= 0 /\ stock'[c] + Taken(c)' = Category[c].totalStock
    BY DEF StockExact
  <2>1. stock[c] >= 0 /\ stock[c] + Taken(c) = Category[c].totalStock
    BY DEF StockExact
  <2> QED BY <2>1, StepAccounts DEF Accounts
<1> QED BY <1>1, TypeCorrect, CheckoutIsAlone, PTL DEF Spec, DriftsOnlyByOverwrite

\* Without such an overwrite the stock is exact, for any number of orders.
THEOREM StockIsExact == Spec /\ [][~Overwrite]_vars => []StockExact
<1>1. Init => StockExact
  <2> SUFFICES ASSUME Init, NEW c \in Categories
               PROVE  stock[c] >= 0 /\ stock[c] + Taken(c) = Category[c].totalStock
    BY DEF StockExact
  <2>1. Held(c) = {}
    BY DEF Init, Held, Holding
  <2>2. Tickets({}) = {}
    BY DEF Tickets
  <2>3. Taken(c) = 0
    BY <2>1, <2>2, FS_EmptySet DEF Taken
  <2>4. stock[c] = Category[c].totalStock /\ Category[c].totalStock \in Nat
    BY CategoryType DEF Init
  <2> QED BY <2>3, <2>4
<1>2. TypeOK /\ FreshUntilReserved /\ StockExact /\ [Next]_vars /\ [~Overwrite]_vars
        => StockExact'
  <2> SUFFICES ASSUME TypeOK, FreshUntilReserved, StockExact, [Next]_vars, [~Overwrite]_vars,
                      NEW c \in Categories
               PROVE  stock'[c] >= 0 /\ stock'[c] + Taken(c)' = Category[c].totalStock
    BY DEF StockExact
  <2>1. stock[c] >= 0 /\ stock[c] + Taken(c) = Category[c].totalStock
    BY DEF StockExact
  <2>2. CASE UNCHANGED vars
    <3>1. Taken(c)' = Taken(c)
      BY <2>2 DEF Taken, Held
    <3> QED BY <2>1, <2>2, <3>1
  <2>3. CASE ~Overwrite
    BY <2>1, <2>3, StepAccounts DEF Accounts
  <2> QED BY <2>2, <2>3
<1> QED BY <1>1, <1>2, TypeCorrect, CheckoutIsAlone, PTL DEF Spec

-----------------------------------------------------------------------------
(* The sale implements the ticket ledger *)

Gone == {o \in OrderIds : status[o] \in Released}
Holders == {o \in OrderIds : status[o] \in Holding}
LedgerStep == [Ledger!Next]_(Ledger!ledgerVars)

\* Writing a status that is on the same side leaves the ledger alone.
LEMMA SameSideStutters ==
    ASSUME DbOK, stock' = stock,
           \A o \in OrderIds : status'[o] = status[o]
                                 \/ (status[o] \in Holding /\ status'[o] \in Holding)
    PROVE  LedgerStep
<1>1. ASSUME NEW o \in OrderIds
      PROVE  /\ status[o] \in Holding <=> status'[o] \in Holding
             /\ status[o] \in Released <=> status'[o] \in Released
  BY DEF Holding, Released
<1>2. Holders' = Holders /\ Gone' = Gone
  BY <1>1 DEF Holders, Gone
<1> QED BY <1>2 DEF LedgerStep, Ledger!ledgerVars, Holders, Gone

\* Every release is the GiveBack of its order.
LEMMA ReleaseGivesBack ==
    ASSUME DbOK, NEW o \in OrderIds, NEW s \in Released,
           status[o] \in Holding, SetOrder(o, s), RestoreStock(o)
    PROVE  LedgerStep
<1>1. s \notin Holding
  BY DEF Holding, Released
<1>2. \A p \in OrderIds : status'[p] = IF p = o THEN s ELSE status[p]
  BY DEF SetOrder, DbOK
<1>3. Holders' = Holders \ {o} /\ Gone' = Gone \cup {o}
  BY <1>1, <1>2 DEF Holders, Gone
<1>4. o \in Holders
  BY DEF Holders
<1>5. Ledger!GiveBack(o)
  BY <1>3, <1>4 DEF Ledger!GiveBack, Holders, Gone, RestoreStock
<1> QED BY <1>5 DEF LedgerStep, Ledger!Next

\* The reservation of a checkout is the Take of its order.
LEMMA ReserveTakes ==
    ASSUME TypeOK, FreshUntilReserved, NEW h \in Procs, CheckoutReserve(h)
    PROVE  LedgerStep
<1>1. CASE UNCHANGED <<stock, status>>
  BY <1>1, SameSideStutters DEF TypeOK
<1>2. CASE ~UNCHANGED <<stock, status>>
  <2>1. PICK o \in OrderIds : o = ord[h] /\ status[o] = "NONE"
    <3>1. pc[h] = "reserve" /\ pc[h] \in OrderSteps
      BY DEF CheckoutReserve, OrderSteps, Steps, CheckoutSteps, CancelSteps
    <3> QED BY <3>1, OrdTyped DEF TypeOK, FreshUntilReserved, OrderSteps
  <2>2. /\ status' = [status EXCEPT ![o] = "PENDING"]
        /\ stock' = [stock EXCEPT ![Dto[o].categoryId] = @ - Dto[o].quantity]
        /\ stock[Dto[o].categoryId] >= Dto[o].quantity
    BY <1>2, <2>1 DEF CheckoutReserve, HasStock, SetOrder
  <2>3. \A p \in OrderIds : status'[p] = IF p = o THEN "PENDING" ELSE status[p]
    BY <2>1, <2>2 DEF TypeOK, DbOK
  <2>4. Holders' = Holders \cup {o} /\ Gone' = Gone /\ o \notin Holders \cup Gone
    BY <2>1, <2>3 DEF Holders, Gone, Holding, Released
  <2>5. Ledger!Take(o)
    BY <2>2, <2>4 DEF Ledger!Take, Holders, Gone
  <2> QED BY <2>5 DEF LedgerStep, Ledger!Next
<1> QED BY <1>1, <1>2

\* Every step that overwrites no released order is a step of the ledger.
LEMMA StepImplements ==
    ASSUME TypeOK, FreshUntilReserved, [Next]_vars, ~Overwrite
    PROVE  LedgerStep
<1>1. CASE UNCHANGED <<stock, status>>
  BY <1>1, SameSideStutters DEF TypeOK
<1>2. ASSUME NEW h \in Procs, CheckoutRollback(h) \/ MarkFailed(h) \/ ExpireOrder(h) \/ MarkRefunded(h)
      PROVE  LedgerStep
  <2>1. /\ pc[h] \in {"rollback", "markFailed", "expire", "markRefunded"}
        /\ pc[h] \in OrderSteps
    BY <1>2 DEF CheckoutRollback, MarkFailed, ExpireOrder, MarkRefunded, OrderSteps, Steps,
           CheckoutSteps, FailedSteps, ExpirySteps, RefundSteps, CancelSteps
  <2>2. ord[h] \in OrderIds /\ status[ord[h]] # "NONE"
    BY <2>1, OrdTyped DEF TypeOK, FreshUntilReserved, OrderSteps
  <2>3. PICK s \in Released : SetOrder(ord[h], s)
    BY <1>2 DEF CheckoutRollback, MarkFailed, ExpireOrder, MarkRefunded, RefundStatus, Released
  <2>4. RestoreStock(ord[h]) /\ pc'[h] # pc[h]
    BY <1>2, <2>1 DEF CheckoutRollback, MarkFailed, ExpireOrder, MarkRefunded, Await, Return,
                TypeOK, ProcOK
  <2>5. status[ord[h]] \in Holding
    BY <2>1, <2>2, <2>4 DEF Overwrite, Released, Holding, TypeOK, DbOK, OrderStatus
  <2> QED BY <2>2, <2>3, <2>4, <2>5, ReleaseGivesBack DEF TypeOK
<1>3. ASSUME NEW h \in Procs, MarkPaid(h) PROVE LedgerStep
  <2>1. pc[h] = "markPaid" /\ pc[h] \in OrderSteps
    BY <1>3 DEF MarkPaid, OrderSteps, Steps, SucceededSteps, CancelSteps
  <2>2. ord[h] \in OrderIds /\ status[ord[h]] # "NONE" /\ pc'[h] # pc[h]
    BY <1>3, <2>1, OrdTyped DEF MarkPaid, Await, TypeOK, ProcOK, FreshUntilReserved, OrderSteps
  <2>3. status[ord[h]] \in Holding /\ "PAID" \in Holding
    BY <2>1, <2>2 DEF Overwrite, Released, Holding, TypeOK, DbOK, OrderStatus
  <2>4. stock' = stock /\ status' = [status EXCEPT ![ord[h]] = "PAID"]
    BY <1>3 DEF MarkPaid, SetOrder
  <2> QED BY <2>2, <2>3, <2>4, SameSideStutters DEF TypeOK, DbOK
<1>4. ASSUME NEW h \in Procs, CancelOrders(h) PROVE LedgerStep
  BY <1>4, SameSideStutters DEF CancelOrders, TypeOK, Holding
<1>5. ASSUME NEW h \in Procs, Continue(h), ~UNCHANGED <<stock, status>>
      PROVE  LedgerStep
  <2>1. \/ CheckoutReserve(h) \/ MarkPaid(h) \/ CancelOrders(h)
        \/ CheckoutRollback(h) \/ MarkFailed(h) \/ ExpireOrder(h) \/ MarkRefunded(h)
    BY <1>5, StockWriters
  <2> QED BY <2>1, <1>2, <1>3, <1>4, ReserveTakes
<1> QED BY <1>1, <1>5, StockWriters DEF Next

\* As long as no handler overwrites a released order, the whole order life
\* implements the abstract sale.
THEOREM SaleImplementsLedger == Spec /\ [][~Overwrite]_vars => ImplementsLedger
<1>1. Init => Ledger!Init
  BY DEF Init, Ledger!Init, Holding, Released
<1>2. TypeOK /\ FreshUntilReserved /\ [Next]_vars /\ [~Overwrite]_vars
        => [Ledger!Next]_(Ledger!ledgerVars)
  <2> SUFFICES ASSUME TypeOK, FreshUntilReserved, [Next]_vars, [~Overwrite]_vars
               PROVE  LedgerStep
    BY DEF LedgerStep
  <2>1. CASE UNCHANGED vars
    BY <2>1, SameSideStutters DEF TypeOK
  <2> QED BY <2>1, StepImplements
<1> QED BY <1>1, <1>2, TypeCorrect, CheckoutIsAlone, PTL
       DEF Spec, ImplementsLedger, Ledger!Spec

-----------------------------------------------------------------------------
(* The limit per user *)

Owned(u, c) == {o \in OrderIds : /\ Dto[o].userId = u
                                 /\ Dto[o].categoryId = c
                                 /\ status[o] \in {"PENDING", "PAID"}}

\* No two checkouts of one user for one category have both read what the user
\* owns and not reserved yet (a lock on user and category would see to it).
CheckoutsApart ==
    \A g, h \in Procs :
        /\ pc[g] = "reserve" /\ pc[h] = "reserve"
        /\ Dto[ord[g]].userId = Dto[ord[h]].userId
        /\ Dto[ord[g]].categoryId = Dto[ord[h]].categoryId
        => g = h

\* An order that is over becomes PAID.
PaidLate ==
    \E o \in OrderIds : status[o] \notin {"PENDING", "PAID"} /\ status'[o] = "PAID"

LimitInv ==
    /\ TicketLimit
    /\ \A h \in Procs : pc[h] = "reserve" => WithinLimit(Dto[ord[h]])

LEMMA TicketsGrow ==
    ASSUME NEW S, NEW T, S \subseteq T, T \subseteq OrderIds
    PROVE  Cardinality(Tickets(S)) <= Cardinality(Tickets(T))
<1>1. Tickets(S) \subseteq Tickets(T)
  BY DEF Tickets
<1> QED BY <1>1, TicketsFinite, FS_Subset

LEMMA OwnedType ==
    ASSUME NEW u, NEW c
    PROVE  /\ Owned(u, c) \subseteq OrderIds /\ Owned(u, c)' \subseteq OrderIds
           /\ AlreadyOwned(u, c) = Cardinality(Tickets(Owned(u, c)))
           /\ AlreadyOwned(u, c)' = Cardinality(Tickets(Owned(u, c)'))
           /\ AlreadyOwned(u, c) \in Nat /\ AlreadyOwned(u, c)' \in Nat
<1>1. Owned(u, c) \subseteq OrderIds /\ Owned(u, c)' \subseteq OrderIds
  BY DEF Owned
<1>2. /\ AlreadyOwned(u, c) = Cardinality(Tickets(Owned(u, c)))
      /\ AlreadyOwned(u, c)' = Cardinality(Tickets(Owned(u, c)'))
  BY DEF AlreadyOwned, Owned
<1> QED BY <1>1, <1>2, TicketsFinite

\* Only a reservation makes a user own an order more.
LEMMA OwnedByReserving ==
    ASSUME TypeOK, [Next]_vars, [~PaidLate]_vars, NEW u, NEW c
    PROVE  \/ Owned(u, c)' \subseteq Owned(u, c)
           \/ \E h \in Procs :
                 /\ pc[h] = "reserve" /\ ord[h] \in OrderIds /\ CheckoutReserve(h)
                 /\ Dto[ord[h]].userId = u /\ Dto[ord[h]].categoryId = c
                 /\ Owned(u, c)' = Owned(u, c) \cup {ord[h]}
                 /\ ord[h] \notin Owned(u, c)
<1> SUFFICES ASSUME NEW o \in Owned(u, c)', o \notin Owned(u, c)
             PROVE  \E h \in Procs :
                       /\ pc[h] = "reserve" /\ ord[h] = o /\ CheckoutReserve(h)
                       /\ Owned(u, c)' = Owned(u, c) \cup {o}
  BY DEF Owned
<1>1. /\ o \in OrderIds /\ status[o] \notin {"PENDING", "PAID"}
      /\ status'[o] \in {"PENDING", "PAID"}
  BY DEF Owned
<1>2. status'[o] = "PENDING"
  BY <1>1 DEF PaidLate
<1>3. PICK h \in Procs : pc[h] = "reserve" /\ ord[h] = o /\ CheckoutReserve(h)
  BY <1>1, <1>2, StatusWrites
<1>4. SetOrder(o, "PENDING")
  BY <1>1, <1>2, <1>3 DEF CheckoutReserve
<1>5. \A p \in OrderIds : status'[p] = IF p = o THEN "PENDING" ELSE status[p]
  BY <1>4 DEF SetOrder, TypeOK, DbOK
<1>6. Owned(u, c)' = Owned(u, c) \cup {o}
  BY <1>1, <1>5 DEF Owned
<1> QED BY <1>3, <1>6

LEMMA LimitKept ==
    ASSUME TypeOK, LimitInv, CheckoutsApart, [Next]_vars, [~PaidLate]_vars
    PROVE  LimitInv'
<1>1. ASSUME NEW u \in Users, NEW c \in Categories
      PROVE  AlreadyOwned(u, c)' <= Category[c].maxTicketsPerUser
  <2>0. Category[c].maxTicketsPerUser \in Nat
    BY CategoryType
  <2>1. CASE Owned(u, c)' \subseteq Owned(u, c)
    <3>1. AlreadyOwned(u, c)' <= AlreadyOwned(u, c)
      BY <2>1, OwnedType, TicketsGrow
    <3> QED BY <2>0, <3>1, OwnedType DEF LimitInv, TicketLimit
  <2>2. ASSUME NEW h \in Procs, pc[h] = "reserve", ord[h] \in OrderIds,
               Dto[ord[h]].userId = u, Dto[ord[h]].categoryId = c,
               Owned(u, c)' = Owned(u, c) \cup {ord[h]}, ord[h] \notin Owned(u, c)
        PROVE  AlreadyOwned(u, c)' <= Category[c].maxTicketsPerUser
    <3>1. AlreadyOwned(u, c)' = AlreadyOwned(u, c) + Dto[ord[h]].quantity
      BY <2>2, OwnedType, TicketsAdd
    <3>2. AlreadyOwned(u, c) + Dto[ord[h]].quantity <= Category[c].maxTicketsPerUser
      BY <2>2 DEF LimitInv, WithinLimit
    <3> QED BY <3>1, <3>2
  <2> QED BY <2>1, <2>2, OwnedByReserving
<1>2. ASSUME NEW h \in Procs, pc'[h] = "reserve"
      PROVE  WithinLimit(Dto[ord[h]])' /\ ord'[h] = ord[h]
  <2>0. PICK d : d = Dto[ord[h]]
    OBVIOUS
  <2> DEFINE u == d.userId
             c == d.categoryId
  <2>1. CASE pc[h] # "reserve"
    <3>1. CheckoutAggregate(h)
      BY <1>2, <2>1, CameBy
    <3>2. WithinLimit(d) /\ status' = status /\ ord' = ord
      BY <1>2, <2>0, <3>1 DEF CheckoutAggregate, Await, Return, TypeOK, ProcOK
    <3> QED BY <2>0, <3>2 DEF WithinLimit, AlreadyOwned
  <2>2. CASE pc[h] = "reserve"
    <3>0. /\ ord'[h] = ord[h] /\ ord[h] \in OrderIds /\ d.quantity \in Nat
          /\ Category[c].maxTicketsPerUser \in Nat
      <4>1. pc[h] \in OrderSteps
        BY <2>2 DEF OrderSteps, Steps, CheckoutSteps, CancelSteps
      <4>2. ord'[h] = ord[h] /\ ord[h] \in OrderIds
        BY <1>2, <2>2, <4>1, CameBy, OrdTyped DEF TypeOK
      <4> QED BY <2>0, <4>2, DtoType, CategoryType
    <3>1. ASSUME NEW g \in Procs, pc[g] = "reserve", CheckoutReserve(g),
                 Dto[ord[g]].userId = u, Dto[ord[g]].categoryId = c
          PROVE  FALSE
      <4>1. g = h
        BY <2>0, <2>2, <3>1 DEF CheckoutsApart
      <4> QED BY <1>2, <3>1, <4>1 DEF CheckoutReserve, Await, Return, TypeOK, ProcOK
    <3>2. Owned(u, c)' \subseteq Owned(u, c)
      BY <3>1, OwnedByReserving
    <3>3. AlreadyOwned(u, c)' <= AlreadyOwned(u, c)
      BY <3>2, OwnedType, TicketsGrow
    <3>4. AlreadyOwned(u, c) + d.quantity <= Category[c].maxTicketsPerUser
      BY <2>0, <2>2 DEF LimitInv, WithinLimit
    <3>5. AlreadyOwned(u, c)' + d.quantity <= Category[c].maxTicketsPerUser
      BY <3>0, <3>3, <3>4, OwnedType
    <3>6. WithinLimit(d)' /\ Dto[ord'[h]] = d
      BY <2>0, <3>0, <3>5 DEF WithinLimit
    <3> QED BY <3>0, <3>6 DEF WithinLimit, AlreadyOwned
  <2> QED BY <2>1, <2>2
<1> QED BY <1>1, <1>2 DEF LimitInv, TicketLimit

\* Checkouts that are kept apart never exceed maxTicketsPerUser, whatever else
\* is interleaved, as long as no order that is over becomes PAID.
THEOREM LimitHolds ==
    Spec /\ []CheckoutsApart /\ [][~PaidLate]_vars => []TicketLimit
<1>1. Init => LimitInv
  <2> SUFFICES ASSUME Init PROVE LimitInv
    OBVIOUS
  <2>1. ASSUME NEW u \in Users, NEW c \in Categories
        PROVE  AlreadyOwned(u, c) <= Category[c].maxTicketsPerUser
    <3>1. Owned(u, c) = {}
      BY DEF Init, Owned
    <3>2. Tickets({}) = {}
      BY DEF Tickets
    <3>3. AlreadyOwned(u, c) = 0
      BY <3>1, <3>2, OwnedType, FS_EmptySet
    <3> QED BY <3>3, CategoryType
  <2>2. \A h \in Procs : pc[h] # "reserve"
    BY DEF Init
  <2> QED BY <2>1, <2>2 DEF LimitInv, TicketLimit
<1>2. TypeOK /\ LimitInv /\ CheckoutsApart /\ [Next]_vars /\ [~PaidLate]_vars => LimitInv'
  BY LimitKept
<1>3. LimitInv => TicketLimit
  BY DEF LimitInv
<1> QED BY <1>1, <1>2, <1>3, TypeCorrect, PTL DEF Spec

\* Without an overwrite of a released status, orders never hold more tickets
\* than there are.
THEOREM NothingIsOversold == Spec /\ [][~Overwrite]_vars => []NoOverselling
<1>1. TypeOK /\ StockExact => NoOverselling
  <2> SUFFICES ASSUME TypeOK, StockExact, NEW c \in Categories
               PROVE  Taken(c) <= Category[c].totalStock
    BY DEF NoOverselling
  <2>1. stock[c] \in Int /\ Taken(c) \in Nat /\ Category[c].totalStock \in Nat
    BY TakenType, CategoryType DEF TypeOK, DbOK
  <2> QED BY <2>1 DEF StockExact
<1> QED BY <1>1, TypeCorrect, StockIsExact, PTL
=============================================================================
