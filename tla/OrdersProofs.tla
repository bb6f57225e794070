---------------------------- MODULE OrdersProofs ----------------------------
EXTENDS Orders, TLAPS, FiniteSetTheorems

USE DEF vars, dbVars, stripeVars, redisVars, procVars, envVars

OrderSteps == Steps \ ({"idle"} \cup CancelSteps)

LEMMA InitTypeOK == Init => TypeOK
BY OrdersFinite, DtoType, CategoryType
   DEF Init, TypeOK, DbOK, StripeOK, RedisOK, ProcOK, EnvOK, EventStatus, OrderStatus,
       JobState, MailKinds, Hooks, HookTypes, Steps, CancelSteps

LEMMA AwaitOK ==
    ASSUME ProcOK, NEW h \in Procs, NEW step \in OrderSteps, pc[h] \in OrderSteps, Await(h, step)
    PROVE  ProcOK'
BY DEF ProcOK, Await, OrderSteps

LEMMA EnterOK ==
    ASSUME ProcOK, NEW h \in Procs, NEW step \in OrderSteps, NEW o \in OrderIds,
           Enter(h, o, step)
    PROVE  ProcOK'
BY OrdersFinite DEF ProcOK, Enter, OrderSteps

LEMMA ReturnOK ==
    ASSUME ProcOK, NEW h \in Procs, Return(h)
    PROVE  ProcOK'
BY DEF ProcOK, Return, Steps

LEMMA OrdTyped ==
    ASSUME ProcOK, NEW h \in Procs, pc[h] \in OrderSteps
    PROVE  ord[h] \in OrderIds
BY DEF ProcOK, OrderSteps

LEMMA OrderStepNames ==
    /\ CheckoutSteps \subseteq OrderSteps /\ SucceededSteps \subseteq OrderSteps
    /\ FailedSteps \subseteq OrderSteps /\ ExpirySteps \subseteq OrderSteps
    /\ RefundSteps \subseteq OrderSteps
BY DEF OrderSteps, Steps, CheckoutSteps, SucceededSteps, FailedSteps, ExpirySteps,
       RefundSteps, CancelSteps

LEMMA RestoreOK ==
    ASSUME DbOK, NEW o \in OrderIds, RestoreStock(o)
    PROVE  stock' \in [Categories -> Int]
BY DtoType DEF DbOK, RestoreStock

LEMMA SetOrderOK ==
    ASSUME DbOK, NEW o \in OrderIds, NEW s \in OrderStatus, SetOrder(o, s)
    PROVE  status' \in [OrderIds -> OrderStatus]
BY DEF DbOK, SetOrder

LEMMA MailOK ==
    ASSUME RedisOK, NEW o \in OrderIds, NEW kind \in MailKinds, AddEmailJob(kind, o)
    PROVE  mails' \in [MailKinds \X OrderIds -> Nat]
BY DEF RedisOK, AddEmailJob

-----------------------------------------------------------------------------
(* One lemma per action for which TypeOK takes more than unfolding *)

LEMMA CheckoutTypeOK ==
    ASSUME TypeOK, NEW h \in Procs,
           \/ CheckoutAggregate(h) \/ CheckoutReserve(h)
           \/ CreatePaymentIntent(h) \/ CreatePaymentIntentFails(h) \/ CheckoutRollback(h)
           \/ SavePaymentIntent(h) \/ AddOrderExpiryJob(h) \/ AddReminder(h) \/ AnswerCheckout(h)
    PROVE  TypeOK'
<1>0. pc[h] \in CheckoutSteps
  BY DEF CheckoutAggregate, CheckoutReserve, CreatePaymentIntent, CreatePaymentIntentFails,
         CheckoutRollback, SavePaymentIntent, AddOrderExpiryJob, AddReminder, AnswerCheckout,
         CheckoutSteps
<1>a. pc[h] \in OrderSteps /\ CheckoutSteps \subseteq OrderSteps /\ ord[h] \in OrderIds
  BY <1>0, OrderStepNames, OrdTyped DEF TypeOK
<1>1. ASSUME CheckoutAggregate(h) PROVE TypeOK'
  BY <1>1, <1>a, AwaitOK, ReturnOK
     DEF CheckoutAggregate, CheckoutSteps, TypeOK, DbOK, StripeOK, RedisOK, EnvOK
<1>2. ASSUME CheckoutReserve(h) PROVE TypeOK'
  <2>1. ProcOK'
    BY <1>2, <1>a, AwaitOK, ReturnOK DEF CheckoutReserve, CheckoutSteps, TypeOK
  <2>2. stock' \in [Categories -> Int] /\ status' \in [OrderIds -> OrderStatus]
    BY <1>2, <1>a, DtoType, SetOrderOK DEF CheckoutReserve, TypeOK, DbOK, OrderStatus
  <2> QED
    BY <1>2, <2>1, <2>2 DEF CheckoutReserve, TypeOK, DbOK, StripeOK, RedisOK, EnvOK
<1>3. ASSUME CreatePaymentIntent(h) PROVE TypeOK'
  BY <1>3, <1>a, AwaitOK, ReturnOK
     DEF CreatePaymentIntent, CheckoutSteps, TypeOK, DbOK, StripeOK, RedisOK, EnvOK
<1>4. ASSUME CreatePaymentIntentFails(h) PROVE TypeOK'
  BY <1>4, <1>a, AwaitOK
     DEF CreatePaymentIntentFails, CheckoutSteps, TypeOK, DbOK, StripeOK, RedisOK, EnvOK
<1>5. ASSUME CheckoutRollback(h) PROVE TypeOK'
  BY <1>5, <1>a, ReturnOK, RestoreOK, SetOrderOK
     DEF CheckoutRollback, OrderStatus, TypeOK, DbOK, StripeOK, RedisOK, EnvOK
<1>6. ASSUME SavePaymentIntent(h) PROVE TypeOK'
  BY <1>6, <1>a, AwaitOK
     DEF SavePaymentIntent, CheckoutSteps, TypeOK, DbOK, StripeOK, RedisOK, EnvOK
<1>7. ASSUME AddOrderExpiryJob(h) PROVE TypeOK'
  BY <1>7, <1>a, AwaitOK
     DEF AddOrderExpiryJob, CheckoutSteps, JobState, TypeOK, DbOK, StripeOK, RedisOK, EnvOK
<1>8. ASSUME AddReminder(h) PROVE TypeOK'
  BY <1>8, <1>a, AwaitOK, MailOK
     DEF AddReminder, CheckoutSteps, MailKinds, TypeOK, DbOK, StripeOK, RedisOK, EnvOK
<1>9. ASSUME AnswerCheckout(h) PROVE TypeOK'
  BY <1>9, <1>a, ReturnOK DEF AnswerCheckout, TypeOK, DbOK, StripeOK, RedisOK, EnvOK
<1> QED BY <1>1, <1>2, <1>3, <1>4, <1>5, <1>6, <1>7, <1>8, <1>9

LEMMA StripeTypeOK ==
    ASSUME TypeOK,
           \/ \E o \in OrderIds : CustomerPays(o) \/ PaymentDeclined(o)
           \/ \E e \in Hooks : Redeliver(e)
           \/ Tick
           \/ \E s \in StatusRequests : UpdateStatus(s)
    PROVE  TypeOK'
<1>1. ASSUME NEW o \in OrderIds, CustomerPays(o) \/ PaymentDeclined(o) PROVE TypeOK'
  <2>1. charged' \subseteq OrderIds /\ declines' \in [OrderIds -> Nat]
    BY <1>1 DEF CustomerPays, PaymentDeclined, TypeOK, StripeOK, EnvOK
  <2>2. due' \in [Hooks -> Nat]
    BY <1>1 DEF CustomerPays, PaymentDeclined, TypeOK, StripeOK, Hooks, HookTypes
  <2> QED BY <1>1, <2>1, <2>2
             DEF CustomerPays, PaymentDeclined, TypeOK, DbOK, StripeOK, RedisOK, ProcOK, EnvOK
<1>2. ASSUME NEW e \in Hooks, Redeliver(e) PROVE TypeOK'
  BY <1>2 DEF Redeliver, TypeOK, DbOK, StripeOK, RedisOK, ProcOK, EnvOK
<1>3. ASSUME Tick PROVE TypeOK'
  BY <1>3 DEF Tick, TypeOK, DbOK, StripeOK, RedisOK, ProcOK, EnvOK
<1>4. ASSUME NEW s \in StatusRequests, UpdateStatus(s) PROVE TypeOK'
  BY <1>4, BoundsType DEF UpdateStatus, TypeOK, DbOK, StripeOK, RedisOK, ProcOK, EnvOK
<1> QED BY <1>1, <1>2, <1>3, <1>4

LEMMA ArriveTypeOK ==
    ASSUME TypeOK, NEW h \in Procs, Arrive(h)
    PROVE  TypeOK'
<1>0. /\ {"aggregate", "stripeRefund", "markPaid", "markFailed"} \subseteq OrderSteps
      /\ "findAffected" \in CancelSteps /\ "findAffected" \in Steps
  BY DEF OrderSteps, Steps, CheckoutSteps, SucceededSteps, FailedSteps, RefundSteps, CancelSteps
<1>1. ASSUME CancelRequest(h) PROVE TypeOK'
  <2>1. ProcOK'
    BY <1>0, <1>1 DEF CancelRequest, Enter, TypeOK, ProcOK
  <2> QED BY <1>1, <2>1 DEF CancelRequest, TypeOK, DbOK, StripeOK, RedisOK, EnvOK
<1>2. ASSUME NEW o \in OrderIds, CheckoutRequest(h, o) \/ RefundRequest(h, o) PROVE TypeOK'
  BY <1>0, <1>2, EnterOK
     DEF CheckoutRequest, RefundRequest, TypeOK, DbOK, StripeOK, RedisOK, EnvOK
<1>3. ASSUME NEW o \in OrderIds, PaymentSucceeded(h, o) PROVE TypeOK'
  <2>1. ProcOK'
    BY <1>0, <1>3, EnterOK DEF PaymentSucceeded, Dispatch, TypeOK, ProcOK
  <2>2. due' \in [Hooks -> Nat]
    BY <1>3 DEF PaymentSucceeded, TypeOK, StripeOK, Hooks, HookTypes
  <2> QED BY <1>3, <2>1, <2>2 DEF PaymentSucceeded, TypeOK, DbOK, StripeOK, RedisOK, EnvOK
<1>4. ASSUME NEW o \in OrderIds, PaymentFailed(h, o) PROVE TypeOK'
  <2>1. ProcOK'
    BY <1>0, <1>4, EnterOK DEF PaymentFailed, Dispatch, TypeOK, ProcOK
  <2>2. due' \in [Hooks -> Nat]
    BY <1>4 DEF PaymentFailed, TypeOK, StripeOK, Hooks, HookTypes
  <2> QED BY <1>4, <2>1, <2>2 DEF PaymentFailed, TypeOK, DbOK, StripeOK, RedisOK, EnvOK
<1> QED BY <1>1, <1>2, <1>3, <1>4 DEF Arrive

LEMMA ExpiryStartTypeOK ==
    ASSUME TypeOK, NEW o \in OrderIds, ExpiryJobStart(o)
    PROVE  TypeOK'
<1>1. Worker \in Procs /\ "expire" \in OrderSteps
  BY DEF Procs, OrderSteps, Steps, ExpirySteps, CancelSteps
<1>2. ProcOK'
  BY <1>1, EnterOK DEF ExpiryJobStart, TypeOK, ProcOK
<1>3. jobs' \in [OrderIds -> JobState]
  BY DEF ExpiryJobStart, TypeOK, RedisOK, JobState
<1> QED BY <1>2, <1>3 DEF ExpiryJobStart, TypeOK, DbOK, StripeOK, RedisOK, EnvOK

\* The four handlers that write a status after reading the order.
LEMMA WriteTypeOK ==
    ASSUME TypeOK, NEW h \in Procs,
           MarkPaid(h) \/ MarkFailed(h) \/ ExpireOrder(h) \/ StripeRefund(h) \/ MarkRefunded(h)
    PROVE  TypeOK'
<1>0. /\ pc[h] \in OrderSteps /\ ord[h] \in OrderIds
      /\ {"purchaseMail", "failedEmit", "expiredMail", "markRefunded", "refundMail"}
            \subseteq OrderSteps
  <2>1. pc[h] \in SucceededSteps \cup FailedSteps \cup ExpirySteps \cup RefundSteps
    BY DEF MarkPaid, MarkFailed, ExpireOrder, StripeRefund, MarkRefunded,
           SucceededSteps, FailedSteps, ExpirySteps, RefundSteps
  <2> QED BY <2>1, OrderStepNames, OrdTyped
             DEF TypeOK, SucceededSteps, FailedSteps, ExpirySteps, RefundSteps
<1>1. ASSUME MarkPaid(h) PROVE TypeOK'
  BY <1>0, <1>1, AwaitOK, SetOrderOK
     DEF MarkPaid, OrderStatus, TypeOK, DbOK, StripeOK, RedisOK, EnvOK
<1>2. ASSUME MarkFailed(h) PROVE TypeOK'
  BY <1>0, <1>2, AwaitOK, SetOrderOK, RestoreOK
     DEF MarkFailed, OrderStatus, TypeOK, DbOK, StripeOK, RedisOK, EnvOK
<1>3. ASSUME ExpireOrder(h) PROVE TypeOK'
  BY <1>0, <1>3, AwaitOK, SetOrderOK, RestoreOK
     DEF ExpireOrder, OrderStatus, TypeOK, DbOK, StripeOK, RedisOK, EnvOK
<1>4. ASSUME StripeRefund(h) PROVE TypeOK'
  <2>1. UNCHANGED <<dbVars, charged, declines, due, redisVars, envVars>>
    BY <1>4 DEF StripeRefund
  <2>2. Await(h, "markRefunded") \/ Return(h)
    BY <1>4 DEF StripeRefund
  <2>3. ProcOK'
    BY <1>0, <2>2, AwaitOK, ReturnOK DEF TypeOK
  <2>4. refunds' \in [OrderIds -> Nat]
    <3>1. refunds \in [OrderIds -> Nat]
      BY DEF TypeOK, StripeOK
    <3>2. refunds' = refunds \/ refunds' = [refunds EXCEPT ![ord[h]] = @ + 1]
      BY <1>4 DEF StripeRefund
    <3> QED BY <1>0, <3>1, <3>2
  <2>5. StripeOK'
    BY <2>1, <2>4 DEF TypeOK, StripeOK
  <2> QED BY <2>1, <2>3, <2>5 DEF TypeOK, DbOK, RedisOK, EnvOK
<1>5. ASSUME MarkRefunded(h) PROVE TypeOK'
  <2> DEFINE s == RefundStatus(Category[Dto[ord[h]].categoryId].refundPercentage)
  <2>1. s \in OrderStatus
    BY DEF RefundStatus, OrderStatus
  <2> HIDE DEF s
  <2>2. SetOrder(ord[h], s) /\ RestoreStock(ord[h]) /\ Await(h, "refundMail")
    BY <1>5 DEF MarkRefunded, s
  <2> QED
    BY <1>0, <1>5, <2>1, <2>2, AwaitOK, SetOrderOK, RestoreOK
       DEF MarkRefunded, TypeOK, DbOK, StripeOK, RedisOK, EnvOK
<1> QED BY <1>1, <1>2, <1>3, <1>4, <1>5

LEMMA CancelTypeOK ==
    ASSUME TypeOK, NEW h \in Procs,
           \/ FindAffected(h) \/ CancelOrders(h) \/ CancelDone(h)
           \/ \E o \in OrderIds : CancelMail(h, o)
    PROVE  TypeOK'
<1>1. ASSUME FindAffected(h) PROVE TypeOK'
  BY <1>1 DEF FindAffected, OrdersAffected, Steps, CancelSteps,
              TypeOK, DbOK, StripeOK, RedisOK, ProcOK, EnvOK
<1>2. ASSUME CancelOrders(h) PROVE TypeOK'
  BY <1>2 DEF CancelOrders, Await, Steps, CancelSteps, OrderStatus, EventStatus,
              TypeOK, DbOK, StripeOK, RedisOK, ProcOK, EnvOK
<1>3. ASSUME CancelDone(h) PROVE TypeOK'
  BY <1>3, ReturnOK DEF CancelDone, TypeOK, DbOK, StripeOK, RedisOK, EnvOK
<1>4. ASSUME NEW o \in OrderIds, CancelMail(h, o) PROVE TypeOK'
  <2>1. mails' \in [MailKinds \X OrderIds -> Nat]
    BY <1>4, MailOK DEF CancelMail, MailKinds, TypeOK
  <2> QED BY <1>4, <2>1 DEF CancelMail, TypeOK, DbOK, StripeOK, RedisOK, ProcOK, EnvOK
<1> QED BY <1>1, <1>2, <1>3, <1>4

LEMMA TailTypeOK ==
    ASSUME TypeOK, NEW h \in Procs, SendMail(h) \/ EmitStock(h)
    PROVE  TypeOK'
<1>1. ASSUME SendMail(h) PROVE TypeOK'
  <2>1. pc[h] \in {"purchaseMail", "expiredMail", "refundMail"}
    BY <1>1 DEF SendMail, Tail
  <2>2. /\ pc[h] \in OrderSteps /\ ord[h] \in OrderIds
        /\ Tail[pc[h]][1] \in MailKinds /\ Tail[pc[h]][2] \in OrderSteps
    BY <2>1, OrderStepNames, OrdTyped
       DEF TypeOK, Tail, SucceededSteps, ExpirySteps, RefundSteps, MailKinds
  <2>3. ProcOK' /\ mails' \in [MailKinds \X OrderIds -> Nat]
    BY <1>1, <2>2, AwaitOK, MailOK DEF SendMail, TypeOK
  <2> QED BY <1>1, <2>3 DEF SendMail, TypeOK, DbOK, StripeOK, RedisOK, EnvOK
<1>2. ASSUME EmitStock(h) PROVE TypeOK'
  BY <1>2, ReturnOK DEF EmitStock, JobState, TypeOK, DbOK, StripeOK, RedisOK, EnvOK
<1> QED BY <1>1, <1>2

LEMMA FailureTypeOK ==
    ASSUME TypeOK, Crash \/ \E h \in Procs : Rejects(h)
    PROVE  TypeOK'
<1>1. ASSUME NEW h \in Procs, Rejects(h) PROVE TypeOK'
  <2>1. ProcOK'
    BY <1>1, ReturnOK DEF Rejects, TypeOK
  <2>2. due' \in [Hooks -> Nat]
    BY <1>1 DEF Rejects, TypeOK, StripeOK
  <2>3. attempts' \in [OrderIds -> Nat] /\ jobs' \in [OrderIds -> JobState]
    BY <1>1 DEF Rejects, TypeOK, RedisOK, JobState
  <2> QED BY <1>1, <2>1, <2>2, <2>3 DEF Rejects, TypeOK, DbOK, StripeOK, RedisOK, EnvOK
<1>2. ASSUME Crash PROVE TypeOK'
  <2>1. ProcOK'
    BY <1>2 DEF Crash, ProcOK, Steps
  <2>2. \A e \in Hooks : Cardinality({h \in Procs : Serves(h, e)}) \in Nat
    <3>1. IsFiniteSet(Procs)
      BY HandlersFinite, FS_Singleton, FS_Union DEF Procs
    <3> QED BY <3>1, FS_Subset, FS_CardinalityType
  <2>3. due' \in [Hooks -> Nat]
    BY <1>2, <2>2 DEF Crash, TypeOK, StripeOK
  <2>4. stalls' \in [OrderIds -> Nat] /\ jobs' \in [OrderIds -> JobState]
    BY <1>2 DEF Crash, TypeOK, RedisOK, JobState
  <2> QED BY <1>2, <2>1, <2>3, <2>4 DEF Crash, TypeOK, DbOK, StripeOK, RedisOK, EnvOK
<1> QED BY <1>1, <1>2

LEMMA TypeOKKept ==
    ASSUME TypeOK, [Next]_vars
    PROVE  TypeOK'
<1>1. ASSUME NEW h \in Procs, Continue(h) PROVE TypeOK'
  BY <1>1, CheckoutTypeOK, WriteTypeOK, CancelTypeOK, TailTypeOK, FailureTypeOK DEF Continue
<1>2. ASSUME NEW h \in Handlers, Arrive(h) PROVE TypeOK'
  BY <1>2, ArriveTypeOK DEF Procs
<1>3. CASE UNCHANGED vars
  BY <1>3 DEF TypeOK, DbOK, StripeOK, RedisOK, ProcOK, EnvOK
<1> QED BY <1>1, <1>2, <1>3, ExpiryStartTypeOK, StripeTypeOK, FailureTypeOK DEF Next

\* Every variable keeps its type, and a handler serves an order exactly in the
\* steps that read one.
THEOREM TypeCorrect == Spec => []TypeOK
<1>1. TypeOK /\ [Next]_vars => TypeOK'
  BY TypeOKKept
<1> QED BY <1>1, InitTypeOK, PTL DEF Spec

-----------------------------------------------------------------------------
(* A checkout is alone with its order until it reserves *)

\* The steps that write a status: FreshUntilReserved is about nothing else.
LEMMA FreshWrites ==
    ASSUME TypeOK, FreshUntilReserved, NEW h \in Procs, NEW s \in OrderStatus \ {"NONE"},
           NEW step \in Steps \ {"aggregate", "reserve"},
           pc[h] \in OrderSteps \ {"aggregate"}, SetOrder(ord[h], s),
           \/ step \in OrderSteps /\ Await(h, step)
           \/ Return(h),
           piSaved' = piSaved
    PROVE  FreshUntilReserved'
<1>1. ord[h] \in OrderIds /\ status \in [OrderIds -> OrderStatus]
  BY OrdTyped DEF TypeOK, DbOK
<1>2. \A g \in Procs : pc[g] \in {"aggregate", "reserve"} /\ ord[g] = ord[h] => g = h
  BY DEF FreshUntilReserved
<1>3. \A g \in Procs \ {h} : pc'[g] = pc[g] /\ ord'[g] = ord[g]
  BY DEF Await, Return, TypeOK, ProcOK
<1>4. /\ pc'[h] \notin {"aggregate", "reserve"}
      /\ pc'[h] = "idle" \/ ord'[h] = ord[h]
  BY DEF Await, Return, TypeOK, ProcOK
<1>5. status'[ord[h]] # "NONE" /\ \A o \in OrderIds \ {ord[h]} : status'[o] = status[o]
  BY <1>1 DEF SetOrder
<1>6. \A g \in Procs : pc[g] \in OrderSteps => ord[g] \in OrderIds
  BY OrdTyped DEF TypeOK
<1>7. ASSUME NEW g \in Procs, pc'[g] \notin {"idle"} \cup CancelSteps
      PROVE  status'[ord'[g]] = "NONE" <=> pc'[g] \in {"aggregate", "reserve"}
  <2>1. CASE g = h
    BY <1>4, <1>5, <1>7, <2>1
  <2>2. CASE g # h
    <3>1. pc[g] \in OrderSteps /\ ord[g] \in OrderIds
      BY <1>3, <1>6, <1>7, <2>2 DEF OrderSteps, TypeOK, ProcOK
    <3>2. CASE ord[g] = ord[h]
      BY <1>2, <1>3, <1>5, <2>2, <3>2
    <3>3. CASE ord[g] # ord[h]
      BY <1>3, <1>5, <1>7, <2>2, <3>1, <3>3 DEF FreshUntilReserved
    <3> QED BY <3>2, <3>3
  <2> QED BY <2>1, <2>2
<1>8. ASSUME NEW g \in Procs, NEW f \in Procs,
             pc'[g] \in {"aggregate", "reserve"}, ord'[f] = ord'[g]
      PROVE  f = g
  <2>1. g # h /\ pc[g] \in {"aggregate", "reserve"} /\ ord'[g] = ord[g] /\ ord[g] \in OrderIds
    BY <1>3, <1>4, <1>6, <1>8 DEF OrderSteps, Steps, CheckoutSteps, CancelSteps
  <2>2. CASE f = h
    BY <1>1, <1>2, <1>8, <2>1, <2>2, OrdersFinite DEF Await, Return, TypeOK, ProcOK
  <2>3. CASE f # h
    BY <1>3, <1>8, <2>1, <2>3 DEF FreshUntilReserved
  <2> QED BY <2>2, <2>3
<1>9. \A o \in piSaved : status'[o] # "NONE"
  BY <1>5 DEF FreshUntilReserved, TypeOK, DbOK
<1> QED BY <1>7, <1>8, <1>9 DEF FreshUntilReserved

\* The steps after the reservation that leave the statuses alone.
LEMMA FreshMoves ==
    ASSUME TypeOK, FreshUntilReserved, NEW h \in Procs, NEW step \in OrderSteps,
           step \notin {"aggregate", "reserve"},
           \/ pc[h] \in OrderSteps \ {"aggregate", "reserve"} /\ Await(h, step)
           \/ Return(h)
           \/ \E o \in OrderIds : status[o] # "NONE" /\ pc[h] = "idle" /\ Enter(h, o, step),
           status' = status, \A o \in piSaved' : status[o] # "NONE"
    PROVE  FreshUntilReserved'
<1>1. \A g \in Procs \ {h} : pc'[g] = pc[g] /\ ord'[g] = ord[g]
  BY DEF Await, Return, Enter, TypeOK, ProcOK
<1>2. /\ pc'[h] \notin {"aggregate", "reserve"}
      /\ \/ pc'[h] = "idle" /\ ord'[h] = NoOrder
         \/ ord'[h] \in OrderIds /\ status[ord'[h]] # "NONE"
  BY OrdTyped DEF Await, Return, Enter, TypeOK, ProcOK, FreshUntilReserved, OrderSteps
<1>3. ASSUME NEW g \in Procs, NEW f \in Procs,
             pc'[g] \in {"aggregate", "reserve"}, ord'[f] = ord'[g]
      PROVE  f = g
  <2>1. /\ g # h /\ pc[g] \in {"aggregate", "reserve"} /\ ord'[g] = ord[g]
        /\ pc[g] \in OrderSteps /\ ord[g] \in OrderIds /\ status[ord[g]] = "NONE"
    BY <1>1, <1>2, <1>3, OrdTyped
       DEF TypeOK, OrderSteps, Steps, CheckoutSteps, CancelSteps, FreshUntilReserved
  <2>2. f # h
    BY <1>2, <1>3, <2>1, OrdersFinite
  <2> QED BY <1>1, <1>3, <2>1, <2>2 DEF FreshUntilReserved
<1>4. ASSUME NEW g \in Procs, pc'[g] \notin {"idle"} \cup CancelSteps
      PROVE  status'[ord'[g]] = "NONE" <=> pc'[g] \in {"aggregate", "reserve"}
  BY <1>1, <1>2, <1>4 DEF FreshUntilReserved
<1> QED BY <1>3, <1>4 DEF FreshUntilReserved

LEMMA FreshCheckout ==
    ASSUME TypeOK, FreshUntilReserved, NEW h \in Procs,
           \/ CheckoutAggregate(h) \/ CheckoutReserve(h)
           \/ CreatePaymentIntent(h) \/ CreatePaymentIntentFails(h) \/ CheckoutRollback(h)
           \/ SavePaymentIntent(h) \/ AddOrderExpiryJob(h) \/ AddReminder(h) \/ AnswerCheckout(h)
    PROVE  FreshUntilReserved'
<1>0. /\ CheckoutSteps \subseteq OrderSteps /\ OrderSteps \subseteq Steps
      /\ "idle" \in Steps /\ {"PENDING", "FAILED"} \subseteq OrderStatus \ {"NONE"}
  BY OrderStepNames DEF OrderSteps, OrderStatus, Steps
<1>1. ASSUME CheckoutAggregate(h) PROVE FreshUntilReserved'
  <2>1. CASE Return(h)
    BY <1>0, <1>1, <2>1, FreshMoves DEF CheckoutAggregate, CheckoutSteps, FreshUntilReserved
  <2>2. CASE Await(h, "reserve")
    BY <1>1, <2>2 DEF CheckoutAggregate, Await, FreshUntilReserved, TypeOK, ProcOK, CancelSteps
  <2> QED BY <1>1, <2>1, <2>2 DEF CheckoutAggregate
<1>2. ASSUME CheckoutReserve(h) PROVE FreshUntilReserved'
  <2>1. CASE Return(h) /\ UNCHANGED <<stock, status>>
    BY <1>0, <1>2, <2>1, FreshMoves DEF CheckoutReserve, CheckoutSteps, FreshUntilReserved
  <2>2. CASE SetOrder(ord[h], "PENDING") /\ Await(h, "createIntent")
    BY <1>0, <1>2, <2>2, FreshWrites DEF CheckoutReserve, CheckoutSteps
  <2> QED BY <1>2, <2>1, <2>2 DEF CheckoutReserve
<1>3. ASSUME CreatePaymentIntent(h) \/ CreatePaymentIntentFails(h) PROVE FreshUntilReserved'
  BY <1>0, <1>3, FreshMoves
     DEF CreatePaymentIntent, CreatePaymentIntentFails, CheckoutSteps, FreshUntilReserved
<1>5. ASSUME CheckoutRollback(h) PROVE FreshUntilReserved'
  BY <1>0, <1>5, FreshWrites DEF CheckoutRollback, CheckoutSteps
<1>6. ASSUME SavePaymentIntent(h) PROVE FreshUntilReserved'
  <2>1. status[ord[h]] # "NONE"
    BY <1>6 DEF SavePaymentIntent, FreshUntilReserved, CancelSteps
  <2> QED BY <1>0, <1>6, <2>1, FreshMoves DEF SavePaymentIntent, CheckoutSteps, FreshUntilReserved
<1>7. ASSUME AddOrderExpiryJob(h) \/ AddReminder(h) \/ AnswerCheckout(h) PROVE FreshUntilReserved'
  BY <1>0, <1>7, FreshMoves
     DEF AddOrderExpiryJob, AddReminder, AnswerCheckout, CheckoutSteps, FreshUntilReserved
<1> QED BY <1>1, <1>2, <1>3, <1>5, <1>6, <1>7

LEMMA FreshArrive ==
    ASSUME TypeOK, FreshUntilReserved, NEW h \in Procs,
           Arrive(h) \/ \E o \in OrderIds : ExpiryJobStart(o)
    PROVE  FreshUntilReserved'
<1>0. /\ {"stripeRefund", "markPaid", "markFailed", "expire"}
            \subseteq OrderSteps \ {"aggregate", "reserve"}
      /\ Worker \in Procs
  BY DEF Procs, OrderSteps, Steps, SucceededSteps, FailedSteps, RefundSteps, ExpirySteps,
         CancelSteps
<1>1. ASSUME CancelRequest(h) PROVE FreshUntilReserved'
  BY <1>1, OrdersFinite, OrdTyped
     DEF CancelRequest, Enter, FreshUntilReserved, TypeOK, ProcOK, OrderSteps, Steps,
         CheckoutSteps, CancelSteps
<1>2. ASSUME NEW o \in OrderIds, CheckoutRequest(h, o) PROVE FreshUntilReserved'
  BY <1>2 DEF CheckoutRequest, Enter, FreshUntilReserved, TypeOK, ProcOK, CancelSteps
<1>3. ASSUME NEW o \in OrderIds, RefundRequest(h, o) PROVE FreshUntilReserved'
  BY <1>0, <1>3, FreshMoves DEF RefundRequest, Refundable, FreshUntilReserved
<1>4. ASSUME NEW o \in OrderIds, PaymentSucceeded(h, o) PROVE FreshUntilReserved'
  <2>1. CASE UNCHANGED procVars
    BY <1>4, <2>1 DEF PaymentSucceeded, FreshUntilReserved
  <2>2. CASE CanBePaid(o) /\ Enter(h, o, "markPaid")
    BY <1>0, <1>4, <2>2, FreshMoves DEF PaymentSucceeded, CanBePaid, FreshUntilReserved
  <2> QED BY <1>4, <2>1, <2>2 DEF PaymentSucceeded, Dispatch
<1>5. ASSUME NEW o \in OrderIds, PaymentFailed(h, o) PROVE FreshUntilReserved'
  <2>1. CASE UNCHANGED procVars
    BY <1>5, <2>1 DEF PaymentFailed, FreshUntilReserved
  <2>2. CASE o \in piSaved /\ Enter(h, o, "markFailed")
    BY <1>0, <1>5, <2>2, FreshMoves DEF PaymentFailed, FreshUntilReserved
  <2> QED BY <1>5, <2>1, <2>2 DEF PaymentFailed, Dispatch
<1>6. ASSUME NEW o \in OrderIds, ExpiryJobStart(o) PROVE FreshUntilReserved'
  <2>1. CASE UNCHANGED procVars
    BY <1>6, <2>1 DEF ExpiryJobStart, FreshUntilReserved
  <2>2. CASE StillPending(o) /\ Enter(Worker, o, "expire")
    BY <1>0, <1>6, <2>2, FreshMoves DEF ExpiryJobStart, StillPending, FreshUntilReserved
  <2> QED BY <1>6, <2>1, <2>2 DEF ExpiryJobStart
<1> QED BY <1>1, <1>2, <1>3, <1>4, <1>5, <1>6 DEF Arrive

LEMMA FreshContinue ==
    ASSUME TypeOK, FreshUntilReserved, NEW h \in Procs,
           \/ MarkPaid(h) \/ MarkFailed(h) \/ ExpireOrder(h) \/ StripeRefund(h)
           \/ MarkRefunded(h) \/ SendMail(h) \/ EmitStock(h) \/ Rejects(h)
    PROVE  FreshUntilReserved'
<1>0. /\ OrderSteps \subseteq Steps /\ "idle" \in Steps
      /\ {"purchaseMail", "failedEmit", "expiredMail", "markRefunded", "refundMail",
          "paidEmit", "expiredEmit", "refundEmit", "markPaid", "markFailed", "expire",
          "stripeRefund"} \subseteq OrderSteps
      /\ {"PAID", "FAILED", "EXPIRED", "REFUNDED", "PARTIALLY_REFUNDED"}
            \subseteq OrderStatus \ {"NONE"}
  BY DEF OrderSteps, OrderStatus, Steps, SucceededSteps, FailedSteps, RefundSteps,
         ExpirySteps, CancelSteps
<1>1. ASSUME MarkPaid(h) PROVE FreshUntilReserved'
  BY <1>0, <1>1, FreshWrites DEF MarkPaid
<1>2. ASSUME MarkFailed(h) PROVE FreshUntilReserved'
  BY <1>0, <1>2, FreshWrites DEF MarkFailed
<1>3. ASSUME ExpireOrder(h) PROVE FreshUntilReserved'
  BY <1>0, <1>3, FreshWrites DEF ExpireOrder
<1>4. ASSUME MarkRefunded(h) PROVE FreshUntilReserved'
  BY <1>0, <1>4, FreshWrites DEF MarkRefunded, RefundStatus
<1>5. ASSUME StripeRefund(h) PROVE FreshUntilReserved'
  BY <1>0, <1>5, FreshMoves DEF StripeRefund, FreshUntilReserved
<1>6. ASSUME SendMail(h) PROVE FreshUntilReserved'
  <2>1. /\ pc[h] \in {"purchaseMail", "expiredMail", "refundMail"}
        /\ Tail[pc[h]][2] \in {"paidEmit", "expiredEmit", "refundEmit"}
    BY <1>6 DEF SendMail, Tail
  <2> QED BY <1>0, <1>6, <2>1, FreshMoves DEF SendMail, FreshUntilReserved
<1>7. ASSUME EmitStock(h) \/ Rejects(h) PROVE FreshUntilReserved'
  BY <1>0, <1>7, FreshMoves DEF EmitStock, Rejects, FreshUntilReserved
<1> QED BY <1>1, <1>2, <1>3, <1>4, <1>5, <1>6, <1>7

LEMMA FreshCancel ==
    ASSUME TypeOK, FreshUntilReserved, NEW h \in Procs,
           \/ FindAffected(h) \/ CancelOrders(h) \/ CancelDone(h)
           \/ \E o \in OrderIds : CancelMail(h, o)
    PROVE  FreshUntilReserved'
<1>1. ASSUME FindAffected(h) PROVE FreshUntilReserved'
  BY <1>1 DEF FindAffected, FreshUntilReserved, TypeOK, ProcOK, CancelSteps
<1>2. ASSUME CancelOrders(h) PROVE FreshUntilReserved'
  <2>1. \A o \in OrderIds : status'[o] = "NONE" <=> status[o] = "NONE"
    BY <1>2 DEF CancelOrders
  <2>2. \A g \in Procs : pc'[g] = IF g = h THEN "cancelMails" ELSE pc[g]
    BY <1>2 DEF CancelOrders, Await, TypeOK, ProcOK
  <2>3. ord' = ord /\ piSaved' = piSaved /\ pc[h] = "cancelOrders"
    BY <1>2 DEF CancelOrders, Await
  <2>4. \A g \in Procs : pc[g] \notin {"idle"} \cup CancelSteps => ord[g] \in OrderIds
    BY DEF TypeOK, ProcOK
  <2> QED BY <2>1, <2>2, <2>3, <2>4 DEF FreshUntilReserved, CancelSteps, TypeOK, DbOK
<1>3. ASSUME CancelDone(h) PROVE FreshUntilReserved'
  BY <1>3, FreshMoves
     DEF CancelDone, FreshUntilReserved, OrderSteps, Steps, ExpirySteps, CancelSteps
<1>4. ASSUME NEW o \in OrderIds, CancelMail(h, o) PROVE FreshUntilReserved'
  BY <1>4 DEF CancelMail, FreshUntilReserved
<1> QED BY <1>1, <1>2, <1>3, <1>4

\* Crash, the actions of Stripe, the customers and the clock, UpdateStatus.
LEMMA FreshEnvironment ==
    ASSUME TypeOK, FreshUntilReserved,
           \/ Crash \/ Tick \/ \E s \in StatusRequests : UpdateStatus(s)
           \/ \E o \in OrderIds : CustomerPays(o) \/ PaymentDeclined(o)
           \/ \E e \in Hooks : Redeliver(e)
           \/ UNCHANGED vars
    PROVE  FreshUntilReserved'
<1>1. CASE Crash
  BY <1>1 DEF Crash, FreshUntilReserved
<1>2. CASE UNCHANGED <<status, piSaved, pc, ord>>
  BY <1>2 DEF FreshUntilReserved
<1> QED BY <1>1, <1>2 DEF Tick, UpdateStatus, CustomerPays, PaymentDeclined, Redeliver

\* A checkout is alone with its order until it reserves.
THEOREM CheckoutIsAlone == Spec => []FreshUntilReserved
<1>1. Init => FreshUntilReserved
  BY DEF Init, FreshUntilReserved
<1>2. TypeOK /\ FreshUntilReserved /\ [Next]_vars => FreshUntilReserved'
  <2> SUFFICES ASSUME TypeOK, FreshUntilReserved, [Next]_vars PROVE FreshUntilReserved'
    OBVIOUS
  <2>1. ASSUME NEW h \in Procs, Continue(h) PROVE FreshUntilReserved'
    BY <2>1, FreshCheckout, FreshContinue, FreshCancel DEF Continue
  <2>2. ASSUME NEW h \in Handlers, Arrive(h) PROVE FreshUntilReserved'
    BY <2>2, FreshArrive DEF Procs
  <2>3. ASSUME NEW o \in OrderIds, ExpiryJobStart(o) PROVE FreshUntilReserved'
    BY <2>3, FreshArrive DEF Procs
  <2> QED BY <2>1, <2>2, <2>3, FreshEnvironment DEF Next
<1> QED BY <1>1, <1>2, TypeCorrect, PTL DEF Spec
-----------------------------------------------------------------------------
(***************************************************************************)
(* Who moves a handler, and by which action it got where it is.  The       *)
(* invariants of the other proof modules use these lemmas in place of a    *)
(* case analysis of Next.                                                  *)
(***************************************************************************)

\* The steps that the actions of a handler in flight lead to.
LEMMA ContinueMoves ==
    ASSUME TypeOK, NEW h \in Procs, Continue(h)
    PROVE  /\ \A g \in Procs \ {h} :
                 pc'[g] = pc[g] /\ ord'[g] = ord[g] /\ affected'[g] = affected[g]
           /\ pc'[h] = "idle" \/ ord'[h] = ord[h]
           /\ pc[h] # "idle"
           /\ \/ pc'[h] = "idle"
              \/ pc'[h] = "paidEmit" /\ pc[h] = "purchaseMail" /\ SendMail(h)
              \/ pc'[h] = "expiredEmit" /\ pc[h] = "expiredMail" /\ SendMail(h)
              \/ pc'[h] = "refundEmit" /\ pc[h] = "refundMail" /\ SendMail(h)
              \/ pc'[h] = "reserve" /\ CheckoutAggregate(h)
              \/ pc'[h] = "createIntent" /\ CheckoutReserve(h)
              \/ pc'[h] = "rollback" /\ CreatePaymentIntentFails(h)
              \/ pc'[h] = "saveIntent" /\ CreatePaymentIntent(h)
              \/ pc'[h] = "addExpiryJob" /\ SavePaymentIntent(h)
              \/ pc'[h] = "addReminder" /\ AddOrderExpiryJob(h)
              \/ pc'[h] = "answer" /\ AddReminder(h)
              \/ pc'[h] = "purchaseMail" /\ MarkPaid(h)
              \/ pc'[h] = "failedEmit" /\ MarkFailed(h)
              \/ pc'[h] = "expiredMail" /\ ExpireOrder(h)
              \/ pc'[h] = "markRefunded" /\ StripeRefund(h)
              \/ pc'[h] = "refundMail" /\ MarkRefunded(h)
              \/ pc'[h] = "cancelOrders" /\ FindAffected(h)
              \/ pc'[h] = "cancelMails" /\ (CancelOrders(h) \/ \E o \in OrderIds : CancelMail(h, o))
<1> DEFINE Others == \A g \in Procs \ {h} :
              pc'[g] = pc[g] /\ ord'[g] = ord[g] /\ affected'[g] = affected[g]
           To(step) == Others /\ pc'[h] = step /\ ord'[h] = ord[h]
           Ends == Others /\ pc'[h] = "idle"
<1>1. \A step : Await(h, step) => To(step)
  BY DEF Await, TypeOK, ProcOK
<1>2. Return(h) => Ends
  BY DEF Return, TypeOK, ProcOK
<1>3. (FindAffected(h) => To("cancelOrders"))
      /\ \A o \in OrderIds : CancelMail(h, o) => To("cancelMails")
  BY DEF FindAffected, CancelMail, TypeOK, ProcOK
<1>4. SendMail(h) => \/ To("paidEmit") /\ pc[h] = "purchaseMail"
                     \/ To("expiredEmit") /\ pc[h] = "expiredMail"
                     \/ To("refundEmit") /\ pc[h] = "refundMail"
  <2>1. SendMail(h) => \/ pc[h] = "purchaseMail" /\ Tail[pc[h]][2] = "paidEmit"
                       \/ pc[h] = "expiredMail" /\ Tail[pc[h]][2] = "expiredEmit"
                       \/ pc[h] = "refundMail" /\ Tail[pc[h]][2] = "refundEmit"
    BY DEF SendMail, Tail
  <2> QED BY <1>1, <2>1 DEF SendMail
<1>5. pc[h] # "idle"
  BY DEF Continue, CheckoutAggregate, CheckoutReserve, CreatePaymentIntent,
         CreatePaymentIntentFails, CheckoutRollback, SavePaymentIntent, AddOrderExpiryJob,
         AddReminder, AnswerCheckout, MarkPaid, MarkFailed, ExpireOrder, StripeRefund, MarkRefunded,
         FindAffected, CancelOrders, CancelDone, CancelMail, SendMail, Tail, EmitStock, Rejects
<1> HIDE DEF To, Ends
<1> DEFINE Goes ==
              \/ Ends
              \/ To("paidEmit") /\ pc[h] = "purchaseMail" /\ SendMail(h)
              \/ To("expiredEmit") /\ pc[h] = "expiredMail" /\ SendMail(h)
              \/ To("refundEmit") /\ pc[h] = "refundMail" /\ SendMail(h)
              \/ To("reserve") /\ CheckoutAggregate(h)
              \/ To("createIntent") /\ CheckoutReserve(h)
              \/ To("rollback") /\ CreatePaymentIntentFails(h)
              \/ To("saveIntent") /\ CreatePaymentIntent(h)
              \/ To("addExpiryJob") /\ SavePaymentIntent(h)
              \/ To("addReminder") /\ AddOrderExpiryJob(h)
              \/ To("answer") /\ AddReminder(h)
              \/ To("purchaseMail") /\ MarkPaid(h)
              \/ To("failedEmit") /\ MarkFailed(h)
              \/ To("expiredMail") /\ ExpireOrder(h)
              \/ To("markRefunded") /\ StripeRefund(h)
              \/ To("refundMail") /\ MarkRefunded(h)
              \/ To("cancelOrders") /\ FindAffected(h)
              \/ To("cancelMails") /\ CancelOrders(h)
              \/ To("cancelMails") /\ \E o \in OrderIds : CancelMail(h, o)
<1>6. Goes
  <2>1. ASSUME \/ CheckoutAggregate(h) \/ CheckoutReserve(h) \/ CreatePaymentIntent(h)
               \/ CreatePaymentIntentFails(h) \/ CheckoutRollback(h)
        PROVE Goes
    BY <1>1, <1>2, <2>1 DEF CheckoutAggregate, CheckoutReserve, CreatePaymentIntent,
                            CreatePaymentIntentFails, CheckoutRollback
  <2>2. ASSUME \/ SavePaymentIntent(h) \/ AddOrderExpiryJob(h)
               \/ AddReminder(h) \/ AnswerCheckout(h) \/ StripeRefund(h) \/ MarkRefunded(h)
        PROVE Goes
    BY <1>1, <1>2, <2>2 DEF SavePaymentIntent, AddOrderExpiryJob, AddReminder, AnswerCheckout,
                            StripeRefund, MarkRefunded
  <2>3. ASSUME \/ MarkPaid(h) \/ MarkFailed(h) \/ ExpireOrder(h) \/ CancelOrders(h)
               \/ CancelDone(h) \/ EmitStock(h) \/ Rejects(h)
        PROVE Goes
    BY <1>1, <1>2, <2>3 DEF MarkPaid, MarkFailed, ExpireOrder, CancelOrders, CancelDone,
                            EmitStock, Rejects
  <2>4. ASSUME SendMail(h) \/ FindAffected(h) \/ \E o \in OrderIds : CancelMail(h, o)
        PROVE Goes
    BY <1>3, <1>4, <2>4
  <2> HIDE DEF Goes
  <2> QED BY <2>1, <2>2, <2>3, <2>4 DEF Continue
<1> QED BY <1>5, <1>6 DEF To, Ends

\* The actions that give an idle handler something to do.
LEMMA ArriveMoves ==
    ASSUME TypeOK, NEW h \in Procs,
           \/ h \in Handlers /\ Arrive(h)
           \/ h = Worker /\ \E o \in OrderIds : ExpiryJobStart(o)
    PROVE  /\ \A g \in Procs \ {h} : pc'[g] = pc[g] /\ ord'[g] = ord[g]
           /\ affected' = affected
           /\ UNCHANGED <<pc, ord>> \/ pc[h] = "idle"
           /\ \/ UNCHANGED <<pc, ord>>
              \/ pc'[h] = "findAffected" /\ CancelRequest(h)
              \/ \E o \in OrderIds :
                    /\ ord'[h] = o
                    /\ \/ pc'[h] = "aggregate" /\ CheckoutRequest(h, o)
                       \/ pc'[h] = "stripeRefund" /\ RefundRequest(h, o)
                       \/ pc'[h] = "markPaid" /\ PaymentSucceeded(h, o) /\ CanBePaid(o)
                       \/ pc'[h] = "markFailed" /\ PaymentFailed(h, o)
                       \/ /\ pc'[h] = "expire" /\ h = Worker
                          /\ ExpiryJobStart(o) /\ StillPending(o)
<1> DEFINE To(o, step) ==
              /\ \A g \in Procs \ {h} : pc'[g] = pc[g] /\ ord'[g] = ord[g]
              /\ affected' = affected
              /\ pc[h] = "idle" /\ pc'[h] = step /\ ord'[h] = o
           Stay == UNCHANGED <<pc, ord, affected>>
<1>1. \A o, step : Enter(h, o, step) /\ pc[h] = "idle" => To(o, step)
  BY DEF Enter, TypeOK, ProcOK
<1>2. UNCHANGED procVars => Stay
  OBVIOUS
<1> HIDE DEF To, Stay
<1>3. ASSUME CancelRequest(h) PROVE To(NoOrder, "findAffected")
  BY <1>1, <1>3 DEF CancelRequest
<1>4. ASSUME NEW o \in OrderIds, CheckoutRequest(h, o) PROVE To(o, "aggregate")
  BY <1>1, <1>4 DEF CheckoutRequest
<1>5. ASSUME NEW o \in OrderIds, RefundRequest(h, o) PROVE To(o, "stripeRefund")
  BY <1>1, <1>5 DEF RefundRequest
<1>6. ASSUME NEW o \in OrderIds, PaymentSucceeded(h, o)
      PROVE  Stay \/ (To(o, "markPaid") /\ CanBePaid(o))
  BY <1>1, <1>2, <1>6 DEF PaymentSucceeded, Dispatch
<1>7. ASSUME NEW o \in OrderIds, PaymentFailed(h, o) PROVE Stay \/ To(o, "markFailed")
  BY <1>1, <1>2, <1>7 DEF PaymentFailed, Dispatch
<1>8. ASSUME NEW o \in OrderIds, h = Worker, ExpiryJobStart(o)
      PROVE  Stay \/ (To(o, "expire") /\ StillPending(o))
  BY <1>1, <1>2, <1>8 DEF ExpiryJobStart
<1>9. \/ Stay
      \/ To(NoOrder, "findAffected") /\ CancelRequest(h)
      \/ \E o \in OrderIds :
            \/ To(o, "aggregate") /\ CheckoutRequest(h, o)
            \/ To(o, "stripeRefund") /\ RefundRequest(h, o)
            \/ To(o, "markPaid") /\ PaymentSucceeded(h, o) /\ CanBePaid(o)
            \/ To(o, "markFailed") /\ PaymentFailed(h, o)
            \/ To(o, "expire") /\ h = Worker /\ ExpiryJobStart(o) /\ StillPending(o)
  BY <1>3, <1>4, <1>5, <1>6, <1>7, <1>8 DEF Arrive
<1> QED BY <1>9 DEF To, Stay

\* The first steps of the requests and webhooks.
LEMMA ArriveEnters ==
    ASSUME TypeOK, NEW h \in Handlers, Arrive(h), NEW g \in Procs
    PROVE  \/ pc'[g] = pc[g] /\ ord'[g] = ord[g]
           \/ pc'[g] \in {"findAffected", "aggregate", "stripeRefund", "markPaid", "markFailed"}
<1> DEFINE First == {"findAffected", "aggregate", "stripeRefund", "markPaid", "markFailed"}
           Goes == (pc'[g] = pc[g] /\ ord'[g] = ord[g]) \/ pc'[g] \in First
<1>1. ASSUME NEW o, NEW step \in First, Enter(h, o, step) PROVE Goes
  BY <1>1 DEF Enter, Procs, TypeOK, ProcOK
<1>2. UNCHANGED procVars => Goes
  OBVIOUS
<1> HIDE DEF Goes
<1>3. CancelRequest(h) => Goes
  BY <1>1 DEF CancelRequest
<1>4. ASSUME NEW o \in OrderIds, CheckoutRequest(h, o) \/ RefundRequest(h, o) PROVE Goes
  BY <1>1, <1>4 DEF CheckoutRequest, RefundRequest
<1>5. ASSUME NEW o \in OrderIds, PaymentSucceeded(h, o) \/ PaymentFailed(h, o) PROVE Goes
  BY <1>1, <1>2, <1>5 DEF PaymentSucceeded, PaymentFailed, Dispatch
<1> QED BY <1>3, <1>4, <1>5 DEF Arrive, Goes

Starts(h) == \/ h \in Handlers /\ Arrive(h)
             \/ h = Worker /\ \E o \in OrderIds : ExpiryJobStart(o)

\* A step moves one handler, which goes on or takes something up, or it is a
\* crash, which stops them all, or it moves none.
LEMMA Movers ==
    ASSUME TypeOK, [Next]_vars, NEW g \in Procs
    PROVE  \/ /\ pc'[g] = pc[g] /\ ord'[g] = ord[g]
              /\ affected'[g] = affected[g] \/ pc[g] = "idle"
           \/ Crash /\ pc'[g] = "idle" /\ pc[g] # "idle"
           \/ pc[g] # "idle" /\ Continue(g)
           \/ pc[g] = "idle" /\ Starts(g)
<1> DEFINE Same == /\ pc'[g] = pc[g] /\ ord'[g] = ord[g]
                   /\ affected'[g] = affected[g] \/ pc[g] = "idle"
<1>1. ASSUME NEW h \in Procs, Continue(h), h # g PROVE Same
  BY <1>1, ContinueMoves
<1>2. ASSUME Continue(g) PROVE pc[g] # "idle"
  BY <1>2, ContinueMoves
<1>3. ASSUME NEW h \in Procs, Starts(h) PROVE Same \/ (h = g /\ pc[g] = "idle")
  BY <1>3, ArriveMoves DEF Starts
<1>4. ASSUME Crash PROVE Same \/ (Crash /\ pc'[g] = "idle" /\ pc[g] # "idle")
  BY <1>4 DEF Crash, TypeOK, ProcOK
<1>5. ASSUME \/ Tick \/ \E s \in StatusRequests : UpdateStatus(s)
             \/ \E o \in OrderIds : CustomerPays(o) \/ PaymentDeclined(o)
             \/ \E e \in Hooks : Redeliver(e)
             \/ UNCHANGED vars
      PROVE Same
  BY <1>5 DEF Tick, UpdateStatus, CustomerPays, PaymentDeclined, Redeliver
<1>6. Worker \in Procs /\ Handlers \subseteq Procs
  BY DEF Procs
<1> QED BY <1>1, <1>2, <1>3, <1>4, <1>5, <1>6 DEF Next, Starts

\* By which action a handler has come to the step where it is.
LEMMA CameBy ==
    ASSUME TypeOK, [Next]_vars, NEW g \in Procs
    PROVE  /\ pc'[g] = pc[g] => ord'[g] = ord[g]
           /\ pc'[g] # pc[g] /\ pc[g] # "idle" => ord'[g] = ord[g] \/ pc'[g] = "idle"
           /\ pc'[g] # pc[g] =>
                 /\ pc'[g] = "reserve" => CheckoutAggregate(g)
                 /\ pc'[g] = "createIntent" => CheckoutReserve(g)
                 /\ pc'[g] = "rollback" => CreatePaymentIntentFails(g)
                 /\ pc'[g] = "saveIntent" => CreatePaymentIntent(g)
                 /\ pc'[g] = "addExpiryJob" => SavePaymentIntent(g)
                 /\ pc'[g] = "addReminder" => AddOrderExpiryJob(g)
                 /\ pc'[g] = "answer" => AddReminder(g)
                 /\ pc'[g] = "purchaseMail" => MarkPaid(g)
                 /\ pc'[g] = "paidEmit" => SendMail(g) /\ pc[g] = "purchaseMail"
                 /\ pc'[g] = "failedEmit" => MarkFailed(g)
                 /\ pc'[g] = "expiredMail" => ExpireOrder(g)
                 /\ pc'[g] = "expiredEmit" => SendMail(g) /\ pc[g] = "expiredMail"
                 /\ pc'[g] = "markRefunded" => StripeRefund(g)
                 /\ pc'[g] = "cancelOrders" => FindAffected(g)
                 /\ pc'[g] = "cancelMails" => CancelOrders(g)
                 /\ pc'[g] = "findAffected" => g \in Handlers
                 /\ pc'[g] = "markPaid" =>
                       ord'[g] \in OrderIds /\ PaymentSucceeded(g, ord'[g]) /\ CanBePaid(ord'[g])
                 /\ pc'[g] = "markFailed" => ord'[g] \in OrderIds /\ PaymentFailed(g, ord'[g])
                 /\ pc'[g] = "stripeRefund" => ord'[g] \in OrderIds /\ RefundRequest(g, ord'[g])
                 /\ pc'[g] = "expire" => /\ g = Worker /\ ord'[g] \in OrderIds
                                         /\ ExpiryJobStart(ord'[g]) /\ StillPending(ord'[g])
<1>1. CASE Continue(g)
  <2>1. pc'[g] = "cancelMails" /\ pc[g] # "cancelMails" => CancelOrders(g)
    BY <1>1, ContinueMoves DEF CancelMail
  <2>2. pc'[g] = pc[g] => ord'[g] = ord[g]
    BY <1>1, ContinueMoves
  <2> QED BY <1>1, <2>1, <2>2, ContinueMoves
<1>2. CASE pc[g] = "idle" /\ Starts(g)
  <2>1. ASSUME NEW o \in OrderIds, g = Worker, ExpiryJobStart(o) PROVE pc'[g] \in {"idle", "expire"}
    BY <1>2, <2>1 DEF ExpiryJobStart, Enter, TypeOK, ProcOK
  <2>2. pc'[g] = "findAffected" => g \in Handlers
    BY <1>2, <2>1 DEF Starts
  <2> QED BY <1>2, <2>2, ArriveMoves DEF Starts
<1> QED BY <1>1, <1>2, Movers

-----------------------------------------------------------------------------
(* What a step writes *)

\* Which of the actions of a handler in flight write what.
LEMMA ContinueWrites ==
    ASSUME NEW h \in Procs, Continue(h)
    PROVE  /\ UNCHANGED <<charged, declines, stalls, crashes>>
           /\ UNCHANGED due \/ Rejects(h)
           /\ UNCHANGED attempts \/ Rejects(h)
           /\ UNCHANGED failures \/ Rejects(h) \/ CreatePaymentIntentFails(h)
           /\ UNCHANGED refunds \/ StripeRefund(h)
           /\ UNCHANGED answered \/ AnswerCheckout(h)
           /\ UNCHANGED jobs \/ AddOrderExpiryJob(h) \/ EmitStock(h) \/ Rejects(h)
           /\ \/ UNCHANGED mails
              \/ AddReminder(h) \/ SendMail(h) \/ \E o \in OrderIds : CancelMail(h, o)
<1>1. ASSUME \/ CheckoutAggregate(h) \/ CheckoutReserve(h) \/ CreatePaymentIntent(h)
             \/ CheckoutRollback(h) \/ SavePaymentIntent(h)
      PROVE  UNCHANGED <<stripeVars, redisVars, answered, failures, crashes>>
  BY <1>1 DEF CheckoutAggregate, CheckoutReserve, CreatePaymentIntent, CheckoutRollback,
              SavePaymentIntent
<1>2. ASSUME \/ MarkPaid(h) \/ MarkFailed(h) \/ ExpireOrder(h) \/ MarkRefunded(h)
             \/ FindAffected(h) \/ CancelOrders(h) \/ CancelDone(h)
      PROVE  UNCHANGED <<stripeVars, redisVars, answered, failures, crashes>>
  BY <1>2 DEF MarkPaid, MarkFailed, ExpireOrder, MarkRefunded, FindAffected, CancelOrders,
              CancelDone
<1>3. ASSUME CreatePaymentIntentFails(h)
      PROVE  UNCHANGED <<stripeVars, redisVars, answered, crashes>>
  BY <1>3 DEF CreatePaymentIntentFails
<1>4. ASSUME AddOrderExpiryJob(h) \/ EmitStock(h)
      PROVE  UNCHANGED <<stripeVars, attempts, stalls, mails, answered, failures, crashes>>
  BY <1>4 DEF AddOrderExpiryJob, EmitStock
<1>5. /\ AddReminder(h)
            => UNCHANGED <<stripeVars, jobs, attempts, stalls, answered, failures, crashes>>
      /\ AnswerCheckout(h) => UNCHANGED <<stripeVars, redisVars, failures, crashes>>
  BY DEF AddReminder, AnswerCheckout
<1>6. ASSUME SendMail(h) \/ \E o \in OrderIds : CancelMail(h, o)
      PROVE  UNCHANGED <<stripeVars, jobs, attempts, stalls, answered, failures, crashes>>
  BY <1>6 DEF SendMail, CancelMail
<1>7. ASSUME StripeRefund(h)
      PROVE  UNCHANGED <<charged, declines, due, redisVars, answered, failures, crashes>>
  BY <1>7 DEF StripeRefund
<1>8. ASSUME Rejects(h)
      PROVE  UNCHANGED <<charged, declines, refunds, stalls, mails, answered, crashes>>
  BY <1>8 DEF Rejects
<1> QED BY <1>1, <1>2, <1>3, <1>4, <1>5, <1>6, <1>7, <1>8 DEF Continue

\* Which of the other actions write what.
LEMMA OthersWrite ==
    ASSUME [Next]_vars, \A h \in Procs : ~Continue(h)
    PROVE  /\ UNCHANGED <<status, piSaved, refunds, mails, answered, failures>>
           /\ UNCHANGED charged \/ \E o \in OrderIds : CustomerPays(o)
           /\ UNCHANGED declines \/ \E o \in OrderIds : PaymentDeclined(o)
           /\ \/ UNCHANGED due \/ Crash
              \/ \E o \in OrderIds : CustomerPays(o) \/ PaymentDeclined(o)
              \/ \E e \in Hooks : Redeliver(e)
              \/ \E h \in Handlers, o \in OrderIds : PaymentSucceeded(h, o) \/ PaymentFailed(h, o)
           /\ UNCHANGED attempts
           /\ UNCHANGED <<stalls, crashes>> \/ Crash
           /\ UNCHANGED jobs \/ Crash \/ \E o \in OrderIds : ExpiryJobStart(o)
<1>1. ASSUME NEW h \in Handlers, Arrive(h)
      PROVE  /\ UNCHANGED <<dbVars, charged, declines, refunds, redisVars, envVars>>
             /\ \/ UNCHANGED due
                \/ \E o \in OrderIds : PaymentSucceeded(h, o) \/ PaymentFailed(h, o)
  BY <1>1 DEF Arrive, CancelRequest, CheckoutRequest, RefundRequest, PaymentSucceeded,
              PaymentFailed
<1>2. ASSUME NEW o \in OrderIds, ExpiryJobStart(o)
      PROVE  UNCHANGED <<dbVars, stripeVars, attempts, stalls, mails, envVars>>
  BY <1>2 DEF ExpiryJobStart
<1>3. ASSUME NEW o \in OrderIds, CustomerPays(o)
      PROVE  UNCHANGED <<dbVars, declines, refunds, redisVars, envVars>>
  BY <1>3 DEF CustomerPays
<1>4. ASSUME NEW o \in OrderIds, PaymentDeclined(o)
      PROVE  UNCHANGED <<dbVars, charged, refunds, redisVars, envVars>>
  BY <1>4 DEF PaymentDeclined
<1>5. ASSUME NEW e \in Hooks, Redeliver(e)
      PROVE  UNCHANGED <<dbVars, charged, declines, refunds, redisVars, answered, failures,
                         crashes>>
  BY <1>5 DEF Redeliver
<1>6. ASSUME Crash
      PROVE  UNCHANGED <<dbVars, charged, declines, refunds, attempts, mails, answered, failures>>
  BY <1>6 DEF Crash
<1>7. ASSUME Tick \/ UNCHANGED vars \/ \E s \in StatusRequests : UpdateStatus(s)
      PROVE  UNCHANGED <<status, piSaved, stripeVars, redisVars, answered, failures, crashes>>
  BY <1>7 DEF Tick, UpdateStatus
<1> QED BY <1>1, <1>2, <1>3, <1>4, <1>5, <1>6, <1>7 DEF Next

\* Which action it takes to change a variable: the writes that the lemmas below
\* look at one by one.
LEMMA Writers ==
    ASSUME [Next]_vars
    PROVE  /\ UNCHANGED charged \/ \E o \in OrderIds : CustomerPays(o)
           /\ UNCHANGED declines \/ \E o \in OrderIds : PaymentDeclined(o)
           /\ UNCHANGED refunds \/ \E h \in Procs : StripeRefund(h)
           /\ UNCHANGED answered \/ \E h \in Procs : AnswerCheckout(h)
           /\ \/ UNCHANGED mails
              \/ \E h \in Procs : \/ AddReminder(h) \/ SendMail(h)
                                  \/ \E o \in OrderIds : CancelMail(h, o)
           /\ \/ UNCHANGED due \/ Crash \/ \E h \in Procs : Rejects(h)
              \/ \E o \in OrderIds : CustomerPays(o) \/ PaymentDeclined(o)
              \/ \E e \in Hooks : Redeliver(e)
              \/ \E h \in Handlers, o \in OrderIds : PaymentSucceeded(h, o) \/ PaymentFailed(h, o)
           /\ \/ UNCHANGED jobs \/ Crash \/ \E o \in OrderIds : ExpiryJobStart(o)
              \/ \E h \in Procs : AddOrderExpiryJob(h) \/ EmitStock(h) \/ Rejects(h)
           /\ UNCHANGED attempts \/ \E h \in Procs : Rejects(h)
           /\ UNCHANGED <<stalls, crashes>> \/ Crash
           /\ UNCHANGED failures \/ \E h \in Procs : Rejects(h) \/ CreatePaymentIntentFails(h)
<1>1. CASE \A h \in Procs : ~Continue(h)
  BY <1>1, OthersWrite
<1>2. CASE \E h \in Procs : Continue(h)
  BY <1>2, ContinueWrites
<1> QED BY <1>1, <1>2

\* A status changes by the write of the handler that serves the order, or by a
\* cancellation of the event.
LEMMA StatusWrites ==
    ASSUME TypeOK, [Next]_vars, NEW o \in OrderIds, status'[o] # status[o]
    PROVE  \E h \in Procs :
              \/ /\ ord[h] = o
                 /\ \/ pc[h] = "reserve" /\ CheckoutReserve(h) /\ status'[o] = "PENDING"
                    \/ pc[h] = "rollback" /\ CheckoutRollback(h) /\ status'[o] = "FAILED"
                    \/ pc[h] = "markPaid" /\ MarkPaid(h) /\ status'[o] = "PAID"
                    \/ pc[h] = "markFailed" /\ MarkFailed(h) /\ status'[o] = "FAILED"
                    \/ pc[h] = "expire" /\ ExpireOrder(h) /\ status'[o] = "EXPIRED"
                    \/ /\ pc[h] = "markRefunded" /\ MarkRefunded(h)
                       /\ status'[o] \in {"REFUNDED", "PARTIALLY_REFUNDED"}
              \/ CancelOrders(h) /\ status[o] = "PAID" /\ status'[o] = "CANCELLED"
<1> DEFINE Writes(h, s) == ord[h] = o /\ status'[o] = s
<1>1. \A h \in Procs : \A s : SetOrder(ord[h], s) => Writes(h, s)
  BY DEF SetOrder, TypeOK, DbOK
<1>2. ASSUME NEW h \in Procs, CheckoutReserve(h)
      PROVE  pc[h] = "reserve" /\ Writes(h, "PENDING")
  BY <1>1, <1>2 DEF CheckoutReserve
<1>3. ASSUME NEW h \in Procs, MarkRefunded(h)
      PROVE  pc[h] = "markRefunded" /\ (Writes(h, "REFUNDED") \/ Writes(h, "PARTIALLY_REFUNDED"))
  BY <1>1, <1>3 DEF MarkRefunded, RefundStatus
<1>4. ASSUME NEW h \in Procs, CancelOrders(h)
      PROVE  status[o] = "PAID" /\ status'[o] = "CANCELLED"
  BY <1>4 DEF CancelOrders
<1>5. ASSUME NEW h \in Procs, Continue(h)
      PROVE  \/ CheckoutReserve(h) \/ MarkRefunded(h) \/ CancelOrders(h)
             \/ pc[h] = "rollback" /\ CheckoutRollback(h) /\ Writes(h, "FAILED")
             \/ pc[h] = "markPaid" /\ MarkPaid(h) /\ Writes(h, "PAID")
             \/ pc[h] = "markFailed" /\ MarkFailed(h) /\ Writes(h, "FAILED")
             \/ pc[h] = "expire" /\ ExpireOrder(h) /\ Writes(h, "EXPIRED")
  <2>1. ASSUME CheckoutRollback(h) PROVE pc[h] = "rollback" /\ Writes(h, "FAILED")
    BY <1>1, <2>1 DEF CheckoutRollback
  <2>2. ASSUME MarkPaid(h) PROVE pc[h] = "markPaid" /\ Writes(h, "PAID")
    BY <1>1, <2>2 DEF MarkPaid
  <2>3. ASSUME MarkFailed(h) PROVE pc[h] = "markFailed" /\ Writes(h, "FAILED")
    BY <1>1, <2>3 DEF MarkFailed
  <2>4. ASSUME ExpireOrder(h) PROVE pc[h] = "expire" /\ Writes(h, "EXPIRED")
    BY <1>1, <2>4 DEF ExpireOrder
  <2>5. ASSUME \/ CheckoutAggregate(h) \/ CreatePaymentIntent(h) \/ CreatePaymentIntentFails(h)
               \/ SavePaymentIntent(h) \/ AddOrderExpiryJob(h) \/ AddReminder(h)
               \/ AnswerCheckout(h) \/ StripeRefund(h) \/ FindAffected(h) \/ CancelDone(h)
        PROVE  FALSE
    BY <2>5 DEF CheckoutAggregate, CreatePaymentIntent, CreatePaymentIntentFails,
                SavePaymentIntent, AddOrderExpiryJob, AddReminder, AnswerCheckout, StripeRefund,
                FindAffected, CancelDone
  <2>6. ASSUME SendMail(h) \/ EmitStock(h) \/ Rejects(h) \/ \E p \in OrderIds : CancelMail(h, p)
        PROVE  FALSE
    BY <2>6 DEF SendMail, EmitStock, Rejects, CancelMail
  <2> HIDE DEF Writes
  <2> QED BY <1>5, <2>1, <2>2, <2>3, <2>4, <2>5, <2>6 DEF Continue
<1>6. \E h \in Procs : Continue(h)
  BY OthersWrite
<1> QED BY <1>2, <1>3, <1>4, <1>5, <1>6

\* An order is mailed by the handler that serves it, or by a cancellation that
\* lists it.
LEMMA MailWrites ==
    ASSUME TypeOK, [Next]_vars, NEW o \in OrderIds,
           NEW kind \in {"purchase", "expired", "refund", "cancelled", "reminder"},
           mails'[<<kind, o>>] # mails[<<kind, o>>]
    PROVE  /\ mails'[<<kind, o>>] = mails[<<kind, o>>] + 1
           /\ \E h \in Procs :
                 \/ kind = "cancelled" /\ CancelMail(h, o)
                 \/ /\ ord[h] = o
                    /\ \/ kind = "purchase" /\ pc[h] = "purchaseMail" /\ SendMail(h)
                       \/ kind = "expired" /\ pc[h] = "expiredMail" /\ SendMail(h)
                       \/ kind = "refund" /\ pc[h] = "refundMail" /\ SendMail(h)
                       \/ kind = "reminder" /\ pc[h] = "addReminder" /\ AddReminder(h)
<1>1. <<kind, o>> \in MailKinds \X OrderIds
  BY DEF MailKinds
<1>2. \A k, p : AddEmailJob(k, p) =>
         k = kind /\ p = o /\ mails'[<<kind, o>>] = mails[<<kind, o>>] + 1
  BY <1>1 DEF AddEmailJob, TypeOK, RedisOK
<1>3. ASSUME NEW h \in Procs, SendMail(h)
      PROVE  /\ mails'[<<kind, o>>] = mails[<<kind, o>>] + 1 /\ ord[h] = o
             /\ \/ kind = "purchase" /\ pc[h] = "purchaseMail"
                \/ kind = "expired" /\ pc[h] = "expiredMail"
                \/ kind = "refund" /\ pc[h] = "refundMail"
  <2>1. \/ Tail[pc[h]][1] = "purchase" /\ pc[h] = "purchaseMail"
        \/ Tail[pc[h]][1] = "expired" /\ pc[h] = "expiredMail"
        \/ Tail[pc[h]][1] = "refund" /\ pc[h] = "refundMail"
    BY <1>3 DEF SendMail, Tail
  <2>2. AddEmailJob(Tail[pc[h]][1], ord[h])
    BY <1>3 DEF SendMail
  <2> QED BY <1>2, <2>1, <2>2
<1>4. ASSUME NEW h \in Procs, NEW p \in OrderIds, CancelMail(h, p)
      PROVE  kind = "cancelled" /\ p = o /\ mails'[<<kind, o>>] = mails[<<kind, o>>] + 1
  BY <1>2, <1>4 DEF CancelMail
<1>5. ASSUME NEW h \in Procs, AddReminder(h)
      PROVE  /\ kind = "reminder" /\ mails'[<<kind, o>>] = mails[<<kind, o>>] + 1
             /\ pc[h] = "addReminder" /\ ord[h] = o
  BY <1>2, <1>5 DEF AddReminder
<1>6. \E h \in Procs : \/ SendMail(h) \/ AddReminder(h)
                       \/ \E p \in OrderIds : CancelMail(h, p)
  <2>1. mails' # mails
    OBVIOUS
  <2> QED BY <2>1, Writers
<1> QED BY <1>3, <1>4, <1>5, <1>6

\* The same, kind by kind.
LEMMA MailedBy ==
    ASSUME TypeOK, [Next]_vars, NEW o \in OrderIds
    PROVE  /\ mails'[<<"purchase", o>>] # mails[<<"purchase", o>>] =>
                 \E h \in Procs : pc[h] = "purchaseMail" /\ ord[h] = o /\ SendMail(h)
           /\ mails'[<<"refund", o>>] # mails[<<"refund", o>>] =>
                 \E h \in Procs : pc[h] = "refundMail" /\ ord[h] = o /\ SendMail(h)
           /\ mails'[<<"cancelled", o>>] # mails[<<"cancelled", o>>] =>
                 \E h \in Procs : CancelMail(h, o)
           /\ mails'[<<"reminder", o>>] # mails[<<"reminder", o>>] =>
                 \E h \in Procs : pc[h] = "addReminder" /\ ord[h] = o /\ AddReminder(h)
<1>1. ASSUME mails'[<<"purchase", o>>] # mails[<<"purchase", o>>]
      PROVE  \E h \in Procs : pc[h] = "purchaseMail" /\ ord[h] = o /\ SendMail(h)
  <2>1. "purchase" \notin {"expired", "refund", "cancelled", "reminder"}
    OBVIOUS
  <2> QED BY <1>1, <2>1, MailWrites, Zenon
<1>2. ASSUME mails'[<<"refund", o>>] # mails[<<"refund", o>>]
      PROVE  \E h \in Procs : pc[h] = "refundMail" /\ ord[h] = o /\ SendMail(h)
  <2>1. "refund" \notin {"purchase", "expired", "cancelled", "reminder"}
    OBVIOUS
  <2> QED BY <1>2, <2>1, MailWrites, Zenon
<1>3. ASSUME mails'[<<"cancelled", o>>] # mails[<<"cancelled", o>>]
      PROVE  \E h \in Procs : CancelMail(h, o)
  <2>1. "cancelled" \notin {"purchase", "expired", "refund", "reminder"}
    OBVIOUS
  <2> QED BY <1>3, <2>1, MailWrites, Zenon
<1>4. ASSUME mails'[<<"reminder", o>>] # mails[<<"reminder", o>>]
      PROVE  \E h \in Procs : pc[h] = "addReminder" /\ ord[h] = o /\ AddReminder(h)
  <2>1. "reminder" \notin {"purchase", "expired", "refund", "cancelled"}
    OBVIOUS
  <2> QED BY <1>4, <2>1, MailWrites, Zenon
<1> QED BY <1>1, <1>2, <1>3, <1>4

\* Stripe refunds an order when the handler that serves it asks for it.
LEMMA RefundWrites ==
    ASSUME TypeOK, [Next]_vars, NEW o \in OrderIds, refunds'[o] # refunds[o]
    PROVE  /\ refunds'[o] = refunds[o] + 1
           /\ \E h \in Procs : /\ pc[h] = "stripeRefund" /\ ord[h] = o
                               /\ pc'[h] = "markRefunded" /\ ord'[h] = o
<1>1. \E h \in Procs : StripeRefund(h)
  BY Writers
<1>2. PICK h \in Procs : StripeRefund(h)
  BY <1>1
<1>3. ord[h] = o /\ refunds' = [refunds EXCEPT ![o] = @ + 1] /\ Await(h, "markRefunded")
  BY <1>2 DEF StripeRefund, TypeOK, StripeOK
<1> QED BY <1>2, <1>3 DEF StripeRefund, Await, TypeOK, StripeOK, ProcOK

\* As long as no call fails: nothing failed before, and no handler is cut off.
LEMMA NoFault ==
    ASSUME TypeOK, [Next]_vars, failures' = 0, crashes' = 0
    PROVE  /\ failures = 0 /\ crashes = 0
           /\ ~Crash
           /\ \A h \in Procs : ~Rejects(h) /\ ~CreatePaymentIntentFails(h)
<1>1. failures \in Nat /\ crashes \in Nat
  BY DEF TypeOK, EnvOK
<1>2. ~Crash /\ \A h \in Procs : ~Rejects(h) /\ ~CreatePaymentIntentFails(h)
  BY <1>1 DEF Crash, Rejects, CreatePaymentIntentFails
<1>3. failures' = failures /\ crashes' = crashes
  BY <1>2, Writers
<1> QED BY <1>1, <1>2, <1>3

\* A client gets its secret in the last step of its checkout.
LEMMA AnsweredWrites ==
    ASSUME TypeOK, [Next]_vars
    PROVE  /\ answered \subseteq answered'
           /\ \A o \in answered' \ answered :
                 \E h \in Procs : pc[h] \in {"addReminder", "answer"} /\ ord[h] = o
<1>1. ASSUME ~UNCHANGED answered PROVE \E h \in Procs : AnswerCheckout(h)
  BY <1>1, Writers
<1> QED BY <1>1 DEF AnswerCheckout

\* A job is added by the checkout, and moved on by the worker's handler, by the
\* call of it that rejects, or by a crash.
LEMMA JobWrites ==
    ASSUME TypeOK, [Next]_vars, NEW o \in OrderIds, jobs'[o] # jobs[o]
    PROVE  \/ Crash /\ jobs[o] = "active" /\ jobs'[o] \in {"delayed", "failed"}
           \/ ExpiryJobStart(o) /\ jobs[o] = "delayed"
           \/ \E h \in Procs :
                 /\ ord[h] = o
                 /\ \/ pc[h] = "addExpiryJob" /\ AddOrderExpiryJob(h) /\ jobs'[o] = "delayed"
                    \/ pc[h] = "expiredEmit" /\ EmitStock(h) /\ jobs'[o] = "completed"
                    \/ pc[h] \in ExpirySteps /\ Rejects(h) /\ jobs'[o] \in {"delayed", "failed"}
<1>1. ASSUME NEW h \in Procs, AddOrderExpiryJob(h)
      PROVE  pc[h] = "addExpiryJob" /\ ord[h] = o /\ jobs'[o] = "delayed"
  BY <1>1 DEF AddOrderExpiryJob, TypeOK, RedisOK
<1>2. ASSUME NEW h \in Procs, EmitStock(h)
      PROVE  pc[h] = "expiredEmit" /\ ord[h] = o /\ jobs'[o] = "completed"
  BY <1>2 DEF EmitStock, TypeOK, RedisOK
<1>3. ASSUME NEW h \in Procs, Rejects(h)
      PROVE  pc[h] \in ExpirySteps /\ ord[h] = o /\ jobs'[o] \in {"delayed", "failed"}
  BY <1>3 DEF Rejects, TypeOK, RedisOK
<1>4. ASSUME NEW p \in OrderIds, ExpiryJobStart(p) PROVE p = o /\ jobs[o] = "delayed"
  BY <1>4 DEF ExpiryJobStart, TypeOK, RedisOK
<1>5. ASSUME Crash PROVE jobs[o] = "active" /\ jobs'[o] \in {"delayed", "failed"}
  BY <1>5 DEF Crash, TypeOK, RedisOK
<1>6. \/ Crash \/ \E p \in OrderIds : ExpiryJobStart(p)
      \/ \E h \in Procs : AddOrderExpiryJob(h) \/ EmitStock(h) \/ Rejects(h)
  BY Writers
<1> QED BY <1>1, <1>2, <1>3, <1>4, <1>5, <1>6

\* Stripe owes a delivery more for a payment, a decline, a redelivery or a
\* delivery that was cut off, and one less for each that is taken up.
LEMMA DueWrites ==
    ASSUME TypeOK, [Next]_vars, NEW e \in Hooks, due'[e] # due[e]
    PROVE  \/ e[1] = "succeeded" /\ CustomerPays(e[2]) /\ due'[e] = due[e] + 1
           \/ e[1] = "payment_failed" /\ PaymentDeclined(e[2]) /\ due'[e] = due[e] + 1
           \/ Redeliver(e) /\ due'[e] = due[e] + 1
           \/ \E h \in Handlers : /\ e[1] = "succeeded" /\ PaymentSucceeded(h, e[2])
                                  /\ due'[e] = due[e] - 1
           \/ \E h \in Handlers : /\ e[1] = "payment_failed" /\ PaymentFailed(h, e[2])
                                  /\ due'[e] = due[e] - 1
           \/ \E h \in Procs : Rejects(h) /\ Serves(h, e) /\ due'[e] = due[e] + 1
           \/ /\ Crash /\ \E h \in Procs : Serves(h, e)
              /\ due'[e] > due[e]
<1>0. e[1] \in HookTypes /\ e[2] \in OrderIds /\ e = <<e[1], e[2]>>
  BY DEF Hooks
<1>1. ASSUME NEW o \in OrderIds, CustomerPays(o)
      PROVE  e = <<"succeeded", o>> /\ due'[e] = due[e] + 1
  BY <1>1 DEF CustomerPays, TypeOK, StripeOK
<1>2. ASSUME NEW o \in OrderIds, PaymentDeclined(o)
      PROVE  e = <<"payment_failed", o>> /\ due'[e] = due[e] + 1
  BY <1>2 DEF PaymentDeclined, TypeOK, StripeOK
<1>3. ASSUME NEW d \in Hooks, Redeliver(d) PROVE d = e /\ due'[e] = due[e] + 1
  BY <1>3 DEF Redeliver, TypeOK, StripeOK
<1>4. ASSUME NEW h \in Handlers, NEW o \in OrderIds, PaymentSucceeded(h, o)
      PROVE  e = <<"succeeded", o>> /\ due'[e] = due[e] - 1
  BY <1>4 DEF PaymentSucceeded, TypeOK, StripeOK
<1>5. ASSUME NEW h \in Handlers, NEW o \in OrderIds, PaymentFailed(h, o)
      PROVE  e = <<"payment_failed", o>> /\ due'[e] = due[e] - 1
  BY <1>5 DEF PaymentFailed, TypeOK, StripeOK
<1>6. ASSUME NEW h \in Procs, Rejects(h) PROVE Serves(h, e) /\ due'[e] = due[e] + 1
  BY <1>6 DEF Rejects, TypeOK, StripeOK
<1>7. ASSUME Crash PROVE (\E h \in Procs : Serves(h, e)) /\ due'[e] > due[e]
  <2> DEFINE S == {h \in Procs : Serves(h, e)}
  <2>1. IsFiniteSet(Procs) /\ S \subseteq Procs
    BY HandlersFinite, FS_Singleton, FS_Union DEF Procs
  <2>2. IsFiniteSet(S) /\ Cardinality(S) \in Nat
    BY <2>1, FS_Subset, FS_CardinalityType
  <2>3. due'[e] = due[e] + Cardinality(S) /\ due[e] \in Nat
    BY <1>7 DEF Crash, TypeOK, StripeOK
  <2>4. Cardinality(S) # 0
    BY <2>3
  <2> HIDE DEF S
  <2>5. S # {}
    BY <2>4, FS_EmptySet
  <2> QED BY <2>2, <2>3, <2>4, <2>5 DEF S
<1>8. \/ Crash \/ \E h \in Procs : Rejects(h)
      \/ \E o \in OrderIds : CustomerPays(o) \/ PaymentDeclined(o)
      \/ \E d \in Hooks : Redeliver(d)
      \/ \E h \in Handlers, o \in OrderIds : PaymentSucceeded(h, o) \/ PaymentFailed(h, o)
  BY Writers
<1> QED BY <1>0, <1>1, <1>2, <1>3, <1>4, <1>5, <1>6, <1>7, <1>8
=============================================================================
