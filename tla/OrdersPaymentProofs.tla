------------------------- MODULE OrdersPaymentProofs -------------------------
(***************************************************************************)
(* Money, mail, and what follows when handlers are kept apart: what the    *)
(* status of an order says about its PaymentIntent and its refund, what a  *)
(* client that can pay may rely on, which payments and jobs are kept, who  *)
(* writes late, and what holds of isolated and of serial handlers.         *)
(***************************************************************************)
EXTENDS OrdersStockProofs

USE DEF vars, dbVars, stripeVars, redisVars, procVars, envVars

ChargeInv == StepsMeanCharged /\ PaidMeansCharged /\ RefundedMeansReturned

LEMMA ChargeCheckout ==
    ASSUME TypeOK, ChargeInv, NEW h \in Procs,
           \/ CheckoutAggregate(h) \/ CheckoutReserve(h)
           \/ CreatePaymentIntent(h) \/ CreatePaymentIntentFails(h) \/ CheckoutRollback(h)
           \/ SavePaymentIntent(h) \/ AddOrderExpiryJob(h) \/ AddReminder(h) \/ AnswerCheckout(h)
    PROVE  ChargeInv'
<1>1. /\ UNCHANGED <<charged, refunds, due>>
      /\ \/ UNCHANGED status
         \/ \E s \in {"PENDING", "FAILED"} : SetOrder(ord[h], s)
      /\ \/ \E step \in CheckoutSteps : Await(h, step)
         \/ Return(h)
  BY DEF CheckoutAggregate, CheckoutReserve, CreatePaymentIntent, CreatePaymentIntentFails,
         CheckoutRollback, SavePaymentIntent, AddOrderExpiryJob, AddReminder, AnswerCheckout,
         CheckoutSteps
<1>2. PaidMeansCharged' /\ RefundedMeansReturned'
  BY <1>1 DEF SetOrder, ChargeInv, PaidMeansCharged, RefundedMeansReturned, TypeOK, DbOK
<1>3. StepsMeanCharged'
  BY <1>1 DEF Await, Return, ChargeInv, StepsMeanCharged, TypeOK, ProcOK, CheckoutSteps,
              SucceededSteps, RefundSteps
<1> QED BY <1>2, <1>3 DEF ChargeInv

LEMMA ChargeArrive ==
    ASSUME TypeOK, ChargeInv, NEW h \in Procs,
           Arrive(h) \/ \E o \in OrderIds : ExpiryJobStart(o)
    PROVE  ChargeInv'
<1>0. UNCHANGED <<status, charged, refunds>>
  BY DEF Arrive, CancelRequest, CheckoutRequest, RefundRequest, PaymentSucceeded,
         PaymentFailed, ExpiryJobStart
<1>1. PaidMeansCharged' /\ RefundedMeansReturned'
  BY <1>0 DEF ChargeInv, PaidMeansCharged, RefundedMeansReturned
<1>2. \A o \in OrderIds : due'[<<"succeeded", o>>] > 0 => o \in charged'
  <2>1. ASSUME NEW o \in OrderIds
        PROVE  due'[<<"succeeded", o>>] > 0 => due[<<"succeeded", o>>] > 0
    BY DEF Arrive, CancelRequest, CheckoutRequest, RefundRequest, PaymentSucceeded,
           PaymentFailed, ExpiryJobStart, TypeOK, StripeOK, Hooks, HookTypes
  <2> QED BY <1>0, <2>1 DEF ChargeInv, StepsMeanCharged
<1>3. Worker \in Procs
  BY DEF Procs
<1> DEFINE Enters ==
       \/ UNCHANGED <<pc, ord>>
       \/ \E g \in Procs, o \in OrderIds \cup {NoOrder}, step \in Steps :
             /\ Enter(g, o, step)
             /\ step \in SucceededSteps \cup RefundSteps => o \in charged
             /\ step \notin RefundSteps \ {"stripeRefund"}
<1>4. Enters
  <2>1. ASSUME CancelRequest(h) PROVE Enters
    BY <2>1 DEF CancelRequest, Steps, CancelSteps, SucceededSteps, RefundSteps
  <2>2. ASSUME NEW o \in OrderIds, CheckoutRequest(h, o) PROVE Enters
    BY <2>2 DEF CheckoutRequest, Steps, CheckoutSteps, SucceededSteps, RefundSteps
  <2>3. ASSUME NEW o \in OrderIds, RefundRequest(h, o) PROVE Enters
    BY <2>3 DEF RefundRequest, Refundable, ChargeInv, PaidMeansCharged, Steps, SucceededSteps,
                RefundSteps
  <2>4. ASSUME NEW o \in OrderIds, PaymentSucceeded(h, o) PROVE Enters
    BY <2>4 DEF PaymentSucceeded, Dispatch, ChargeInv, StepsMeanCharged, Steps, SucceededSteps,
                RefundSteps
  <2>5. ASSUME NEW o \in OrderIds, PaymentFailed(h, o) PROVE Enters
    BY <2>5 DEF PaymentFailed, Dispatch, Steps, SucceededSteps, FailedSteps, RefundSteps
  <2>6. ASSUME NEW o \in OrderIds, ExpiryJobStart(o) PROVE Enters
    BY <1>3, <2>6 DEF ExpiryJobStart, Steps, SucceededSteps, ExpirySteps, RefundSteps
  <2> QED BY <2>1, <2>2, <2>3, <2>4, <2>5, <2>6 DEF Arrive
<1>5. StepsMeanCharged'
  BY <1>0, <1>2, <1>4 DEF Enter, ChargeInv, StepsMeanCharged, TypeOK, ProcOK
<1> QED BY <1>1, <1>5 DEF ChargeInv

LEMMA ChargeWrites ==
    ASSUME TypeOK, ChargeInv, NEW h \in Procs,
           MarkPaid(h) \/ MarkFailed(h) \/ ExpireOrder(h) \/ StripeRefund(h) \/ MarkRefunded(h)
    PROVE  ChargeInv'
<1>1. charged' = charged /\ due' = due
  BY DEF MarkPaid, MarkFailed, ExpireOrder, StripeRefund, MarkRefunded
<1>2. \A o \in OrderIds : refunds[o] > 0 => refunds'[o] > 0
  <2>1. CASE StripeRefund(h)
    BY <2>1 DEF StripeRefund, TypeOK, StripeOK
  <2>2. CASE ~StripeRefund(h)
    BY <2>2 DEF MarkPaid, MarkFailed, ExpireOrder, MarkRefunded
  <2> QED BY <2>1, <2>2
<1>3. \A g \in Procs : pc[g] \in SucceededSteps \cup RefundSteps => ord[g] \in OrderIds
  BY OrdTyped, OrderStepNames DEF TypeOK
<1>4. CASE Return(h)
  <2>1. \A g \in Procs : pc'[g] # "idle" => g # h /\ pc'[g] = pc[g] /\ ord'[g] = ord[g]
    BY <1>4 DEF Return, TypeOK, ProcOK
  <2>2. StepsMeanCharged'
    BY <1>1, <1>2, <1>3, <2>1 DEF ChargeInv, StepsMeanCharged, SucceededSteps, RefundSteps
  <2>3. status' = status
    BY <1>4 DEF Return, MarkPaid, MarkFailed, ExpireOrder, StripeRefund, MarkRefunded, Await,
                TypeOK, ProcOK
  <2> QED BY <1>1, <1>2, <2>2, <2>3
             DEF ChargeInv, PaidMeansCharged, RefundedMeansReturned, TypeOK, DbOK
<1>5. ASSUME NEW step \in Steps, Await(h, step),
             step \in SucceededSteps \cup RefundSteps => ord[h] \in charged,
             step \in RefundSteps \ {"stripeRefund"} => refunds'[ord[h]] > 0
      PROVE  StepsMeanCharged'
  <2>1. /\ pc'[h] = step /\ ord' = ord
        /\ \A g \in Procs : g # h => pc'[g] = pc[g]
    BY <1>5 DEF Await, TypeOK, ProcOK
  <2> QED BY <1>1, <1>2, <1>3, <1>5, <2>1 DEF ChargeInv, StepsMeanCharged
<1>6. CASE ~Return(h)
  <2>1. StepsMeanCharged'
    <3>1. CASE StripeRefund(h)
      <4>1. pc[h] = "stripeRefund" /\ Await(h, "markRefunded") /\ ord[h] \in charged
        BY <1>6, <3>1 DEF StripeRefund, ChargeInv, StepsMeanCharged, RefundSteps
      <4>2. refunds'[ord[h]] > 0
        BY <1>3, <1>6, <3>1, <4>1 DEF StripeRefund, TypeOK, StripeOK, RefundSteps
      <4> QED BY <1>5, <4>1, <4>2 DEF Steps, RefundSteps
    <3>2. CASE MarkPaid(h)
      BY <1>5, <3>2 DEF MarkPaid, ChargeInv, StepsMeanCharged, Steps, SucceededSteps, RefundSteps
    <3>3. CASE MarkFailed(h)
      BY <1>5, <3>3 DEF MarkFailed, Steps, SucceededSteps, FailedSteps, RefundSteps
    <3>4. CASE ExpireOrder(h)
      BY <1>5, <3>4 DEF ExpireOrder, Steps, SucceededSteps, ExpirySteps, RefundSteps
    <3>5. CASE MarkRefunded(h)
      <4>1. /\ Await(h, "refundMail") /\ refunds' = refunds
            /\ pc[h] \in RefundSteps \ {"stripeRefund"}
        BY <3>5 DEF MarkRefunded, RefundSteps
      <4> QED BY <1>5, <4>1 DEF ChargeInv, StepsMeanCharged, Steps, RefundSteps
    <3> QED BY <3>1, <3>2, <3>3, <3>4, <3>5
  <2>2. PaidMeansCharged' /\ RefundedMeansReturned'
    BY <1>1, <1>2
       DEF MarkPaid, MarkFailed, ExpireOrder, StripeRefund, MarkRefunded, RefundStatus, SetOrder,
           ChargeInv, StepsMeanCharged, PaidMeansCharged, RefundedMeansReturned, TypeOK, DbOK,
           SucceededSteps, RefundSteps
  <2> QED BY <2>1, <2>2 DEF ChargeInv
<1> QED BY <1>4, <1>6

LEMMA ChargeTail ==
    ASSUME TypeOK, ChargeInv, NEW h \in Procs,
           \/ SendMail(h) \/ EmitStock(h)
           \/ FindAffected(h) \/ CancelOrders(h) \/ CancelDone(h)
           \/ \E o \in OrderIds : CancelMail(h, o)
    PROVE  ChargeInv'
<1>1. UNCHANGED <<charged, refunds, due>>
  BY DEF SendMail, EmitStock, FindAffected, CancelOrders, CancelDone, CancelMail
<1>2. PaidMeansCharged' /\ RefundedMeansReturned'
  <2>1. CASE CancelOrders(h)
    BY <1>1, <2>1 DEF CancelOrders, ChargeInv, PaidMeansCharged, RefundedMeansReturned
  <2>2. CASE UNCHANGED status
    BY <1>1, <2>2 DEF ChargeInv, PaidMeansCharged, RefundedMeansReturned
  <2> QED BY <2>1, <2>2 DEF SendMail, EmitStock, FindAffected, CancelDone, CancelMail
<1>3. \A g \in Procs :
        /\ ord'[g] = ord[g] \/ pc'[g] = "idle"
        /\ \/ pc'[g] = pc[g]
           \/ pc'[g] \notin SucceededSteps \cup RefundSteps
           \/ pc[g] = "purchaseMail" /\ pc'[g] = "paidEmit"
           \/ pc[g] = "refundMail" /\ pc'[g] = "refundEmit"
  <2>1. CASE SendMail(h)
    BY <2>1 DEF SendMail, Tail, Await, TypeOK, ProcOK, SucceededSteps, RefundSteps
  <2>2. CASE ~SendMail(h)
    BY <2>2 DEF EmitStock, FindAffected, CancelOrders, CancelDone, CancelMail, Await, Return,
                TypeOK, ProcOK, SucceededSteps, RefundSteps
  <2> QED BY <2>1, <2>2
<1>4. StepsMeanCharged'
  BY <1>1, <1>3 DEF ChargeInv, StepsMeanCharged, SucceededSteps, RefundSteps
<1> QED BY <1>2, <1>4 DEF ChargeInv

LEMMA ChargeFailure ==
    ASSUME TypeOK, ChargeInv, Crash \/ \E h \in Procs : Rejects(h)
    PROVE  ChargeInv'
<1>1. UNCHANGED <<status, charged, refunds>>
  BY DEF Crash, Rejects
<1>2. PaidMeansCharged' /\ RefundedMeansReturned'
  BY <1>1 DEF ChargeInv, PaidMeansCharged, RefundedMeansReturned
<1>3. \A h \in Procs : pc'[h] = "idle" \/ (pc'[h] = pc[h] /\ ord'[h] = ord[h])
  BY DEF Crash, Rejects, Return, TypeOK, ProcOK
<1>4. ASSUME NEW o \in OrderIds, due'[<<"succeeded", o>>] > 0
      PROVE  o \in charged
  <2> DEFINE e == <<"succeeded", o>>
  <2>1. e \in Hooks
    BY DEF Hooks, HookTypes
  <2>2. \A h \in Procs : Serves(h, e) => o \in charged
    BY DEF Serves, ChargeInv, StepsMeanCharged
  <2>3. due[e] > 0 => o \in charged
    BY DEF ChargeInv, StepsMeanCharged
  <2>4. due[e] \in Nat
    BY <2>1 DEF TypeOK, StripeOK
  <2> HIDE DEF e
  <2>5. ASSUME NEW h \in Procs, Rejects(h) PROVE o \in charged
    BY <1>4, <2>1, <2>2, <2>3, <2>4, <2>5 DEF Rejects, e
  <2>6. ASSUME Crash, o \notin charged PROVE FALSE
    <3>1. {h \in Procs : Serves(h, e)} = {}
      BY <2>2, <2>6
    <3>2. due'[e] = due[e] + 0
      BY <2>1, <2>6, <3>1, FS_EmptySet DEF Crash
    <3> QED BY <1>4, <2>3, <2>4, <2>6, <3>2 DEF e
  <2> QED BY <2>5, <2>6
<1>5. StepsMeanCharged'
  BY <1>1, <1>3, <1>4 DEF ChargeInv, StepsMeanCharged, SucceededSteps, RefundSteps
<1> QED BY <1>2, <1>5 DEF ChargeInv

LEMMA ChargeEnvironment ==
    ASSUME TypeOK, ChargeInv,
           \/ Tick \/ \E s \in StatusRequests : UpdateStatus(s)
           \/ \E o \in OrderIds : CustomerPays(o) \/ PaymentDeclined(o)
           \/ \E e \in Hooks : Redeliver(e)
           \/ UNCHANGED vars
    PROVE  ChargeInv'
<1>1. UNCHANGED <<status, refunds, pc, ord>> /\ charged \subseteq charged'
  BY DEF Tick, UpdateStatus, CustomerPays, PaymentDeclined, Redeliver
<1>2. \A o \in OrderIds : due'[<<"succeeded", o>>] > 0 => o \in charged'
  <2>1. ASSUME NEW p \in OrderIds, CustomerPays(p), NEW o \in OrderIds,
               due'[<<"succeeded", o>>] > 0
        PROVE  o \in charged'
    <3>1. CASE o = p
      BY <2>1, <3>1 DEF CustomerPays
    <3>2. CASE o # p
      <4>1. due'[<<"succeeded", o>>] = due[<<"succeeded", o>>]
        BY <2>1, <3>2 DEF CustomerPays, TypeOK, StripeOK, Hooks, HookTypes
      <4> QED BY <1>1, <2>1, <4>1 DEF ChargeInv, StepsMeanCharged
    <3> QED BY <3>1, <3>2
  <2>2. ASSUME NEW p \in OrderIds, PaymentDeclined(p)
        PROVE  \A o \in OrderIds : due'[<<"succeeded", o>>] = due[<<"succeeded", o>>]
    BY <2>2 DEF PaymentDeclined, TypeOK, StripeOK, Hooks, HookTypes
  <2>3. ASSUME NEW e \in Hooks, Redeliver(e), NEW o \in OrderIds,
               due'[<<"succeeded", o>>] > 0
        PROVE  o \in charged'
    <3>1. CASE e = <<"succeeded", o>>
      BY <2>3, <3>1 DEF Redeliver
    <3>2. CASE e # <<"succeeded", o>>
      <4>1. due'[<<"succeeded", o>>] = due[<<"succeeded", o>>]
        BY <2>3, <3>2 DEF Redeliver, TypeOK, StripeOK, Hooks, HookTypes
      <4> QED BY <1>1, <2>3, <4>1 DEF ChargeInv, StepsMeanCharged
    <3> QED BY <3>1, <3>2
  <2>4. CASE UNCHANGED due
    BY <1>1, <2>4 DEF ChargeInv, StepsMeanCharged
  <2> QED BY <1>1, <2>1, <2>2, <2>3, <2>4 DEF ChargeInv, StepsMeanCharged, Tick, UpdateStatus
<1> QED BY <1>1, <1>2
           DEF ChargeInv, StepsMeanCharged, PaidMeansCharged, RefundedMeansReturned

LEMMA ChargeKept ==
    ASSUME TypeOK, ChargeInv, [Next]_vars
    PROVE  ChargeInv'
<1>1. ASSUME NEW h \in Procs, Continue(h) PROVE ChargeInv'
  BY <1>1, ChargeCheckout, ChargeWrites, ChargeTail, ChargeFailure DEF Continue
<1>2. ASSUME NEW h \in Handlers, Arrive(h) PROVE ChargeInv'
  BY <1>2, ChargeArrive DEF Procs
<1>3. ASSUME NEW o \in OrderIds, ExpiryJobStart(o) PROVE ChargeInv'
  BY <1>3, ChargeArrive DEF Procs
<1> QED BY <1>1, <1>2, <1>3, ChargeFailure, ChargeEnvironment DEF Next

LEMMA ChargeInvariant == Spec => []ChargeInv
<1>1. Init => ChargeInv
  BY DEF Init, ChargeInv, StepsMeanCharged, PaidMeansCharged, RefundedMeansReturned, Hooks,
         HookTypes, SucceededSteps, RefundSteps
<1>2. TypeOK /\ ChargeInv /\ [Next]_vars => ChargeInv'
  BY ChargeKept
<1> QED BY <1>1, <1>2, TypeCorrect, PTL DEF Spec

\* No order counts as bought whose PaymentIntent did not succeed.
THEOREM PaidOrdersAreCharged == Spec => []PaidMeansCharged
<1>1. ChargeInv => PaidMeansCharged
  BY DEF ChargeInv
<1> QED BY <1>1, ChargeInvariant, PTL

\* An order is refunded in the database only after Stripe refunded it.
THEOREM RefundsAreReturned == Spec => []RefundedMeansReturned
<1>1. ChargeInv => RefundedMeansReturned
  BY DEF ChargeInv
<1> QED BY <1>1, ChargeInvariant, PTL

-----------------------------------------------------------------------------
(* Whoever can pay is tracked *)

TrackInv == TrackedBySteps /\ PayableIsTracked

\* The steps of a checkout after the PaymentIntent, one by one.
LEMMA TrackCheckout ==
    ASSUME TypeOK, TrackInv, NEW h \in Procs,
           SavePaymentIntent(h) \/ AddOrderExpiryJob(h) \/ AddReminder(h) \/ AnswerCheckout(h)
    PROVE  TrackInv'
<1>1. ord[h] \in OrderIds
  BY OrdTyped, OrderStepNames
     DEF SavePaymentIntent, AddOrderExpiryJob, AddReminder, AnswerCheckout, CheckoutSteps, TypeOK
<1>2. ASSUME SavePaymentIntent(h) PROVE TrackInv'
  BY <1>1, <1>2 DEF SavePaymentIntent, Await, TrackInv, TrackedBySteps, PayableIsTracked,
                    TypeOK, ProcOK
<1>3. ASSUME AddOrderExpiryJob(h) PROVE TrackInv'
  <2>1. \A o \in OrderIds : jobs[o] # "none" => jobs'[o] # "none"
    BY <1>3 DEF AddOrderExpiryJob, TypeOK, RedisOK
  <2>2. jobs'[ord[h]] # "none"
    BY <1>1, <1>3 DEF AddOrderExpiryJob, TypeOK, RedisOK
  <2>3. \A g \in Procs : pc[g] \in {"addReminder", "answer"} => ord[g] \in OrderIds
    BY OrdTyped, OrderStepNames DEF CheckoutSteps, TypeOK
  <2> QED BY <1>3, <2>1, <2>2, <2>3
             DEF AddOrderExpiryJob, Await, TrackInv, TrackedBySteps, PayableIsTracked,
                 TypeOK, ProcOK, EnvOK
<1>4. ASSUME AddReminder(h) PROVE TrackInv'
  BY <1>1, <1>4 DEF AddReminder, Await, TrackInv, TrackedBySteps, PayableIsTracked,
                    TypeOK, ProcOK
<1>5. ASSUME AnswerCheckout(h) PROVE TrackInv'
  BY <1>1, <1>5 DEF AnswerCheckout, Return, TrackInv, TrackedBySteps, PayableIsTracked,
                    TypeOK, ProcOK
<1> QED BY <1>2, <1>3, <1>4, <1>5

\* Every other step leaves piSaved and answered alone, sets no job back to none
\* and moves no handler to one of the three steps.
LEMMA TrackOther ==
    ASSUME TypeOK, TrackInv,
           UNCHANGED <<piSaved, answered>>,
           \A o \in OrderIds : jobs[o] # "none" => jobs'[o] # "none",
           \A g \in Procs :
               pc'[g] \in {"addExpiryJob", "addReminder", "answer"} =>
                   pc'[g] = pc[g] /\ ord'[g] = ord[g]
    PROVE  TrackInv'
<1>1. \A g \in Procs : pc[g] \in {"addExpiryJob", "addReminder", "answer"} => ord[g] \in OrderIds
  BY OrdTyped, OrderStepNames DEF CheckoutSteps, TypeOK
<1> QED BY <1>1 DEF TrackInv, TrackedBySteps, PayableIsTracked, TypeOK, EnvOK

LEMMA TrackKept ==
    ASSUME TypeOK, TrackInv, [Next]_vars
    PROVE  TrackInv'
<1> DEFINE JobsStay == \A o \in OrderIds : jobs[o] # "none" => jobs'[o] # "none"
           Moves == \A g \in Procs :
                        pc'[g] \in {"addExpiryJob", "addReminder", "answer"} =>
                            pc'[g] = pc[g] /\ ord'[g] = ord[g]
<1>1. ASSUME NEW h \in Procs, Continue(h) PROVE TrackInv'
  <2>1. CASE SavePaymentIntent(h) \/ AddOrderExpiryJob(h) \/ AddReminder(h) \/ AnswerCheckout(h)
    BY <2>1, TrackCheckout
  <2>2. ASSUME \/ CheckoutAggregate(h) \/ CheckoutReserve(h) \/ CreatePaymentIntent(h)
               \/ CreatePaymentIntentFails(h) \/ CheckoutRollback(h)
               \/ MarkPaid(h) \/ MarkFailed(h) \/ ExpireOrder(h)
               \/ StripeRefund(h) \/ MarkRefunded(h) \/ CancelOrders(h) \/ CancelDone(h)
        PROVE TrackInv'
    <3>1. UNCHANGED <<piSaved, answered, jobs>>
      BY <2>2 DEF CheckoutAggregate, CheckoutReserve, CreatePaymentIntent,
                  CreatePaymentIntentFails, CheckoutRollback, MarkPaid, MarkFailed,
                  ExpireOrder, StripeRefund, MarkRefunded, CancelOrders, CancelDone
    <3>2. \/ Return(h)
          \/ \E step \in Steps \ {"addExpiryJob", "addReminder", "answer"} : Await(h, step)
      BY <2>2 DEF CheckoutAggregate, CheckoutReserve, CreatePaymentIntent,
                  CreatePaymentIntentFails, CheckoutRollback, MarkPaid, MarkFailed,
                  ExpireOrder, StripeRefund, MarkRefunded, CancelOrders, CancelDone,
                  Steps, CheckoutSteps, SucceededSteps, FailedSteps, ExpirySteps,
                  RefundSteps, CancelSteps
    <3>3. Moves
      BY <3>2 DEF Return, Await, TypeOK, ProcOK
    <3> QED BY <3>1, <3>3, TrackOther
  <2>3. ASSUME \/ FindAffected(h) \/ \E o \in OrderIds : CancelMail(h, o)
        PROVE TrackInv'
    BY <2>3, TrackOther DEF FindAffected, CancelMail, TypeOK, ProcOK
  <2>4. CASE SendMail(h)
    BY <2>4, TrackOther DEF SendMail, Await, Tail, TypeOK, ProcOK
  <2>5. CASE EmitStock(h)
    BY <2>5, TrackOther DEF EmitStock, Return, TypeOK, ProcOK, RedisOK
  <2>6. CASE Rejects(h)
    BY <2>6, TrackOther DEF Rejects, Return, TypeOK, ProcOK, RedisOK
  <2> QED BY <1>1, <2>1, <2>2, <2>3, <2>4, <2>5, <2>6 DEF Continue
<1>2. ASSUME NEW h \in Handlers, Arrive(h) PROVE TrackInv'
  <2>1. UNCHANGED <<piSaved, answered, jobs>>
    BY <1>2 DEF Arrive, CancelRequest, CheckoutRequest, RefundRequest, PaymentSucceeded,
                PaymentFailed
  <2>2. Moves
    BY <1>2, ArriveEnters
  <2> QED BY <2>1, <2>2, TrackOther
<1>3. ASSUME NEW o \in OrderIds, ExpiryJobStart(o) PROVE TrackInv'
  <2>1. JobsStay
    BY <1>3 DEF ExpiryJobStart, TypeOK, RedisOK
  <2>2. Moves
    BY <1>3 DEF ExpiryJobStart, Enter, Procs, TypeOK, ProcOK
  <2> QED BY <1>3, <2>1, <2>2, TrackOther DEF ExpiryJobStart
<1>4. ASSUME Crash PROVE TrackInv'
  BY <1>4, TrackOther DEF Crash
<1>5. ASSUME \/ Tick \/ \E s \in StatusRequests : UpdateStatus(s)
             \/ \E o \in OrderIds : CustomerPays(o) \/ PaymentDeclined(o)
             \/ \E e \in Hooks : Redeliver(e)
             \/ UNCHANGED vars
      PROVE TrackInv'
  <2>1. UNCHANGED <<piSaved, answered, jobs, pc, ord>>
    BY <1>5 DEF Tick, UpdateStatus, CustomerPays, PaymentDeclined, Redeliver
  <2> QED BY <2>1, TrackOther
<1> QED BY <1>1, <1>2, <1>3, <1>4, <1>5 DEF Next

LEMMA TrackInvariant == Spec => []TrackInv
<1>1. Init => TrackInv
  BY DEF Init, TrackInv, TrackedBySteps, PayableIsTracked
<1>2. TypeOK /\ TrackInv /\ [Next]_vars => TrackInv'
  BY TrackKept
<1> QED BY <1>1, <1>2, TypeCorrect, PTL DEF Spec

\* Whoever holds a client secret has an order that the webhook finds by its
\* PaymentIntent and that an expiry job was added for.
THEOREM WhoeverCanPayIsTracked == Spec => []PayableIsTracked
<1>1. TrackInv => PayableIsTracked
  BY DEF TrackInv
<1> QED BY <1>1, TrackInvariant, PTL

-----------------------------------------------------------------------------
(* One expiry mail per order *)

ExpiryInv == ExpiryByWorker /\ ExpiredOnce

LEMMA WorkerServes ==
    ASSUME TypeOK, NEW h \in Procs, pc[h] \in ExpirySteps
    PROVE  ord[h] \in OrderIds
BY OrdTyped, OrderStepNames DEF TypeOK

\* A step that mails no expiry, reopens no order and moves no handler into the
\* worker's steps.
LEMMA ExpiryOther ==
    ASSUME TypeOK, ExpiryInv,
           \A o \in OrderIds : mails'[<<"expired", o>>] = mails[<<"expired", o>>],
           \A o \in OrderIds : status'[o] \in {"NONE", "PENDING"} =>
                                   status[o] \in {"NONE", "PENDING"},
           \A h \in Procs : pc'[h] \in ExpirySteps => pc'[h] = pc[h] /\ ord'[h] = ord[h],
           pc[Worker] = "expiredMail" => status'[ord[Worker]] # "PENDING"
    PROVE  ExpiryInv'
<1>1. Worker \in Procs
  BY DEF Procs
<1>2. pc[Worker] \in ExpirySteps => ord[Worker] \in OrderIds
  BY <1>1, WorkerServes
<1>3. \A step \in {"expire", "expiredMail"} : step \in ExpirySteps
  BY DEF ExpirySteps
<1> QED BY <1>1, <1>2, <1>3 DEF ExpiryInv, ExpiryByWorker, ExpiredOnce

\* The worker's own steps.
LEMMA ExpiryWorker ==
    ASSUME TypeOK, FreshUntilReserved, ExpiryInv,
           \/ \E o \in OrderIds : ExpiryJobStart(o)
           \/ \E h \in Procs : ExpireOrder(h)
           \/ \E h \in Procs : SendMail(h)
    PROVE  ExpiryInv'
<1>0. Worker \in Procs
  BY DEF Procs
<1>1. ASSUME NEW o \in OrderIds, ExpiryJobStart(o) PROVE ExpiryInv'
  <2>1. CASE UNCHANGED procVars
    BY <1>1, <2>1, ExpiryOther DEF ExpiryJobStart, ExpiryInv, ExpiryByWorker
  <2>2. CASE StillPending(o) /\ Enter(Worker, o, "expire")
    <3>1. mails[<<"expired", o>>] = 0
      BY <2>2 DEF StillPending, ExpiryInv, ExpiryByWorker
    <3>2. pc'[Worker] = "expire" /\ ord'[Worker] = o
      BY <1>0, <2>2 DEF Enter, TypeOK, ProcOK
    <3>3. \A h \in Procs \ {Worker} : pc'[h] = pc[h]
      BY <2>2 DEF Enter, TypeOK, ProcOK
    <3>4. UNCHANGED <<mails, status>>
      BY <1>1 DEF ExpiryJobStart
    <3> QED BY <3>1, <3>2, <3>3, <3>4
               DEF ExpiryInv, ExpiryByWorker, ExpiredOnce, ExpirySteps
  <2> QED BY <1>1, <2>1, <2>2 DEF ExpiryJobStart
<1>2. ASSUME NEW h \in Procs, ExpireOrder(h) PROVE ExpiryInv'
  <2>1. h = Worker /\ ord[h] \in OrderIds
    BY <1>2, WorkerServes DEF ExpireOrder, ExpirySteps, ExpiryInv, ExpiryByWorker
  <2>2. status' = [status EXCEPT ![ord[h]] = "EXPIRED"] /\ UNCHANGED <<mails, ord>>
    BY <1>2 DEF ExpireOrder, SetOrder, Await
  <2>3. pc[h] = "expire" /\ pc' = [pc EXCEPT ![h] = "expiredMail"]
    BY <1>2 DEF ExpireOrder, Await
  <2> QED BY <2>1, <2>2, <2>3
             DEF ExpiryInv, ExpiryByWorker, ExpiredOnce, ExpirySteps, TypeOK, ProcOK, DbOK
<1>3. ASSUME NEW h \in Procs, SendMail(h) PROVE ExpiryInv'
  <2>1. CASE pc[h] = "expiredMail"
    <3>1. h = Worker /\ ord[h] \in OrderIds
      BY <2>1, WorkerServes DEF ExpirySteps, ExpiryInv, ExpiryByWorker
    <3>2. status[ord[h]] \notin {"NONE", "PENDING"} /\ mails[<<"expired", ord[h]>>] = 0
      BY <2>1, <3>1 DEF FreshUntilReserved, CancelSteps, ExpiryInv, ExpiryByWorker
    <3>3. UNCHANGED <<status, ord>> /\ pc' = [pc EXCEPT ![h] = "expiredEmit"]
      BY <1>3, <2>1 DEF SendMail, Await, Tail
    <3>4. mails' = [mails EXCEPT ![<<"expired", ord[h]>>] = @ + 1]
      BY <1>3, <2>1 DEF SendMail, AddEmailJob, Tail
    <3>5. \A o \in OrderIds : <<"expired", o>> \in MailKinds \X OrderIds
      BY DEF MailKinds
    <3>6. mails'[<<"expired", ord[h]>>] = 1
      BY <3>1, <3>2, <3>4, <3>5 DEF TypeOK, RedisOK
    <3>7. \A o \in OrderIds : o # ord[h] =>
             mails'[<<"expired", o>>] = mails[<<"expired", o>>]
      BY <3>4, <3>5 DEF TypeOK, RedisOK
    <3>8. ExpiredOnce'
      <4>1. ASSUME NEW o \in OrderIds PROVE mails'[<<"expired", o>>] <= 1
        BY <3>6, <3>7 DEF ExpiryInv, ExpiredOnce
      <4> QED BY <4>1 DEF ExpiredOnce
    <3>9. \A g \in Procs : pc'[g] \in ExpirySteps => g = Worker
      BY <3>1, <3>3 DEF ExpiryInv, ExpiryByWorker, ExpirySteps, TypeOK, ProcOK
    <3>10. pc'[Worker] = "expiredEmit"
      BY <3>1, <3>3, <1>0 DEF TypeOK, ProcOK
    <3>11. \A o \in OrderIds : status'[o] \in {"NONE", "PENDING"} =>
              mails'[<<"expired", o>>] = 0
      BY <3>2, <3>3, <3>7 DEF ExpiryInv, ExpiryByWorker
    <3> QED BY <3>8, <3>9, <3>10, <3>11 DEF ExpiryInv, ExpiryByWorker
  <2>2. CASE pc[h] # "expiredMail"
    <3>1. \A o \in OrderIds : mails'[<<"expired", o>>] = mails[<<"expired", o>>]
      <4>1. mails' = [mails EXCEPT ![<<Tail[pc[h]][1], ord[h]>>] = @ + 1]
        BY <1>3 DEF SendMail, AddEmailJob
      <4>2. Tail[pc[h]][1] # "expired"
        BY <1>3, <2>2 DEF SendMail, Tail
      <4>3. \A o \in OrderIds : <<"expired", o>> \in MailKinds \X OrderIds
        BY DEF MailKinds
      <4> QED BY <4>1, <4>2, <4>3 DEF TypeOK, RedisOK
    <3>2. UNCHANGED <<status, ord>>
      BY <1>3 DEF SendMail, Await
    <3>3. \A g \in Procs : pc'[g] \in ExpirySteps => pc'[g] = pc[g]
      BY <1>3, <2>2 DEF SendMail, Await, Tail, ExpirySteps, TypeOK, ProcOK
    <3> QED BY <3>1, <3>2, <3>3, ExpiryOther DEF ExpiryInv, ExpiryByWorker
  <2> QED BY <2>1, <2>2
<1> QED BY <1>1, <1>2, <1>3

\* The writes of the other handlers: only a checkout opens an order, and that
\* order is no other handler's.
LEMMA ExpiryWrites ==
    ASSUME TypeOK, FreshUntilReserved, ExpiryInv, NEW h \in Procs,
           \/ CheckoutReserve(h) \/ CheckoutRollback(h) \/ MarkPaid(h) \/ MarkFailed(h)
           \/ MarkRefunded(h) \/ CancelOrders(h)
    PROVE  ExpiryInv'
<1>0. Worker \in Procs
  BY DEF Procs
<1>1. UNCHANGED mails
  BY DEF CheckoutReserve, CheckoutRollback, MarkPaid, MarkFailed, MarkRefunded, CancelOrders
<1>2. Return(h) \/ \E step \in Steps \ ExpirySteps : Await(h, step)
  BY DEF CheckoutReserve, CheckoutRollback, MarkPaid, MarkFailed, MarkRefunded, CancelOrders,
         Steps, CheckoutSteps, SucceededSteps, FailedSteps, RefundSteps, CancelSteps,
         ExpirySteps
<1>3. \A g \in Procs : pc'[g] \in ExpirySteps => pc'[g] = pc[g] /\ ord'[g] = ord[g]
  BY <1>2 DEF Return, Await, ExpirySteps, TypeOK, ProcOK
<1>4. ASSUME CheckoutReserve(h) PROVE ExpiryInv'
  <2>1. ord[h] \in OrderIds /\ status[ord[h]] = "NONE"
    BY <1>4, OrdTyped, OrderStepNames
       DEF CheckoutReserve, CheckoutSteps, CancelSteps, FreshUntilReserved, TypeOK
  <2>2. pc[Worker] = "expiredMail" => ord[Worker] # ord[h]
    BY <1>0, <1>4 DEF CheckoutReserve, FreshUntilReserved
  <2>3. \/ UNCHANGED status
        \/ status' = [status EXCEPT ![ord[h]] = "PENDING"]
    BY <1>4 DEF CheckoutReserve, SetOrder
  <2>4. \A o \in OrderIds : status'[o] \in {"NONE", "PENDING"} =>
           status[o] \in {"NONE", "PENDING"}
    BY <2>1, <2>3 DEF TypeOK, DbOK
  <2>5. pc[Worker] = "expiredMail" => status'[ord[Worker]] # "PENDING"
    BY <2>2, <2>3, <1>0, WorkerServes
       DEF ExpiryInv, ExpiryByWorker, ExpirySteps, TypeOK, DbOK
  <2> QED BY <1>1, <1>3, <2>4, <2>5, ExpiryOther
<1>5. ASSUME \/ CheckoutRollback(h) \/ MarkPaid(h) \/ MarkFailed(h) \/ MarkRefunded(h)
             \/ CancelOrders(h)
      PROVE ExpiryInv'
  <2>1. \A o \in OrderIds : status'[o] \in {"NONE", "PENDING"} => status'[o] = status[o]
    BY <1>5 DEF CheckoutRollback, MarkPaid, MarkFailed, MarkRefunded, CancelOrders, SetOrder,
                RefundStatus, TypeOK, DbOK
  <2>2. pc[Worker] = "expiredMail" => status'[ord[Worker]] # "PENDING"
    BY <2>1, <1>0, WorkerServes DEF ExpiryInv, ExpiryByWorker, ExpirySteps
  <2> QED BY <1>1, <1>3, <2>1, <2>2, ExpiryOther
<1> QED BY <1>4, <1>5

LEMMA ExpiryKept ==
    ASSUME TypeOK, FreshUntilReserved, ExpiryInv, [Next]_vars
    PROVE  ExpiryInv'
<1> DEFINE Calm ==
       /\ \A o \in OrderIds : mails'[<<"expired", o>>] = mails[<<"expired", o>>]
       /\ UNCHANGED status
       /\ \A g \in Procs : pc'[g] \in ExpirySteps => pc'[g] = pc[g] /\ ord'[g] = ord[g]
<1>1. ASSUME Calm PROVE ExpiryInv'
  BY <1>1, ExpiryOther DEF ExpiryInv, ExpiryByWorker
<1>2. ASSUME NEW h \in Procs, Continue(h) PROVE ExpiryInv'
  <2>1. CASE \/ CheckoutReserve(h) \/ CheckoutRollback(h) \/ MarkPaid(h) \/ MarkFailed(h)
             \/ MarkRefunded(h) \/ CancelOrders(h)
    BY <2>1, ExpiryWrites
  <2>2. CASE ExpireOrder(h) \/ SendMail(h)
    BY <2>2, ExpiryWorker
  <2>3. ASSUME \/ CheckoutAggregate(h) \/ CreatePaymentIntent(h)
               \/ CreatePaymentIntentFails(h) \/ SavePaymentIntent(h)
               \/ AddOrderExpiryJob(h) \/ StripeRefund(h) \/ CancelDone(h) \/ EmitStock(h)
               \/ Rejects(h)
        PROVE ExpiryInv'
    <3>1. UNCHANGED <<mails, status>>
      BY <2>3 DEF CheckoutAggregate, CreatePaymentIntent, CreatePaymentIntentFails,
                  SavePaymentIntent, AddOrderExpiryJob, StripeRefund, CancelDone, EmitStock,
                  Rejects
    <3>2. Return(h) \/ \E step \in Steps \ ExpirySteps : Await(h, step)
      BY <2>3 DEF CheckoutAggregate, CreatePaymentIntent, CreatePaymentIntentFails,
                  SavePaymentIntent, AddOrderExpiryJob, StripeRefund, CancelDone, EmitStock,
                  Rejects, Steps, CheckoutSteps, RefundSteps, ExpirySteps
    <3>3. \A g \in Procs : pc'[g] \in ExpirySteps => pc'[g] = pc[g] /\ ord'[g] = ord[g]
      BY <3>2 DEF Return, Await, ExpirySteps, TypeOK, ProcOK
    <3> QED BY <3>1, <3>3, <1>1
  <2>4. ASSUME AddReminder(h) \/ AnswerCheckout(h) \/ \E o \in OrderIds : CancelMail(h, o)
        PROVE ExpiryInv'
    <3>1. \A o \in OrderIds : mails'[<<"expired", o>>] = mails[<<"expired", o>>]
      BY <2>4 DEF AddReminder, AnswerCheckout, CancelMail, AddEmailJob, MailKinds, TypeOK, RedisOK
    <3>2. \A g \in Procs : pc'[g] \in ExpirySteps => pc'[g] = pc[g] /\ ord'[g] = ord[g]
      BY <2>4
         DEF AddReminder, AnswerCheckout, CancelMail, Await, Return, ExpirySteps, TypeOK, ProcOK
    <3>3. UNCHANGED status
      BY <2>4 DEF AddReminder, AnswerCheckout, CancelMail
    <3> QED BY <3>1, <3>2, <3>3, <1>1
  <2>5. CASE FindAffected(h)
    BY <2>5, <1>1 DEF FindAffected, ExpirySteps, TypeOK, ProcOK
  <2> QED BY <1>2, <2>1, <2>2, <2>3, <2>4, <2>5 DEF Continue
<1>3. ASSUME NEW h \in Handlers, Arrive(h) PROVE ExpiryInv'
  <2>1. UNCHANGED <<mails, status>>
    BY <1>3 DEF Arrive, CancelRequest, CheckoutRequest, RefundRequest, PaymentSucceeded,
                PaymentFailed
  <2>2. \A g \in Procs : pc'[g] \in ExpirySteps => pc'[g] = pc[g] /\ ord'[g] = ord[g]
    BY <1>3, ArriveEnters DEF ExpirySteps
  <2> QED BY <2>1, <2>2, <1>1
<1>4. ASSUME \/ Crash \/ Tick \/ \E s \in StatusRequests : UpdateStatus(s)
             \/ \E o \in OrderIds : CustomerPays(o) \/ PaymentDeclined(o)
             \/ \E e \in Hooks : Redeliver(e)
             \/ UNCHANGED vars
      PROVE ExpiryInv'
  <2>1. UNCHANGED <<mails, status>>
    BY <1>4 DEF Crash, Tick, UpdateStatus, CustomerPays, PaymentDeclined, Redeliver
  <2>2. \A g \in Procs : pc'[g] \in ExpirySteps => pc'[g] = pc[g] /\ ord'[g] = ord[g]
    BY <1>4 DEF Crash, Tick, UpdateStatus, CustomerPays, PaymentDeclined, Redeliver, ExpirySteps
  <2> QED BY <2>1, <2>2, <1>1
<1> QED BY <1>2, <1>3, <1>4, ExpiryWorker DEF Next

LEMMA ExpiryInvariant == Spec => []ExpiryInv
<1>1. Init => ExpiryInv
  <2> SUFFICES ASSUME Init PROVE ExpiryInv
    OBVIOUS
  <2>1. \A o \in OrderIds : mails[<<"expired", o>>] = 0
    BY DEF Init, MailKinds
  <2>2. \A h \in Procs : pc[h] = "idle"
    BY DEF Init
  <2> QED BY <2>1, <2>2 DEF ExpiryInv, ExpiryByWorker, ExpiredOnce, ExpirySteps, Procs
<1>2. TypeOK /\ FreshUntilReserved /\ ExpiryInv /\ [Next]_vars => ExpiryInv'
  BY ExpiryKept
<1> QED BY <1>1, <1>2, TypeCorrect, CheckoutIsAlone, PTL DEF Spec

\* An order gets at most one expiry mail, whatever attempts of its job a
\* rejected call or a crash cut off.
THEOREM ExpiryIsMailedOnce == Spec => []ExpiredOnce
<1>1. ExpiryInv => ExpiredOnce
  BY DEF ExpiryInv
<1> QED BY <1>1, ExpiryInvariant, PTL

-----------------------------------------------------------------------------
(* Until the client has its secret, nobody but its checkout knows an order *)

Untracked == {"createIntent", "rollback", "saveIntent", "addExpiryJob"}

LEMMA KnownKept ==
    ASSUME TypeOK, KnownFromClient, [Next]_vars
    PROVE  KnownFromClient'
<1>0. answered \subseteq answered'
  BY AnsweredWrites
<1>1. charged' \subseteq answered'
  <2>1. \A o \in charged' \ charged : o \in answered
    BY Writers DEF CustomerPays
  <2> QED BY <1>0, <2>1 DEF KnownFromClient
<1>2. ASSUME NEW o \in OrderIds, declines'[o] > 0 PROVE o \in answered'
  <2>1. declines'[o] # declines[o] => PaymentDeclined(o)
    <3>1. ASSUME NEW p \in OrderIds, PaymentDeclined(p), p # o PROVE declines'[o] = declines[o]
      BY <3>1 DEF PaymentDeclined, TypeOK, StripeOK
    <3> QED BY <3>1, Writers
  <2> QED BY <1>0, <1>2, <2>1 DEF KnownFromClient, PaymentDeclined
<1>3. ASSUME NEW e \in Hooks, due'[e] > 0 PROVE e[2] \in answered'
  <2>1. CASE due[e] > 0
    BY <1>0, <2>1 DEF KnownFromClient
  <2>2. CASE due'[e] # due[e] /\ ~(due[e] > 0)
    <3>0. due[e] \in Nat /\ e[2] \in OrderIds
      BY DEF TypeOK, StripeOK, Hooks
    <3>1. CustomerPays(e[2]) \/ PaymentDeclined(e[2]) => e[2] \in answered
      BY DEF CustomerPays, PaymentDeclined
    <3>2. Redeliver(e) => e[2] \in answered
      BY <3>0 DEF Redeliver, KnownFromClient
    <3>3. \A h \in Procs : Serves(h, e) => e[2] \in answered
      BY DEF Serves, KnownFromClient
    <3>4. ~(due'[e] = due[e] - 1)
      BY <1>3, <2>2, <3>0
    <3> QED BY <1>0, <2>2, <3>1, <3>2, <3>3, <3>4, DueWrites
  <2> QED BY <1>3, <2>1, <2>2
<1>4. ASSUME NEW h \in Procs, pc'[h] \in SucceededSteps \cup FailedSteps
      PROVE  ord'[h] \in answered'
  <2>1. CASE pc'[h] = pc[h]
    BY <1>0, <1>4, <2>1, CameBy DEF KnownFromClient
  <2>2. CASE pc'[h] # pc[h] /\ pc'[h] \in {"markPaid", "markFailed"}
    <3>1. \A o \in OrderIds : <<"succeeded", o>> \in Hooks /\ <<"payment_failed", o>> \in Hooks
      BY DEF Hooks, HookTypes
    <3>2. ASSUME NEW o \in OrderIds, PaymentSucceeded(h, o) \/ PaymentFailed(h, o)
          PROVE  o \in answered
      BY <3>1, <3>2 DEF PaymentSucceeded, PaymentFailed, KnownFromClient
    <3> QED BY <1>0, <2>2, <3>2, CameBy
  <2>3. CASE pc'[h] # pc[h] /\ pc'[h] \in {"purchaseMail", "paidEmit", "failedEmit"}
    <3>1. pc[h] \in {"markPaid", "purchaseMail", "markFailed"}
      BY <2>3, CameBy DEF MarkPaid, MarkFailed
    <3>2. ord'[h] = ord[h]
      BY <2>3, <3>1, CameBy
    <3> QED BY <1>0, <3>1, <3>2 DEF KnownFromClient, SucceededSteps, FailedSteps
  <2> QED BY <1>4, <2>1, <2>2, <2>3 DEF SucceededSteps, FailedSteps
<1> QED BY <1>1, <1>2, <1>3, <1>4 DEF KnownFromClient

\* An order that is untracked stays as it is, and with its checkout.
LEMMA UntrackedStays ==
    ASSUME TypeOK, FreshUntilReserved, KnownFromClient, UntrackedIsAlone, [Next]_vars,
           NEW h \in Procs, pc[h] \in Untracked, pc'[h] \in Untracked
    PROVE  /\ ord'[h] = ord[h]
           /\ status'[ord[h]] = "PENDING" /\ ord[h] \notin answered' /\ jobs'[ord[h]] = "none"
           /\ \A g \in Procs : ord'[g] = ord[h] => g = h
<1> DEFINE o == ord[h]
<1>1. /\ o \in OrderIds /\ o # NoOrder
      /\ status[o] = "PENDING" /\ o \notin answered /\ jobs[o] = "none"
      /\ \A g \in Procs : ord[g] = o => g = h
  <2>1. pc[h] \in OrderSteps
    BY DEF Untracked, OrderSteps, Steps, CheckoutSteps, CancelSteps
  <2> QED BY <2>1, OrdTyped, OrdersFinite DEF Untracked, UntrackedIsAlone, TypeOK
<1>2. ord'[h] = o
  BY CameBy DEF Untracked
<1>3. status'[o] = "PENDING"
  <2>1. ASSUME CheckoutRollback(h) PROVE FALSE
    BY <2>1 DEF CheckoutRollback, Return, Untracked, TypeOK, ProcOK
  <2> QED BY <1>1, <2>1, StatusWrites DEF Untracked
<1>4. o \notin answered'
  BY <1>1, AnsweredWrites DEF Untracked
<1>5. jobs'[o] = "none"
  <2>1. ASSUME AddOrderExpiryJob(h) PROVE FALSE
    BY <2>1 DEF AddOrderExpiryJob, Await, Untracked, TypeOK, ProcOK
  <2> QED BY <1>1, <2>1, JobWrites DEF Untracked, ExpirySteps
<1>6. ASSUME NEW g \in Procs, ord'[g] = o, g # h PROVE FALSE
  <2>1. ord[g] # o
    BY <1>1, <1>6
  <2>2. pc[g] = "idle" /\ Starts(g)
    <3>1. ASSUME Continue(g) PROVE FALSE
      BY <1>1, <1>6, <2>1, <3>1, ContinueMoves, TypeOKKept DEF TypeOK, ProcOK
    <3>2. ASSUME Crash PROVE FALSE
      BY <1>1, <1>6, <3>2 DEF Crash
    <3> QED BY <1>6, <2>1, <3>1, <3>2, Movers
  <2>3. <<"succeeded", o>> \in Hooks /\ <<"payment_failed", o>> \in Hooks
    BY <1>1 DEF Hooks, HookTypes
  <2>4. ~CheckoutRequest(g, o) /\ ~RefundRequest(g, o) /\ ~ExpiryJobStart(o)
    BY <1>1 DEF CheckoutRequest, RefundRequest, Refundable, ExpiryJobStart
  <2>5. ~PaymentSucceeded(g, o) /\ ~PaymentFailed(g, o)
    BY <1>1, <2>3 DEF PaymentSucceeded, PaymentFailed, KnownFromClient
  <2>6. ~CancelRequest(g)
    BY <1>1, <1>6 DEF CancelRequest, Enter, TypeOK, ProcOK
  <2> QED BY <1>6, <2>1, <2>2, <2>4, <2>5, <2>6, ArriveMoves DEF Starts
<1> QED BY <1>1, <1>2, <1>3, <1>4, <1>5, <1>6

LEMMA UntrackedKept ==
    ASSUME TypeOK, FreshUntilReserved, TrackInv, KnownFromClient, UntrackedIsAlone, [Next]_vars
    PROVE  UntrackedIsAlone'
<1>1. ASSUME NEW h \in Procs, pc'[h] \in Untracked
      PROVE  /\ status'[ord'[h]] = "PENDING" /\ ord'[h] \notin answered'
             /\ jobs'[ord'[h]] = "none"
             /\ \A g \in Procs : ord'[g] = ord'[h] => g = h
  <2>1. CASE pc[h] \in Untracked
    BY <1>1, <2>1, UntrackedStays
  <2>2. CASE pc[h] \notin Untracked
    <3>1. CheckoutReserve(h) /\ pc'[h] = "createIntent"
      BY <1>1, <2>2, CameBy
         DEF Untracked, CreatePaymentIntentFails, CreatePaymentIntent, SavePaymentIntent
    <3>2. pc[h] = "reserve" /\ SetOrder(ord[h], "PENDING") /\ ord' = ord
      BY <3>1 DEF CheckoutReserve, Await, Return, TypeOK, ProcOK
    <3>3. pc[h] \in OrderSteps
      BY <3>2 DEF OrderSteps, Steps, CheckoutSteps, CancelSteps
    <3>4. /\ ord[h] \in OrderIds /\ status[ord[h]] = "NONE"
          /\ \A g \in Procs : ord[g] = ord[h] => g = h
      BY <3>2, <3>3, OrdTyped DEF TypeOK, FreshUntilReserved, OrderSteps
    <3>5. UNCHANGED <<answered, jobs>>
      BY <3>1 DEF CheckoutReserve
    <3>6. ord[h] \notin answered /\ jobs[ord[h]] = "none"
      BY <3>4 DEF TrackInv, PayableIsTracked, FreshUntilReserved, UntrackedIsAlone
    <3> QED BY <3>2, <3>4, <3>5, <3>6 DEF SetOrder, TypeOK, DbOK
  <2> QED BY <2>1, <2>2
<1>2. ASSUME NEW o \in OrderIds, status'[o] = "NONE" PROVE jobs'[o] = "none"
  <2>1. status[o] = "NONE" /\ jobs[o] = "none"
    BY <1>2, StatusWrites DEF UntrackedIsAlone
  <2>2. ASSUME NEW h \in Procs, pc[h] \in {"addExpiryJob"} \cup ExpirySteps, ord[h] = o
        PROVE  FALSE
    BY <2>1, <2>2 DEF FreshUntilReserved, ExpirySteps, CancelSteps
  <2> QED BY <2>1, <2>2, JobWrites DEF ExpirySteps
<1> QED BY <1>1, <1>2 DEF UntrackedIsAlone, Untracked

HandOverInv == KnownFromClient /\ UntrackedIsAlone

LEMMA HandOverInvariant == Spec => []HandOverInv
<1>1. Init => HandOverInv
  BY DEF Init, HandOverInv, KnownFromClient, UntrackedIsAlone, Hooks, SucceededSteps, FailedSteps
<1>2. TypeOK /\ FreshUntilReserved /\ TrackInv /\ HandOverInv /\ [Next]_vars => HandOverInv'
  BY KnownKept, UntrackedKept DEF HandOverInv
<1> QED BY <1>1, <1>2, TypeCorrect, CheckoutIsAlone, TrackInvariant, PTL DEF Spec

\* Until the expiry job is added, nobody but its checkout has changed an order,
\* so a rollback releases what it reserved and nothing else.
THEOREM RollbackIsSafe == Spec => []UntrackedIsAlone
<1>1. HandOverInv => UntrackedIsAlone
  BY DEF HandOverInv
<1> QED BY <1>1, HandOverInvariant, PTL

-----------------------------------------------------------------------------
(* No payment and no expiry job is forgotten *)

LEMMA CutOffIsOwed ==
    ASSUME TypeOK, NEW e \in Hooks, NEW h \in Procs, Serves(h, e), Crash \/ Rejects(h)
    PROVE  due'[e] > 0
<1>0. due[e] \in Nat
  BY DEF TypeOK, StripeOK
<1>1. CASE Rejects(h)
  BY <1>0, <1>1 DEF Rejects
<1>2. CASE Crash
  <2> DEFINE S == {g \in Procs : Serves(g, e)}
  <2>1. IsFiniteSet(Procs) /\ S \subseteq Procs /\ S # {}
    BY HandlersFinite, FS_Singleton, FS_Union DEF Procs
  <2>2. due'[e] = due[e] + Cardinality(S)
    BY <1>2 DEF Crash
  <2> HIDE DEF S
  <2>3. Cardinality(S) \in Nat /\ Cardinality(S) # 0
    BY <2>1, FS_Subset, FS_CardinalityType, FS_EmptySet
  <2> QED BY <1>0, <2>2, <2>3
<1> QED BY <1>1, <1>2

LEMMA PaymentKept ==
    ASSUME TypeOK, FreshUntilReserved, TrackInv, KnownFromClient, PaymentIsKept, [Next]_vars
    PROVE  PaymentIsKept'
<1> SUFFICES ASSUME NEW o \in charged', status'[o] = "PENDING"
             PROVE  \/ due'[<<"succeeded", o>>] > 0
                    \/ \E h \in Procs : pc'[h] = "markPaid" /\ ord'[h] = o
  BY DEF PaymentIsKept
<1> DEFINE e == <<"succeeded", o>>
<1>0. o \in OrderIds /\ e \in Hooks /\ due[e] \in Nat
  BY TypeOKKept DEF TypeOK, StripeOK, Hooks, HookTypes
<1>1. CASE o \notin charged
  <2>1. CustomerPays(o)
    <3>1. PICK p \in OrderIds : CustomerPays(p)
      BY <1>1, Writers
    <3> QED BY <1>1, <3>1 DEF CustomerPays
  <2> QED BY <1>0, <2>1 DEF CustomerPays, TypeOK, StripeOK
<1>2. CASE o \in charged
  <2>1. o \in piSaved /\ status[o] # "NONE"
    BY <1>2 DEF KnownFromClient, TrackInv, PayableIsTracked, FreshUntilReserved
  <2>2. status[o] = "PENDING"
    BY <1>0, <2>1, StatusWrites DEF FreshUntilReserved, CancelSteps
  <2>3. CASE due[e] > 0
    <3>1. CASE due'[e] = due[e] - 1
      <4>1. PICK h \in Handlers : PaymentSucceeded(h, o)
        BY <1>0, <3>1, DueWrites DEF Redeliver
      <4>2. h \in Procs /\ Enter(h, o, "markPaid")
        BY <2>1, <2>2, <4>1 DEF PaymentSucceeded, CanBePaid, Dispatch, Procs
      <4> QED BY <4>2 DEF Enter, TypeOK, ProcOK
    <3>2. CASE due'[e] # due[e] - 1
      <4> HIDE DEF e
      <4>1. due'[e] = due[e] \/ due'[e] > due[e]
        BY <1>0, <3>2, DueWrites
      <4>2. due'[e] \in Nat
        BY <1>0, TypeOKKept DEF TypeOK, StripeOK
      <4> QED BY <1>0, <2>3, <4>1, <4>2 DEF e
    <3> QED BY <3>1, <3>2
  <2>4. ASSUME NEW h \in Procs, pc[h] = "markPaid", ord[h] = o,
               ~(pc'[h] = "markPaid" /\ ord'[h] = o)
        PROVE  due'[e] > 0
    <3>1. ASSUME MarkPaid(h) PROVE FALSE
      BY <1>0, <2>4, <3>1 DEF MarkPaid, SetOrder, TypeOK, DbOK
    <3>2. Crash \/ Continue(h)
      BY <2>4, Movers
    <3>3. Continue(h) => Rejects(h)
      BY <2>4, <3>1
         DEF Continue, CheckoutAggregate, CheckoutReserve, CreatePaymentIntent,
             CreatePaymentIntentFails, CheckoutRollback, SavePaymentIntent, AddOrderExpiryJob,
             AddReminder, AnswerCheckout, MarkFailed, ExpireOrder, StripeRefund, MarkRefunded,
             FindAffected, CancelOrders, CancelDone, CancelMail, SendMail, Tail, EmitStock
    <3>4. Serves(h, e)
      BY <2>4 DEF Serves, SucceededSteps
    <3> QED BY <1>0, <3>2, <3>3, <3>4, CutOffIsOwed
  <2> QED BY <1>2, <2>2, <2>3, <2>4 DEF PaymentIsKept
<1> QED BY <1>1, <1>2

\* As long as an order that was paid for is PENDING, the success event is on its
\* way to it or about to be applied, whatever is cut off.
THEOREM NoPaymentIsForgotten == Spec => []PaymentIsKept
<1>1. Init => PaymentIsKept
  BY DEF Init, PaymentIsKept
<1>2. TypeOK /\ FreshUntilReserved /\ TrackInv /\ HandOverInv /\ PaymentIsKept /\ [Next]_vars
        => PaymentIsKept'
  BY PaymentKept DEF HandOverInv
<1> QED BY <1>1, <1>2, TypeCorrect, CheckoutIsAlone, TrackInvariant, HandOverInvariant, PTL
       DEF Spec

\* With this an order whose job completes is over.
ExpiredIsOver == pc[Worker] \in {"expiredMail", "expiredEmit"} => status[ord[Worker]] # "PENDING"
JobInv == JobIsKept /\ ExpiredIsOver

LEMMA ExpiredStaysOver ==
    ASSUME TypeOK, FreshUntilReserved, ExpiredIsOver, [Next]_vars
    PROVE  ExpiredIsOver'
<1> SUFFICES ASSUME pc'[Worker] \in {"expiredMail", "expiredEmit"},
                    status'[ord'[Worker]] = "PENDING"
             PROVE  FALSE
  BY DEF ExpiredIsOver
<1>0. Worker \in Procs
  BY DEF Procs
<1>1. CASE pc'[Worker] = "expiredMail" /\ pc[Worker] # "expiredMail"
  <2>1. ExpireOrder(Worker)
    BY <1>0, <1>1, CameBy
  <2>2. ord[Worker] \in OrderIds
    BY <1>0, <2>1, WorkerServes DEF ExpireOrder, ExpirySteps
  <2> QED BY <2>1, <2>2 DEF ExpireOrder, Await, SetOrder, TypeOK, DbOK
<1>2. CASE pc[Worker] \in {"expiredMail", "expiredEmit"}
  <2>1. /\ ord'[Worker] = ord[Worker] /\ ord[Worker] \in OrderIds
        /\ status[ord[Worker]] \notin {"NONE", "PENDING"}
    <3>1. ord'[Worker] = ord[Worker]
      BY <1>0, <1>2, CameBy
    <3>2. pc[Worker] \in ExpirySteps
      BY <1>2 DEF ExpirySteps
    <3> QED BY <1>0, <1>2, <3>1, <3>2, WorkerServes
            DEF ExpiredIsOver, FreshUntilReserved, CancelSteps
  <2>2. status'[ord[Worker]] = "PENDING" /\ status'[ord[Worker]] # status[ord[Worker]]
    BY <2>1
  <2>3. \E h \in Procs : pc[h] = "reserve" /\ ord[h] = ord[Worker]
    BY <2>1, <2>2, StatusWrites
  <2> QED BY <2>1, <2>3 DEF FreshUntilReserved, CancelSteps
<1> QED BY <1>0, <1>1, <1>2, CameBy

LEMMA JobKept ==
    ASSUME TypeOK, FreshUntilReserved, ExpiryByWorker, UntrackedIsAlone, JobInv, [Next]_vars
    PROVE  JobIsKept'
<1>0. Worker \in Procs
  BY DEF Procs
<1>1. ASSUME NEW o \in OrderIds, jobs'[o] = "active"
      PROVE  pc'[Worker] \in ExpirySteps /\ ord'[Worker] = o
  <2>1. CASE jobs[o] # "active"
    <3>1. ExpiryJobStart(o)
      BY <1>1, <2>1, JobWrites
    <3>2. Enter(Worker, o, "expire")
      BY <1>1, <3>1 DEF ExpiryJobStart, TypeOK, RedisOK
    <3> QED BY <1>0, <3>2 DEF Enter, ExpirySteps, TypeOK, ProcOK
  <2>2. CASE jobs[o] = "active"
    <3>1. pc[Worker] \in ExpirySteps /\ ord[Worker] = o
      BY <2>2 DEF JobInv, JobIsKept
    <3>2. ~Crash
      BY <1>1, <2>2 DEF Crash
    <3>3. ASSUME Continue(Worker), pc'[Worker] = "idle" PROVE FALSE
      <4>1. EmitStock(Worker) \/ Rejects(Worker) \/ ExpireOrder(Worker) \/ SendMail(Worker)
        BY <3>1, <3>3
           DEF Continue, CheckoutAggregate, CheckoutReserve, CreatePaymentIntent,
               CreatePaymentIntentFails, CheckoutRollback, SavePaymentIntent, AddOrderExpiryJob,
               AddReminder, AnswerCheckout, MarkPaid, MarkFailed, StripeRefund, MarkRefunded,
               FindAffected, CancelOrders, CancelDone, CancelMail, ExpirySteps
      <4>2. ~ExpireOrder(Worker) /\ ~SendMail(Worker)
        <5>1. SendMail(Worker) => Tail[pc[Worker]][2] # "idle"
          BY DEF SendMail, Tail
        <5> QED BY <1>0, <3>3, <5>1 DEF ExpireOrder, SendMail, Await, TypeOK, ProcOK
      <4> QED BY <1>0, <1>1, <3>1, <4>1, <4>2 DEF EmitStock, Rejects, ExpirySteps, TypeOK, RedisOK
    <3>4. ASSUME Continue(Worker), pc'[Worker] # "idle"
          PROVE  pc'[Worker] \in ExpirySteps /\ ord'[Worker] = o
      BY <1>0, <3>1, <3>4, ContinueMoves
         DEF ExpirySteps, CheckoutAggregate, CheckoutReserve, CreatePaymentIntent,
             CreatePaymentIntentFails, SavePaymentIntent, AddOrderExpiryJob, AddReminder,
             MarkPaid, MarkFailed, StripeRefund, MarkRefunded, FindAffected, CancelOrders,
             CancelMail
    <3> QED BY <1>0, <3>1, <3>2, <3>3, <3>4, Movers DEF ExpirySteps
  <2> QED BY <2>1, <2>2
<1>2. ASSUME NEW o \in OrderIds, pc'[Worker] \in ExpirySteps, ord'[Worker] = o
      PROVE  jobs'[o] = "active"
  <2>1. CASE pc[Worker] \notin ExpirySteps
    <3>1. pc'[Worker] = "expire" /\ ExpiryJobStart(o) /\ StillPending(o)
      BY <1>0, <1>2, <2>1, CameBy DEF ExpirySteps, ExpireOrder
    <3> QED BY <3>1 DEF ExpiryJobStart, TypeOK, RedisOK
  <2>2. CASE pc[Worker] \in ExpirySteps
    <3>1. ord[Worker] = o /\ jobs[o] = "active"
      <4>1. ord'[Worker] = ord[Worker]
        BY <1>0, <1>2, <2>2, CameBy DEF ExpirySteps
      <4> QED BY <1>2, <2>2, <4>1 DEF JobInv, JobIsKept
    <3>2. ~Crash
      BY <1>0, <1>2 DEF Crash, ExpirySteps
    <3>3. ASSUME NEW h \in Procs, pc[h] \in ExpirySteps, Rejects(h) \/ EmitStock(h) PROVE FALSE
      <4>1. h = Worker
        BY <3>3 DEF ExpiryByWorker
      <4> QED BY <1>0, <1>2, <3>3, <4>1
              DEF Rejects, EmitStock, Return, ExpirySteps, TypeOK, ProcOK
    <3>4. ASSUME NEW h \in Procs, pc[h] = "addExpiryJob", ord[h] = o PROVE FALSE
      BY <3>1, <3>4 DEF UntrackedIsAlone
    <3> QED BY <3>1, <3>2, <3>3, <3>4, JobWrites DEF ExpirySteps
  <2> QED BY <2>1, <2>2
<1>3. ASSUME NEW o \in OrderIds, jobs'[o] = "completed", status'[o] = "PENDING"
      PROVE  FALSE
  <2>1. CASE jobs[o] = "completed"
    <3>1. status[o] \notin {"NONE", "PENDING"}
      BY <2>1 DEF JobInv, JobIsKept, UntrackedIsAlone
    <3> QED BY <1>3, <3>1, StatusWrites DEF FreshUntilReserved, CancelSteps
  <2>2. CASE ExpiryJobStart(o)
    BY <1>3, <2>2 DEF ExpiryJobStart, StillPending, TypeOK, RedisOK
  <2>3. ASSUME NEW h \in Procs, pc[h] = "expiredEmit", ord[h] = o, EmitStock(h) PROVE FALSE
    <3>1. h = Worker
      BY <2>3 DEF ExpiryByWorker, ExpirySteps
    <3> QED BY <1>3, <2>3, <3>1 DEF EmitStock, JobInv, ExpiredIsOver
  <2> QED BY <1>3, <2>1, <2>2, <2>3, JobWrites
<1> QED BY <1>1, <1>2, <1>3 DEF JobIsKept

LEMMA JobInvariant == Spec => []JobInv
<1>1. Init => JobInv
  BY DEF Init, JobInv, JobIsKept, ExpiredIsOver, ExpirySteps, Procs
<1>2. TypeOK /\ FreshUntilReserved /\ ExpiryInv /\ HandOverInv /\ JobInv /\ [Next]_vars => JobInv'
  BY JobKept, ExpiredStaysOver DEF ExpiryInv, HandOverInv, JobInv
<1> QED BY <1>1, <1>2, TypeCorrect, CheckoutIsAlone, ExpiryInvariant, HandOverInvariant, PTL
       DEF Spec

\* An order that a client can pay and that is PENDING has an expiry job that is
\* waiting, running, or was given up: none is lost, none completes too early.
THEOREM NoJobIsForgotten ==
    Spec => [](/\ JobIsKept
               /\ \A o \in answered : status[o] = "PENDING" =>
                     jobs[o] \in {"delayed", "active", "failed"})
<1>1. TypeOK /\ TrackInv /\ JobInv =>
        /\ JobIsKept
        /\ \A o \in answered : status[o] = "PENDING" => jobs[o] \in {"delayed", "active", "failed"}
  BY DEF TypeOK, EnvOK, RedisOK, JobState, TrackInv, PayableIsTracked, JobInv, JobIsKept
<1> QED BY <1>1, TypeCorrect, TrackInvariant, JobInvariant, PTL

\* BullMQ gives a job up when its attempts are used up or it stalled too often:
\* every attempt that failed was a call that rejected, every stall a crash.
GivenUpForAReason ==
    \A o \in OrderIds :
        /\ jobs[o] = "failed" => attempts[o] >= Attempts \/ stalls[o] > MaxStalledCount
        /\ attempts[o] <= failures /\ stalls[o] <= crashes

LEMMA ReasonKept ==
    ASSUME TypeOK, GivenUpForAReason, [Next]_vars
    PROVE  GivenUpForAReason'
<1> SUFFICES ASSUME NEW o \in OrderIds
             PROVE  /\ jobs'[o] = "failed" => attempts'[o] >= Attempts \/ stalls'[o] > MaxStalledCount
                    /\ attempts'[o] <= failures' /\ stalls'[o] <= crashes'
  BY DEF GivenUpForAReason
<1>0. /\ attempts[o] \in Nat /\ stalls[o] \in Nat /\ failures \in Nat /\ crashes \in Nat
      /\ attempts[o] <= failures /\ stalls[o] <= crashes
      /\ jobs[o] = "failed" => attempts[o] >= Attempts \/ stalls[o] > MaxStalledCount
      /\ Attempts \in Nat /\ MaxStalledCount \in Nat
  BY BoundsType DEF TypeOK, RedisOK, EnvOK, GivenUpForAReason
<1>1. ASSUME NEW h \in Procs, Rejects(h)
      PROVE  /\ attempts'[o] \in {attempts[o], attempts[o] + 1} /\ stalls'[o] = stalls[o]
             /\ failures' = failures + 1 /\ crashes' = crashes
             /\ jobs'[o] = "failed" => jobs[o] = "failed" \/ attempts'[o] >= Attempts
  <2>1. CASE pc[h] \in ExpirySteps /\ ord[h] = o
    BY <1>0, <1>1, <2>1 DEF Rejects, TypeOK, RedisOK
  <2>2. CASE ~(pc[h] \in ExpirySteps /\ ord[h] = o)
    BY <1>1, <2>2 DEF Rejects, TypeOK, RedisOK
  <2> QED BY <2>1, <2>2
<1>2. ASSUME Crash
      PROVE  /\ attempts'[o] = attempts[o] /\ stalls'[o] \in {stalls[o], stalls[o] + 1}
             /\ failures' = failures /\ crashes' = crashes + 1
             /\ jobs'[o] = "failed" => jobs[o] = "failed" \/ stalls'[o] > MaxStalledCount
  BY <1>0, <1>2 DEF Crash
<1>3. ASSUME ~Crash, \A h \in Procs : ~Rejects(h)
      PROVE  /\ UNCHANGED <<attempts, stalls, crashes>>
             /\ failures' \in {failures, failures + 1}
             /\ jobs'[o] = "failed" => jobs[o] = "failed"
  <2>1. UNCHANGED <<attempts, stalls, crashes>> /\ failures' \in {failures, failures + 1}
    BY <1>3, Writers DEF CreatePaymentIntentFails
  <2>2. ExpiryJobStart(o) => jobs'[o] # "failed"
    BY DEF ExpiryJobStart, TypeOK, RedisOK
  <2> QED BY <1>3, <2>1, <2>2, JobWrites
<1> QED BY <1>0, <1>1, <1>2, <1>3

\* As long as fewer calls failed than a job has attempts, and the process died no
\* more often than a job may stall, every PENDING order that a client can pay has
\* an expiry job that is waiting or running.
THEOREM JobsSurviveFaults ==
    Spec => [](failures < Attempts /\ crashes <= MaxStalledCount =>
                  \A o \in answered : status[o] = "PENDING" => jobs[o] \in {"delayed", "active"})
<1>1. Init => GivenUpForAReason
  BY DEF Init, GivenUpForAReason
<1>2. TypeOK /\ GivenUpForAReason /\ [Next]_vars => GivenUpForAReason'
  BY ReasonKept
<1>3. TypeOK /\ TrackInv /\ JobInv /\ GivenUpForAReason
        => (failures < Attempts /\ crashes <= MaxStalledCount =>
               \A o \in answered : status[o] = "PENDING" => jobs[o] \in {"delayed", "active"})
  <2> SUFFICES ASSUME TypeOK, TrackInv, JobInv, GivenUpForAReason,
                      failures < Attempts, crashes <= MaxStalledCount,
                      NEW o \in answered, status[o] = "PENDING"
               PROVE  jobs[o] \in {"delayed", "active"}
    OBVIOUS
  <2>1. jobs[o] \in {"delayed", "active", "failed"} /\ o \in OrderIds
    BY DEF TypeOK, EnvOK, RedisOK, JobState, TrackInv, PayableIsTracked, JobInv, JobIsKept
  <2>2. jobs[o] # "failed"
    BY <2>1, BoundsType DEF TypeOK, RedisOK, EnvOK, GivenUpForAReason
  <2> QED BY <2>1, <2>2
<1> QED BY <1>1, <1>2, <1>3, TypeCorrect, TrackInvariant, JobInvariant, PTL DEF Spec

\* BullMQ gives a job up exactly when its attempts are used up or it has stalled
\* once too often.
UsedUp(o) == attempts[o] = Attempts \/ stalls[o] = MaxStalledCount + 1
GivenUpWhenUsedUp ==
    \A o \in OrderIds :
        /\ attempts[o] <= Attempts /\ stalls[o] <= MaxStalledCount + 1
        /\ jobs[o] = "failed" <=> UsedUp(o)

\* The job of an order that the worker is serving is active.
LEMMA JobActive ==
    ASSUME TypeOK, ExpiryByWorker, JobIsKept, NEW h \in Procs, pc[h] \in ExpirySteps
    PROVE  ord[h] \in OrderIds /\ jobs[ord[h]] = "active"
<1>1. h = Worker
  BY DEF ExpiryByWorker
<1>2. ord[h] \in OrderIds
  BY OrdTyped, OrderStepNames DEF TypeOK
<1> QED BY <1>1, <1>2 DEF JobIsKept

LEMMA UsedUpKept ==
    ASSUME TypeOK, ExpiryByWorker, UntrackedIsAlone, JobIsKept, GivenUpWhenUsedUp, [Next]_vars
    PROVE  GivenUpWhenUsedUp'
<1> SUFFICES ASSUME NEW o \in OrderIds
             PROVE  /\ attempts'[o] <= Attempts /\ stalls'[o] <= MaxStalledCount + 1
                    /\ jobs'[o] = "failed" <=>
                          attempts'[o] = Attempts \/ stalls'[o] = MaxStalledCount + 1
  BY DEF GivenUpWhenUsedUp, UsedUp
<1>0. /\ attempts[o] \in Nat /\ stalls[o] \in Nat /\ Attempts \in Nat /\ MaxStalledCount \in Nat
      /\ attempts[o] <= Attempts /\ stalls[o] <= MaxStalledCount + 1
      /\ jobs[o] = "failed" <=> attempts[o] = Attempts \/ stalls[o] = MaxStalledCount + 1
  BY BoundsType DEF TypeOK, RedisOK, GivenUpWhenUsedUp, UsedUp
\* Only the worker's job can fail an attempt, and it is active then.
<1>1. ASSUME NEW h \in Procs, Rejects(h), pc[h] \in ExpirySteps, ord[h] = o
      PROVE  /\ jobs[o] = "active" /\ attempts'[o] = attempts[o] + 1 /\ stalls'[o] = stalls[o]
             /\ jobs'[o] = IF attempts[o] + 1 < Attempts THEN "delayed" ELSE "failed"
  <2>1. jobs[o] = "active"
    BY <1>1, JobActive
  <2> QED BY <1>1, <2>1 DEF Rejects, TypeOK, RedisOK
<1>2. ASSUME NEW h \in Procs, Rejects(h), ~(pc[h] \in ExpirySteps /\ ord[h] = o)
      PROVE  jobs'[o] = jobs[o] /\ attempts'[o] = attempts[o] /\ stalls'[o] = stalls[o]
  BY <1>2 DEF Rejects, TypeOK, RedisOK
<1>3. ASSUME Crash
      PROVE  /\ attempts'[o] = attempts[o]
             /\ \/ jobs[o] # "active" /\ jobs'[o] = jobs[o] /\ stalls'[o] = stalls[o]
                \/ /\ jobs[o] = "active" /\ stalls'[o] = stalls[o] + 1
                   /\ jobs'[o] = IF stalls[o] < MaxStalledCount THEN "delayed" ELSE "failed"
  BY <1>3 DEF Crash
<1>4. ASSUME ~Crash, \A h \in Procs : ~Rejects(h)
      PROVE  /\ attempts'[o] = attempts[o] /\ stalls'[o] = stalls[o]
             /\ jobs'[o] = "failed" <=> jobs[o] = "failed"
  <2>1. attempts' = attempts /\ stalls' = stalls
    BY <1>4, Writers
  <2>2. CASE jobs'[o] = jobs[o]
    BY <2>1, <2>2
  <2>3. CASE jobs'[o] # jobs[o]
    <3>1. ExpiryJobStart(o) => jobs'[o] # "failed"
      BY DEF ExpiryJobStart, TypeOK, RedisOK
    <3>2. ASSUME NEW h \in Procs, pc[h] = "addExpiryJob", ord[h] = o PROVE jobs[o] # "failed"
      BY <3>2 DEF UntrackedIsAlone
    <3>3. ASSUME NEW h \in Procs, pc[h] = "expiredEmit", ord[h] = o PROVE jobs[o] # "failed"
      BY <3>3, JobActive DEF ExpirySteps
    <3> QED BY <1>4, <2>1, <2>3, <3>1, <3>2, <3>3, JobWrites
  <2> QED BY <2>2, <2>3
<1> QED BY <1>0, <1>1, <1>2, <1>3, <1>4

\* While its job waits or runs, an order has an attempt left, and may stall: BullMQ
\* drops a job neither a failure too early nor a failure too late.
THEOREM JobsGiveUpInTime == Spec => []GivenUpWhenUsedUp
<1>1. Init => GivenUpWhenUsedUp
  BY BoundsType DEF Init, GivenUpWhenUsedUp, UsedUp
<1>2. TypeOK /\ ExpiryInv /\ HandOverInv /\ JobInv /\ GivenUpWhenUsedUp /\ [Next]_vars
        => GivenUpWhenUsedUp'
  BY UsedUpKept DEF ExpiryInv, HandOverInv, JobInv
<1> QED BY <1>1, <1>2, TypeCorrect, ExpiryInvariant, HandOverInvariant, JobInvariant, PTL DEF Spec

-----------------------------------------------------------------------------
(* No email says what did not happen *)

MailInv == MailsAreTrue /\ MailedBySteps

\* The list of a cancellation is read once, and shrinks.
LEMMA ListWrites ==
    ASSUME TypeOK, [Next]_vars, NEW h \in Procs
    PROVE  affected'[h] \subseteq affected[h] \cup OrdersAffected
<1>1. ASSUME NEW g \in Procs, Continue(g), g # h PROVE affected'[h] = affected[h]
  BY <1>1, ContinueMoves
<1>2. ASSUME Continue(h) PROVE affected'[h] \subseteq affected[h] \cup OrdersAffected
  <2> DEFINE Shrinks == affected'[h] \subseteq affected[h] \cup OrdersAffected
  <2>1. \A step : Await(h, step) => Shrinks
    BY DEF Await
  <2>2. Return(h) => Shrinks
    BY DEF Return, TypeOK, ProcOK
  <2>3. FindAffected(h) \/ (\E o \in OrderIds : CancelMail(h, o)) => Shrinks
    BY DEF FindAffected, CancelMail, TypeOK, ProcOK
  <2> HIDE DEF Shrinks
  <2>4. ASSUME \/ CheckoutAggregate(h) \/ CheckoutReserve(h) \/ CreatePaymentIntent(h)
               \/ CreatePaymentIntentFails(h) \/ CheckoutRollback(h) \/ SavePaymentIntent(h)
               \/ AddOrderExpiryJob(h) \/ AddReminder(h) \/ AnswerCheckout(h)
        PROVE  Shrinks
    BY <2>1, <2>2, <2>4
       DEF CheckoutAggregate, CheckoutReserve, CreatePaymentIntent, CreatePaymentIntentFails,
           CheckoutRollback, SavePaymentIntent, AddOrderExpiryJob, AddReminder, AnswerCheckout
  <2>5. ASSUME \/ MarkPaid(h) \/ MarkFailed(h) \/ ExpireOrder(h) \/ StripeRefund(h)
               \/ MarkRefunded(h) \/ CancelOrders(h) \/ CancelDone(h) \/ SendMail(h)
               \/ EmitStock(h) \/ Rejects(h)
        PROVE  Shrinks
    BY <2>1, <2>2, <2>5
       DEF MarkPaid, MarkFailed, ExpireOrder, StripeRefund, MarkRefunded, CancelOrders,
           CancelDone, SendMail, EmitStock, Rejects
  <2> QED BY <1>2, <2>3, <2>4, <2>5 DEF Continue, Shrinks
<1>3. ASSUME NEW g \in Procs, Starts(g) PROVE affected' = affected
  BY <1>3, ArriveMoves DEF Starts
<1>4. Crash => affected'[h] = {}
  BY DEF Crash
<1>5. ASSUME \/ Tick \/ \E s \in StatusRequests : UpdateStatus(s)
             \/ \E o \in OrderIds : CustomerPays(o) \/ PaymentDeclined(o)
             \/ \E e \in Hooks : Redeliver(e)
             \/ UNCHANGED vars
      PROVE affected' = affected
  BY <1>5 DEF Tick, UpdateStatus, CustomerPays, PaymentDeclined, Redeliver
<1>6. Worker \in Procs /\ Handlers \subseteq Procs
  BY DEF Procs
<1> QED BY <1>1, <1>2, <1>3, <1>4, <1>5, <1>6 DEF Next, Starts

LEMMA MailedByStepsKept ==
    ASSUME TypeOK, ChargeInv, UntrackedIsAlone, MailInv, [Next]_vars
    PROVE  MailedBySteps'
<1>1. charged \subseteq charged'
  BY Writers DEF CustomerPays
<1>2. ASSUME NEW h \in Procs PROVE affected'[h] \subseteq charged'
  <2>1. OrdersAffected \subseteq charged
    BY DEF OrdersAffected, ChargeInv, PaidMeansCharged
  <2> QED BY <1>1, <2>1, ListWrites DEF MailInv, MailedBySteps
\* Whoever comes to the reminder has been alone with its order until then.
<1>3. ASSUME NEW h \in Procs, pc'[h] = "addReminder"
      PROVE  /\ ord'[h] = ord[h]
             /\ mails[<<"reminder", ord[h]>>] = 0
             /\ \/ pc[h] = "addReminder"
                \/ /\ pc[h] = "addExpiryJob"
                   /\ \A g \in Procs : ord[g] = ord[h] => g = h
  <2>1. CASE pc[h] = "addReminder"
    BY <1>3, <2>1, CameBy DEF MailInv, MailedBySteps
  <2>2. CASE pc[h] # "addReminder"
    <3>1. pc[h] = "addExpiryJob"
      BY <1>3, <2>2, CameBy DEF AddOrderExpiryJob
    <3>2. ord[h] \in OrderIds /\ mails[<<"reminder", ord[h]>>] \in Nat
      BY <3>1, OrdTyped, OrderStepNames DEF CheckoutSteps, MailKinds, TypeOK, RedisOK
    <3>3. mails[<<"reminder", ord[h]>>] = 0
      <4>1. jobs[ord[h]] = "none"
        BY <3>1 DEF UntrackedIsAlone
      <4>2. ~(mails[<<"reminder", ord[h]>>] > 0)
        BY <3>2, <4>1 DEF MailInv, MailsAreTrue
      <4> QED BY <3>2, <4>2
    <3> QED BY <1>3, <3>1, <3>3, CameBy DEF UntrackedIsAlone
  <2> QED BY <2>1, <2>2
<1>4. ASSUME NEW h \in Procs, pc'[h] = "addReminder"
      PROVE  mails'[<<"reminder", ord'[h]>>] = 0
  <2>1. ord[h] \in OrderIds
    BY <1>3, <1>4, OrdTyped, OrderStepNames DEF CheckoutSteps, TypeOK
  <2>2. ASSUME mails'[<<"reminder", ord[h]>>] # mails[<<"reminder", ord[h]>>] PROVE FALSE
    <3>1. PICK g \in Procs : pc[g] = "addReminder" /\ ord[g] = ord[h] /\ AddReminder(g)
      BY <2>1, <2>2, MailedBy
    <3>2. g = h
      BY <1>3, <1>4, <3>1 DEF MailInv, MailedBySteps
    <3> QED BY <1>4, <3>1, <3>2 DEF AddReminder, Await, TypeOK, ProcOK
  <2> QED BY <1>3, <1>4, <2>2
<1>5. ASSUME NEW h \in Procs, NEW g \in Procs,
             pc'[h] = "addReminder", pc'[g] = "addReminder", ord'[g] = ord'[h]
      PROVE  g = h
  <2>1. ord[g] = ord[h]
    BY <1>3, <1>5
  <2>2. CASE pc[h] = "addReminder" /\ pc[g] = "addReminder"
    BY <2>1, <2>2 DEF MailInv, MailedBySteps
  <2> QED BY <1>3, <1>5, <2>1, <2>2
<1> QED BY <1>2, <1>4, <1>5 DEF MailedBySteps

\* An intent that is saved stays saved, and a job that was added is not forgotten.
LEMMA StaysTracked ==
    ASSUME TypeOK, [Next]_vars, NEW o \in OrderIds, o \in piSaved, jobs[o] # "none"
    PROVE  o \in piSaved' /\ jobs'[o] # "none"
<1>1. UNCHANGED piSaved \/ \E h \in Procs : SavePaymentIntent(h)
  <2>1. ASSUME NEW h \in Procs, Continue(h) PROVE UNCHANGED piSaved \/ SavePaymentIntent(h)
    BY <2>1 DEF Continue, CheckoutAggregate, CheckoutReserve, CreatePaymentIntent,
                CreatePaymentIntentFails, CheckoutRollback, AddOrderExpiryJob, AddReminder,
                AnswerCheckout, MarkPaid, MarkFailed, ExpireOrder, StripeRefund, MarkRefunded,
                FindAffected, CancelOrders, CancelDone, CancelMail, SendMail, EmitStock, Rejects
  <2> QED BY <2>1, OthersWrite
<1>2. o \in piSaved'
  BY <1>1 DEF SavePaymentIntent
<1>3. ExpiryJobStart(o) => jobs'[o] # "none"
  BY DEF ExpiryJobStart, TypeOK, RedisOK
<1> QED BY <1>2, <1>3, JobWrites

LEMMA MailsStayTrue ==
    ASSUME TypeOK, ChargeInv, TrackInv, MailInv, [Next]_vars
    PROVE  MailsAreTrue'
<1>1. charged \subseteq charged'
  BY Writers DEF CustomerPays
<1>2. \A o \in OrderIds, kind \in MailKinds : mails[<<kind, o>>] \in Nat
  BY DEF TypeOK, RedisOK
<1>3. ASSUME NEW o \in OrderIds, mails'[<<"purchase", o>>] > 0 PROVE o \in charged'
  <2>1. CASE mails'[<<"purchase", o>>] = mails[<<"purchase", o>>]
    BY <1>1, <1>3, <2>1 DEF MailInv, MailsAreTrue
  <2>2. CASE mails'[<<"purchase", o>>] # mails[<<"purchase", o>>]
    <3>1. PICK h \in Procs : pc[h] = "purchaseMail" /\ ord[h] = o /\ SendMail(h)
      BY <2>2, MailedBy
    <3> QED BY <1>1, <3>1 DEF ChargeInv, StepsMeanCharged, SucceededSteps
  <2> QED BY <2>1, <2>2
<1>4. ASSUME NEW o \in OrderIds, mails'[<<"cancelled", o>>] > 0 PROVE o \in charged'
  <2>1. CASE mails'[<<"cancelled", o>>] = mails[<<"cancelled", o>>]
    BY <1>1, <1>4, <2>1 DEF MailInv, MailsAreTrue
  <2>2. CASE mails'[<<"cancelled", o>>] # mails[<<"cancelled", o>>]
    <3>1. PICK h \in Procs : CancelMail(h, o)
      BY <2>2, MailedBy
    <3> QED BY <1>1, <3>1 DEF CancelMail, MailInv, MailedBySteps
  <2> QED BY <2>1, <2>2
<1>5. ASSUME NEW o \in OrderIds, mails'[<<"refund", o>>] > 0 PROVE refunds'[o] > 0
  <2>1. refunds[o] > 0
    <3>1. CASE mails'[<<"refund", o>>] = mails[<<"refund", o>>]
      BY <1>5, <3>1 DEF MailInv, MailsAreTrue
    <3>2. CASE mails'[<<"refund", o>>] # mails[<<"refund", o>>]
      <4>1. PICK h \in Procs : pc[h] = "refundMail" /\ ord[h] = o /\ SendMail(h)
        BY <3>2, MailedBy
      <4> QED BY <4>1 DEF ChargeInv, StepsMeanCharged, RefundSteps
    <3> QED BY <3>1, <3>2
  <2>2. refunds[o] \in Nat /\ (refunds'[o] = refunds[o] \/ refunds'[o] = refunds[o] + 1)
    BY RefundWrites DEF TypeOK, StripeOK
  <2> QED BY <2>1, <2>2
\* What a handler that adds a reminder has seen to stays so: the intent is saved
\* and the job is there.
<1>6. ASSUME NEW o \in OrderIds, o \in piSaved, jobs[o] # "none"
      PROVE  o \in piSaved' /\ jobs'[o] # "none"
  BY <1>6, StaysTracked
<1>7. ASSUME NEW o \in OrderIds
      PROVE  /\ mails'[<<"reminder", o>>] > 0 => o \in piSaved' /\ jobs'[o] # "none"
             /\ mails'[<<"reminder", o>>] <= 1
  <2>1. CASE mails'[<<"reminder", o>>] = mails[<<"reminder", o>>]
    BY <1>6, <2>1 DEF MailInv, MailsAreTrue
  <2>2. CASE mails'[<<"reminder", o>>] # mails[<<"reminder", o>>]
    <3>1. PICK h \in Procs : pc[h] = "addReminder" /\ ord[h] = o /\ AddReminder(h)
      BY <2>2, MailedBy
    <3>2. o \in piSaved /\ jobs[o] # "none" /\ mails[<<"reminder", o>>] = 0
      BY <3>1 DEF TrackInv, TrackedBySteps, MailInv, MailedBySteps
    <3>3. mails'[<<"reminder", o>>] = mails[<<"reminder", o>>] + 1
      BY <2>2, MailWrites
    <3> QED BY <1>6, <3>2, <3>3
  <2> QED BY <2>1, <2>2
<1> QED BY <1>3, <1>4, <1>5, <1>7 DEF MailsAreTrue

LEMMA MailInvariant == Spec => []MailInv
<1>1. Init => MailInv
  BY DEF Init, MailInv, MailsAreTrue, MailedBySteps, MailKinds
<1>2. TypeOK /\ ChargeInv /\ TrackInv /\ UntrackedIsAlone /\ MailInv /\ [Next]_vars
        => MailInv'
  BY MailsStayTrue, MailedByStepsKept DEF MailInv
<1> QED BY <1>1, <1>2, TypeCorrect, ChargeInvariant, TrackInvariant, RollbackIsSafe, PTL
       DEF Spec

\* No email says what did not happen, whatever is interleaved, cut off or sent
\* again: addEmailJob comes after the write it tells of, and the list that a
\* cancellation reads holds orders that were paid for.  A reminder may go to a client
\* whose answer was lost, but to no order without an expiry job, and only once.
THEOREM MailsSayWhatIsSo == Spec => []MailsAreTrue
<1>1. MailInv => MailsAreTrue
  BY DEF MailInv
<1> QED BY <1>1, MailInvariant, PTL

\* The strengthening that the runs check: where each handler may stand given
\* the order, its charge, its job and its mails.
THEOREM StrengtheningHolds == Spec => []Strengthening
<1>1. (FreshUntilReserved /\ ChargeInv /\ TrackInv /\ ExpiryInv
       /\ HandOverInv /\ PaymentIsKept /\ JobInv /\ MailInv) => Strengthening
  BY DEF ChargeInv, TrackInv, ExpiryInv, HandOverInv, JobInv, MailInv, Strengthening
<1> QED BY <1>1, CheckoutIsAlone, ChargeInvariant, TrackInvariant, ExpiryInvariant,
          HandOverInvariant, NoPaymentIsForgotten, JobInvariant, MailInvariant, PTL

-----------------------------------------------------------------------------
(* Who can write to an order late *)

\* Once it is not PENDING any more, an order changes only under one of the four
\* writes that read the status before, or when the event is cancelled: checkout
\* and its rollback never touch it again, and nothing makes it PENDING again.
RacesOnly(o) ==
    status[o] \notin {"NONE", "PENDING"} /\ status'[o] # status[o] =>
        \/ status[o] = "PAID" /\ status'[o] = "CANCELLED"
        \/ /\ status'[o] # "PENDING"
           /\ \E h \in Procs : /\ ord[h] = o
                               /\ pc[h] \in {"markPaid", "markFailed", "expire", "markRefunded"}
LateWritesAreRaces == [][\A o \in OrderIds : RacesOnly(o)]_vars

\* Whatever is interleaved, cut off or sent again, those are the only late writes.
THEOREM OnlyRacesAreLate == Spec => LateWritesAreRaces
<1>1. TypeOK /\ FreshUntilReserved /\ UntrackedIsAlone /\ [Next]_vars
        => [\A o \in OrderIds : RacesOnly(o)]_vars
  <2> SUFFICES ASSUME TypeOK, FreshUntilReserved, UntrackedIsAlone, [Next]_vars,
                      NEW o \in OrderIds, status[o] \notin {"NONE", "PENDING"},
                      status'[o] # status[o]
               PROVE  RacesOnly(o)
    BY DEF RacesOnly
  <2>1. ASSUME NEW h \in Procs, ord[h] = o, pc[h] \in {"reserve", "rollback"} PROVE FALSE
    BY <2>1 DEF FreshUntilReserved, CancelSteps, UntrackedIsAlone
  <2> QED BY <2>1, StatusWrites DEF RacesOnly
<1> QED BY <1>1, TypeCorrect, CheckoutIsAlone, RollbackIsSafe, PTL DEF Spec, LateWritesAreRaces

-----------------------------------------------------------------------------
(* One purchase email per order *)

\* No two deliveries of a success event have both read the order and not marked
\* it PAID yet (a lock on the order row, held over both, would see to it).
DeliveriesApart ==
    \A g, h \in Procs : pc[g] = "markPaid" /\ pc[h] = "markPaid" /\ ord[g] = ord[h] => g = h

Paying == {"markPaid", "purchaseMail"}

PurchaseInv ==
    /\ OnePurchaseMail
    /\ \A o \in OrderIds : status[o] \in {"NONE", "PENDING"} => mails[<<"purchase", o>>] = 0
    /\ \A h \in Procs : pc[h] \in Paying => mails[<<"purchase", ord[h]>>] = 0
    /\ \A h \in Procs : pc[h] = "purchaseMail" => status[ord[h]] # "PENDING"
    /\ \A g, h \in Procs :
          pc[g] = "purchaseMail" /\ pc[h] \in Paying /\ ord[g] = ord[h] => g = h

\* A handler on its way to the purchase email was there before, or has just read
\* an order that is PENDING.
LEMMA PayingStep ==
    ASSUME TypeOK, [Next]_vars, NEW h \in Procs, pc'[h] \in Paying
    PROVE  /\ ord'[h] \in OrderIds
           /\ \/ /\ pc[h] \in Paying /\ ord'[h] = ord[h]
                 /\ pc'[h] = pc[h] \/ (pc[h] = "markPaid" /\ MarkPaid(h))
              \/ /\ pc'[h] = "markPaid" /\ pc[h] = "idle" /\ PaymentSucceeded(h, ord'[h])
                 /\ status[ord'[h]] = "PENDING" /\ UNCHANGED <<status, mails>>
<1>1. CASE pc'[h] = pc[h]
  <2>1. pc[h] \in OrderSteps
    BY <1>1 DEF Paying, OrderSteps, Steps, SucceededSteps, CancelSteps
  <2> QED BY <1>1, <2>1, OrdTyped, CameBy DEF TypeOK
<1>2. CASE pc'[h] # pc[h] /\ pc'[h] = "purchaseMail"
  <2>1. MarkPaid(h) /\ pc[h] = "markPaid"
    BY <1>2, CameBy DEF MarkPaid
  <2>2. pc[h] \in OrderSteps
    BY <2>1 DEF OrderSteps, Steps, SucceededSteps, CancelSteps
  <2> QED BY <1>2, <2>1, <2>2, OrdTyped, CameBy DEF Paying, TypeOK
<1>3. CASE pc'[h] # pc[h] /\ pc'[h] = "markPaid"
  BY <1>3, CameBy DEF PaymentSucceeded, CanBePaid
<1> QED BY <1>1, <1>2, <1>3 DEF Paying

LEMMA PurchaseKept ==
    ASSUME TypeOK, FreshUntilReserved, PurchaseInv, DeliveriesApart, [Next]_vars
    PROVE  PurchaseInv'
<1>1. ASSUME NEW o \in OrderIds, mails'[<<"purchase", o>>] # mails[<<"purchase", o>>]
      PROVE  \E h \in Procs : /\ pc[h] = "purchaseMail" /\ ord[h] = o /\ SendMail(h)
                              /\ pc'[h] = "paidEmit" /\ mails'[<<"purchase", o>>] = 1
                              /\ status'[o] \notin {"NONE", "PENDING"}
  <2>1. PICK h \in Procs : /\ pc[h] = "purchaseMail" /\ ord[h] = o /\ SendMail(h)
                           /\ mails'[<<"purchase", o>>] = mails[<<"purchase", o>>] + 1
    BY <1>1, MailWrites
  <2>2. mails[<<"purchase", o>>] = 0 /\ status[o] \notin {"NONE", "PENDING"}
    BY <2>1 DEF PurchaseInv, Paying, FreshUntilReserved, CancelSteps
  <2>3. pc'[h] = "paidEmit"
    <3>1. Tail[pc[h]][2] = "paidEmit"
      BY <2>1 DEF Tail
    <3> QED BY <2>1, <3>1 DEF SendMail, Await, TypeOK, ProcOK
  <2> QED BY <2>1, <2>2, <2>3 DEF SendMail
<1>2. ASSUME NEW o \in OrderIds PROVE mails'[<<"purchase", o>>] <= 1
  BY <1>1, <1>2 DEF PurchaseInv, OnePurchaseMail
<1>3. ASSUME NEW o \in OrderIds, status'[o] \in {"NONE", "PENDING"}
      PROVE  mails'[<<"purchase", o>>] = 0
  <2>1. status[o] \in {"NONE", "PENDING"}
    BY <1>3, StatusWrites DEF FreshUntilReserved, CancelSteps
  <2> QED BY <1>1, <1>3, <2>1 DEF PurchaseInv
<1>4. ASSUME NEW h \in Procs, pc'[h] \in Paying
      PROVE  mails'[<<"purchase", ord'[h]>>] = 0
  <2>1. mails[<<"purchase", ord'[h]>>] = 0
    BY <1>4, PayingStep DEF PurchaseInv
  <2>2. ASSUME NEW g \in Procs, pc[g] = "purchaseMail", ord[g] = ord'[h], SendMail(g),
               pc'[g] = "paidEmit"
        PROVE  FALSE
    <3>1. pc[h] \in Paying /\ ord[h] = ord[g]
      BY <1>4, <2>2, PayingStep DEF PurchaseInv
    <3>2. g = h
      BY <2>2, <3>1 DEF PurchaseInv
    <3> QED BY <1>4, <2>2, <3>2 DEF Paying
  <2> QED BY <1>1, <1>4, <2>1, <2>2, PayingStep
<1>5. ASSUME NEW h \in Procs, pc'[h] = "purchaseMail", status'[ord'[h]] = "PENDING"
      PROVE  FALSE
  <2>1. ord'[h] = ord[h] /\ ord[h] \in OrderIds
    BY <1>5, PayingStep DEF Paying
  <2>2. CASE pc[h] = "purchaseMail"
    <3>1. status[ord[h]] \notin {"NONE", "PENDING"}
      BY <2>2 DEF PurchaseInv, FreshUntilReserved, CancelSteps
    <3> QED BY <1>5, <2>1, <3>1, StatusWrites DEF FreshUntilReserved, CancelSteps
  <2>3. CASE MarkPaid(h)
    BY <1>5, <2>1, <2>3 DEF MarkPaid, SetOrder, TypeOK, DbOK
  <2> QED BY <1>5, <2>2, <2>3, PayingStep DEF Paying
<1>6. ASSUME NEW g \in Procs, NEW h \in Procs, g # h,
             pc'[g] = "purchaseMail", pc'[h] \in Paying, ord'[g] = ord'[h]
      PROVE  FALSE
  <2>1. CASE pc[g] = "purchaseMail" /\ ord'[g] = ord[g]
    <3>1. \/ pc[h] \in Paying /\ ord[h] = ord[g]
          \/ status[ord[g]] = "PENDING"
      <4>1. ord'[h] = ord[g]
        BY <1>6, <2>1
      <4>2. (pc[h] \in Paying /\ ord'[h] = ord[h]) \/ status[ord'[h]] = "PENDING"
        BY <1>6, PayingStep
      <4> QED BY <4>1, <4>2
    <3> QED BY <1>6, <2>1, <3>1 DEF PurchaseInv
  <2>2. CASE pc[g] = "markPaid" /\ MarkPaid(g) /\ ord'[g] = ord[g]
    <3>1. pc[h] \in Paying /\ ord[h] = ord[g]
      BY <1>6, <2>2, PayingStep, ContinueMoves DEF Continue, Paying
    <3> QED BY <1>6, <2>2, <3>1 DEF PurchaseInv, DeliveriesApart, Paying
  <2> QED BY <1>6, <2>1, <2>2, PayingStep DEF Paying
<1> QED BY <1>2, <1>3, <1>4, <1>5, <1>6 DEF PurchaseInv, OnePurchaseMail, Paying

\* An order gets one purchase email, whatever is delivered twice, cut off or
\* sent again, as long as deliveries of its success event are kept apart.
THEOREM PurchaseIsMailedOnce == Spec /\ []DeliveriesApart => []OnePurchaseMail
<1>1. Init => PurchaseInv
  BY DEF Init, PurchaseInv, OnePurchaseMail, Paying, MailKinds
<1>2. TypeOK /\ FreshUntilReserved /\ PurchaseInv /\ DeliveriesApart /\ [Next]_vars
        => PurchaseInv'
  BY PurchaseKept
<1>3. PurchaseInv => OnePurchaseMail
  BY DEF PurchaseInv
<1> QED BY <1>1, <1>2, <1>3, TypeCorrect, CheckoutIsAlone, PTL DEF Spec

-----------------------------------------------------------------------------
(* One refund per order *)

\* While a handler is about to ask Stripe for a refund, no other one is, and
\* none has its refund and is about to write it down (a lock on the order, taken
\* before the status is read, would see to it).
RefundsApart ==
    \A g, h \in Procs :
        pc[g] = "stripeRefund" /\ pc[h] \in {"stripeRefund", "markRefunded"} /\ ord[g] = ord[h]
            => g = h

\* What Stripe refunded is over in the database, or about to be.
RefundIsNoted ==
    \A o \in OrderIds : refunds[o] > 0 =>
        \/ status[o] \notin {"NONE", "PENDING", "PAID"}
        \/ \E h \in Procs : pc[h] = "markRefunded" /\ ord[h] = o

RefundInv ==
    failures = 0 /\ crashes = 0 =>
        /\ \A o \in OrderIds : refunds[o] <= 1
        /\ RefundIsNoted
        /\ \A h \in Procs : pc[h] = "stripeRefund" => refunds[ord[h]] = 0

LEMMA RefundNoted ==
    ASSUME TypeOK, FreshUntilReserved, RefundIsNoted, [Next]_vars, [~PaidLate]_vars,
           failures' = 0, crashes' = 0
    PROVE  RefundIsNoted'
<1> SUFFICES ASSUME NEW o \in OrderIds, refunds'[o] > 0
             PROVE  \/ status'[o] \notin {"NONE", "PENDING", "PAID"}
                    \/ \E h \in Procs : pc'[h] = "markRefunded" /\ ord'[h] = o
  BY DEF RefundIsNoted
<1>1. CASE refunds'[o] # refunds[o]
  BY <1>1, RefundWrites
<1>2. CASE refunds'[o] = refunds[o] /\ status[o] \notin {"NONE", "PENDING", "PAID"}
  <2>1. status'[o] # "PAID"
    BY <1>2 DEF PaidLate
  <2> QED BY <1>2, <2>1, StatusWrites DEF FreshUntilReserved, CancelSteps
<1>3. ASSUME NEW h \in Procs, pc[h] = "markRefunded", ord[h] = o, pc'[h] # "markRefunded"
      PROVE  status'[o] \in {"REFUNDED", "PARTIALLY_REFUNDED"}
  <2>1. Continue(h) /\ ~Rejects(h)
    BY <1>3, NoFault, Movers
  <2>2. MarkRefunded(h)
    BY <1>3, <2>1
       DEF Continue, CheckoutAggregate, CheckoutReserve, CreatePaymentIntent,
           CreatePaymentIntentFails, CheckoutRollback, SavePaymentIntent, AddOrderExpiryJob,
           AddReminder, AnswerCheckout, MarkPaid, MarkFailed, ExpireOrder, StripeRefund,
           FindAffected, CancelOrders, CancelDone, CancelMail, SendMail, Tail, EmitStock
  <2> QED BY <1>3, <2>2 DEF MarkRefunded, RefundStatus, SetOrder, TypeOK, DbOK
<1>4. ASSUME NEW h \in Procs, pc[h] = "markRefunded", ord[h] = o, pc'[h] = "markRefunded"
      PROVE  ord'[h] = o
  BY <1>4, CameBy
<1> QED BY <1>1, <1>2, <1>3, <1>4 DEF RefundIsNoted

LEMMA RefundKept ==
    ASSUME TypeOK, FreshUntilReserved, RefundInv, RefundsApart, RefundsApart',
           [Next]_vars, [~PaidLate]_vars
    PROVE  RefundInv'
<1> SUFFICES ASSUME failures' = 0, crashes' = 0
             PROVE  /\ \A o \in OrderIds : refunds'[o] <= 1
                    /\ RefundIsNoted'
                    /\ \A h \in Procs : pc'[h] = "stripeRefund" => refunds'[ord'[h]] = 0
  BY DEF RefundInv
<1>0. /\ \A o \in OrderIds : refunds[o] <= 1
      /\ RefundIsNoted
      /\ \A h \in Procs : pc[h] = "stripeRefund" => refunds[ord[h]] = 0
  BY NoFault DEF RefundInv
<1>1. ASSUME NEW o \in OrderIds PROVE refunds'[o] <= 1
  BY <1>0, RefundWrites
<1>2. RefundIsNoted'
  BY <1>0, RefundNoted
<1>3. ASSUME NEW h \in Procs, pc'[h] = "stripeRefund" PROVE refunds'[ord'[h]] = 0
  <2>1. CASE pc[h] # "stripeRefund"
    <3>1. RefundRequest(h, ord'[h]) /\ ord'[h] \in OrderIds
      BY <1>3, <2>1, CameBy
    <3>2. /\ status[ord'[h]] = "PAID" /\ UNCHANGED refunds
          /\ \A g \in Procs \ {h} : pc'[g] = pc[g] /\ ord'[g] = ord[g]
      BY <3>1 DEF RefundRequest, Refundable, Enter, TypeOK, ProcOK
    <3>3. ASSUME NEW g \in Procs, pc[g] = "markRefunded", ord[g] = ord'[h] PROVE FALSE
      <4>1. g # h
        BY <3>1, <3>3 DEF RefundRequest
      <4> QED BY <1>3, <3>2, <3>3, <4>1 DEF RefundsApart
    <3>4. ~(refunds[ord'[h]] > 0) /\ refunds[ord'[h]] \in Nat
      BY <1>0, <3>1, <3>2, <3>3 DEF RefundIsNoted, TypeOK, StripeOK
    <3> QED BY <3>2, <3>4
  <2>2. CASE pc[h] = "stripeRefund"
    <3>1. ord'[h] = ord[h] /\ ord[h] \in OrderIds
      <4>1. pc[h] \in OrderSteps
        BY <2>2 DEF OrderSteps, Steps, RefundSteps, CancelSteps
      <4> QED BY <1>3, <2>2, <4>1, OrdTyped, CameBy DEF TypeOK
    <3>2. ASSUME NEW g \in Procs, pc[g] = "stripeRefund", ord[g] = ord[h],
                 pc'[g] = "markRefunded"
          PROVE  FALSE
      BY <1>3, <2>2, <3>2 DEF RefundsApart
    <3> QED BY <1>0, <2>2, <3>1, <3>2, RefundWrites
  <2> QED BY <2>1, <2>2
<1> QED BY <1>1, <1>2, <1>3

\* Stripe refunds an order once, whatever else is interleaved with its refund,
\* as long as requests to refund it are kept apart, no call fails and no order
\* that is over becomes PAID.
THEOREM RefundedOnce == Spec /\ []RefundsApart /\ [][~PaidLate]_vars => []OneRefund
<1>1. Init => RefundInv
  BY DEF Init, RefundInv, RefundIsNoted
<1>2. TypeOK /\ FreshUntilReserved /\ RefundInv /\ RefundsApart /\ RefundsApart'
        /\ [Next]_vars /\ [~PaidLate]_vars => RefundInv'
  BY RefundKept
<1>3. RefundInv => OneRefund
  BY DEF RefundInv, OneRefund
<1> QED BY <1>1, <1>2, <1>3, TypeCorrect, CheckoutIsAlone, PTL DEF Spec

-----------------------------------------------------------------------------
(* Whose order was cancelled has a mail *)

\* An order becomes PAID between the list of affected orders and the transaction
\* that cancels them.
PaidDuringCancel ==
    \E o \in OrderIds :
        /\ \E h \in Procs : pc[h] = "cancelOrders"
        /\ status[o] # "PAID" /\ status'[o] = "PAID"

\* The order has its mail, or is on the list of a handler that sends them.
HasMailOrWill(o) ==
    \/ mails[<<"cancelled", o>>] > 0
    \/ \E h \in Procs : pc[h] = "cancelMails" /\ o \in affected[h]

CancelInv ==
    /\ \A h \in Procs : pc[h] \in CancelSteps => h \in Handlers
    /\ failures = 0 /\ crashes = 0 =>
          /\ \A h \in Procs : pc[h] = "cancelOrders" => OrdersAffected \subseteq affected[h]
          /\ \A o \in OrderIds : status[o] = "CANCELLED" => HasMailOrWill(o)

LEMMA CancelByHandlers ==
    ASSUME TypeOK, CancelInv, [Next]_vars, NEW h \in Procs, pc'[h] \in CancelSteps
    PROVE  h \in Handlers
<1>1. CASE pc'[h] = pc[h]
  BY <1>1 DEF CancelInv
<1>2. CASE pc'[h] # pc[h]
  <2>1. pc'[h] = "findAffected" \/ pc[h] \in CancelSteps \/ h \in Handlers
    BY <1>2, CameBy DEF CancelSteps, FindAffected, CancelOrders
  <2> QED BY <1>2, <2>1, CameBy DEF CancelInv
<1> QED BY <1>1, <1>2

\* The list that was read covers what the transaction will cancel.
LEMMA ListIsComplete ==
    ASSUME TypeOK, [Next]_vars, [~PaidDuringCancel]_vars,
           \A h \in Procs : pc[h] = "cancelOrders" => OrdersAffected \subseteq affected[h],
           NEW h \in Procs, pc'[h] = "cancelOrders"
    PROVE  OrdersAffected' \subseteq affected'[h]
<1>1. CASE pc[h] # "cancelOrders"
  <2>1. FindAffected(h)
    BY <1>1, CameBy
  <2> QED BY <2>1 DEF FindAffected, OrdersAffected, TypeOK, ProcOK
<1>2. CASE pc[h] = "cancelOrders"
  <2>1. ASSUME Continue(h) PROVE FALSE
    BY <1>2, <2>1, ContinueMoves DEF FindAffected
  <2>2. affected'[h] = affected[h]
    BY <1>2, <2>1, Movers
  <2>3. OrdersAffected' \subseteq OrdersAffected
    BY <1>2 DEF OrdersAffected, PaidDuringCancel
  <2> QED BY <1>2, <2>2, <2>3
<1> QED BY <1>1, <1>2

\* A mail that was sent, and one that is due, stays so.
LEMMA MailStaysDue ==
    ASSUME TypeOK, [Next]_vars, failures' = 0, crashes' = 0,
           NEW o \in OrderIds, HasMailOrWill(o)
    PROVE  HasMailOrWill(o)'
<1>0. <<"cancelled", o>> \in MailKinds \X OrderIds /\ mails[<<"cancelled", o>>] \in Nat
  BY DEF MailKinds, TypeOK, RedisOK
<1>1. CASE mails[<<"cancelled", o>>] > 0
  <2>1. mails'[<<"cancelled", o>>] \in {mails[<<"cancelled", o>>], mails[<<"cancelled", o>>] + 1}
    BY MailWrites
  <2>2. mails'[<<"cancelled", o>>] > 0
    BY <1>0, <1>1, <2>1
  <2> QED BY <2>2 DEF HasMailOrWill
<1>2. ASSUME NEW h \in Procs, pc[h] = "cancelMails", o \in affected[h],
             ~(pc'[h] = "cancelMails" /\ o \in affected'[h])
      PROVE  mails'[<<"cancelled", o>>] > 0
  <2>1. Continue(h) /\ ~Rejects(h)
    BY <1>2, NoFault, Movers
  <2>2. CancelDone(h) \/ \E p \in OrderIds : CancelMail(h, p)
    BY <1>2, <2>1
       DEF Continue, CheckoutAggregate, CheckoutReserve, CreatePaymentIntent,
           CreatePaymentIntentFails, CheckoutRollback, SavePaymentIntent, AddOrderExpiryJob,
           AddReminder, AnswerCheckout, MarkPaid, MarkFailed, ExpireOrder, StripeRefund,
           MarkRefunded, FindAffected, CancelOrders, SendMail, Tail, EmitStock
  <2>3. ~CancelDone(h)
    BY <1>2 DEF CancelDone
  <2>4. PICK p \in OrderIds : CancelMail(h, p)
    BY <2>2, <2>3
  <2>5. p = o
    BY <1>2, <2>4 DEF CancelMail, TypeOK, ProcOK
  <2> QED BY <1>0, <2>4, <2>5 DEF CancelMail, AddEmailJob, TypeOK, RedisOK
<1> QED BY <1>1, <1>2 DEF HasMailOrWill

LEMMA CancelKept ==
    ASSUME TypeOK, CancelInv, [Next]_vars, [~PaidDuringCancel]_vars
    PROVE  CancelInv'
<1>1. \A h \in Procs : pc'[h] \in CancelSteps => h \in Handlers
  BY CancelByHandlers
<1>2. ASSUME failures' = 0, crashes' = 0
      PROVE  /\ \A h \in Procs : pc'[h] = "cancelOrders" => OrdersAffected' \subseteq affected'[h]
             /\ \A o \in OrderIds : status'[o] = "CANCELLED" => HasMailOrWill(o)'
  <2>0. /\ \A h \in Procs : pc[h] = "cancelOrders" => OrdersAffected \subseteq affected[h]
        /\ \A o \in OrderIds : status[o] = "CANCELLED" => HasMailOrWill(o)
    BY <1>2, NoFault DEF CancelInv
  <2>1. ASSUME NEW o \in OrderIds, status'[o] = "CANCELLED" PROVE HasMailOrWill(o)'
    <3>1. CASE status[o] = "CANCELLED"
      BY <1>2, <2>0, <3>1, MailStaysDue
    <3>2. CASE status[o] # "CANCELLED"
      <4>1. PICK h \in Procs : CancelOrders(h) /\ status[o] = "PAID"
        BY <2>1, <3>2, StatusWrites
      <4>2. o \in affected[h]
        BY <2>0, <4>1 DEF CancelOrders, OrdersAffected
      <4> QED BY <4>1, <4>2 DEF CancelOrders, Await, HasMailOrWill, TypeOK, ProcOK
    <3> QED BY <3>1, <3>2
  <2> QED BY <2>0, <2>1, ListIsComplete
<1> QED BY <1>1, <1>2 DEF CancelInv

\* Once a cancellation has returned and no call has failed, every order that was
\* cancelled has its mail, as long as none was paid between the list of the
\* orders and the transaction.
THEOREM CancellationIsMailed == Spec /\ [][~PaidDuringCancel]_vars => []CancelledAreNotified
<1>1. Init => CancelInv
  BY DEF Init, CancelInv, CancelSteps
<1>2. TypeOK /\ CancelInv /\ [Next]_vars /\ [~PaidDuringCancel]_vars => CancelInv'
  BY CancelKept
<1>3. CancelInv => CancelledAreNotified
  BY DEF CancelInv, HasMailOrWill, CancelSteps, CancelledAreNotified
<1> QED BY <1>1, <1>2, <1>3, TypeCorrect, PTL DEF Spec

-----------------------------------------------------------------------------
(* The life of an order, when handlers do not interleave on it *)

\* No two handlers serve one order at once, and no cancellation is about to write
\* while a refund is in flight (a lock on the order row, held from the read to
\* the write, would see to it).
Isolated ==
    \A g, h \in Procs : g # h =>
        /\ ord[g] = ord[h] => ord[g] = NoOrder
        /\ pc[g] = "cancelOrders" => pc[h] \notin {"stripeRefund", "markRefunded"}

\* Stripe tells of a declined attempt before the order is over.
DeclinesInTime ==
    \A h \in Procs : pc[h] = "markFailed" => status[ord[h]] \in {"PENDING", "PAID"}

\* What the handlers mean to do to a status, each from the one it acts on.
Transitions ==
    {<<"NONE", "PENDING">>}
        \cup ({"PENDING"} \X {"PAID", "FAILED", "EXPIRED"})
        \cup ({"PAID"} \X {"FAILED", "CANCELLED", "REFUNDED", "PARTIALLY_REFUNDED"})
ChangesStatus(o) == status'[o] = status[o] \/ <<status[o], status'[o]>> \in Transitions
Lifecycle == [][\A o \in OrderIds : ChangesStatus(o)]_vars

\* The status that a handler has read is still there when it writes.
StatusAsRead ==
    \A h \in Procs :
        /\ pc[h] \in {"markPaid", "expire"} => status[ord[h]] = "PENDING"
        /\ pc[h] \in {"stripeRefund", "markRefunded"} => status[ord[h]] = "PAID"

\* Where a handler stands that has read a status it will not read again.
HasRead == {"markPaid", "expire", "stripeRefund", "markRefunded"}

\* A handler that has read the status and not written yet keeps its order, and
\* its order keeps its status.
LEMMA ReadStays ==
    ASSUME TypeOK, FreshUntilReserved, Isolated, StatusAsRead, [Next]_vars,
           NEW h \in Procs, pc[h] \in HasRead, pc'[h] \in HasRead
    PROVE  ord'[h] = ord[h] /\ status'[ord[h]] = status[ord[h]]
<1>1. ord'[h] = ord[h]
  BY CameBy DEF HasRead
<1>2. ord[h] \in OrderIds /\ ord[h] # NoOrder
  <2>1. pc[h] \in OrderSteps
    BY DEF HasRead, OrderSteps, Steps, SucceededSteps, ExpirySteps, RefundSteps, CancelSteps
  <2> QED BY <2>1, OrdTyped, OrdersFinite DEF TypeOK
<1>3. ASSUME MarkPaid(h) \/ ExpireOrder(h) \/ MarkRefunded(h) PROVE FALSE
  BY <1>3 DEF MarkPaid, ExpireOrder, MarkRefunded, Await, HasRead, TypeOK, ProcOK
<1>4. ASSUME NEW g \in Procs, ord[g] = ord[h], g # h PROVE FALSE
  BY <1>2, <1>4 DEF Isolated
<1>5. ASSUME NEW g \in Procs, CancelOrders(g), status[ord[h]] = "PAID" PROVE FALSE
  <2>1. pc[g] = "cancelOrders" /\ g # h
    BY <1>5 DEF CancelOrders, HasRead
  <2>2. pc[h] \in {"markPaid", "expire"}
    BY <2>1 DEF Isolated, HasRead
  <2> QED BY <1>5, <2>2 DEF StatusAsRead
<1>6. ASSUME status'[ord[h]] # status[ord[h]] PROVE FALSE
  <2>1. PICK g \in Procs :
           \/ /\ ord[g] = ord[h]
              /\ \/ pc[g] \in {"reserve", "rollback", "markFailed"}
                 \/ MarkPaid(g) \/ ExpireOrder(g) \/ MarkRefunded(g)
           \/ CancelOrders(g) /\ status[ord[h]] = "PAID"
    BY <1>2, <1>6, StatusWrites
  <2> QED BY <1>3, <1>4, <1>5, <2>1 DEF HasRead
<1> QED BY <1>1, <1>6

LEMMA ReadKept ==
    ASSUME TypeOK, FreshUntilReserved, Isolated, StatusAsRead, [Next]_vars
    PROVE  StatusAsRead'
<1> SUFFICES ASSUME NEW h \in Procs, pc'[h] \in HasRead
             PROVE  /\ pc'[h] \in {"markPaid", "expire"} => status'[ord'[h]] = "PENDING"
                    /\ pc'[h] \in {"stripeRefund", "markRefunded"} => status'[ord'[h]] = "PAID"
  BY DEF StatusAsRead, HasRead
<1>1. CASE pc'[h] = pc[h]
  BY <1>1, ReadStays DEF StatusAsRead
<1>2. CASE pc'[h] # pc[h] /\ pc'[h] \in {"markPaid", "expire"}
  BY <1>2, CameBy DEF PaymentSucceeded, CanBePaid, ExpiryJobStart, StillPending
<1>3. CASE pc'[h] # pc[h] /\ pc'[h] = "stripeRefund"
  BY <1>3, CameBy DEF RefundRequest, Refundable
<1>4. CASE pc'[h] # pc[h] /\ pc'[h] = "markRefunded"
  <2>1. pc[h] = "stripeRefund"
    BY <1>4, CameBy DEF StripeRefund
  <2> QED BY <1>4, <2>1, ReadStays DEF StatusAsRead, HasRead
<1> QED BY <1>1, <1>2, <1>3, <1>4 DEF HasRead

LEMMA ReadInvariant == Spec /\ []Isolated => []StatusAsRead
<1>1. Init => StatusAsRead
  BY DEF Init, StatusAsRead
<1>2. TypeOK /\ FreshUntilReserved /\ Isolated /\ StatusAsRead /\ [Next]_vars => StatusAsRead'
  BY ReadKept
<1> QED BY <1>1, <1>2, TypeCorrect, CheckoutIsAlone, PTL DEF Spec

\* Every write finds the status that allows it.
LEMMA WritesAreTransitions ==
    ASSUME TypeOK, FreshUntilReserved, UntrackedIsAlone, StatusAsRead, DeclinesInTime,
           [Next]_vars, NEW o \in OrderIds
    PROVE  ChangesStatus(o)
<1> SUFFICES ASSUME status'[o] # status[o] PROVE <<status[o], status'[o]>> \in Transitions
  BY DEF ChangesStatus
<1>1. ASSUME NEW h \in Procs, ord[h] = o
      PROVE  /\ pc[h] = "reserve" => status[o] = "NONE"
             /\ pc[h] \in {"rollback", "markPaid", "expire"} => status[o] = "PENDING"
             /\ pc[h] = "markFailed" => status[o] \in {"PENDING", "PAID"}
             /\ pc[h] = "markRefunded" => status[o] = "PAID"
  BY <1>1 DEF FreshUntilReserved, CancelSteps, UntrackedIsAlone, StatusAsRead, DeclinesInTime
<1>2. \/ status[o] = "NONE" /\ status'[o] = "PENDING"
      \/ status[o] = "PENDING" /\ status'[o] \in {"PAID", "FAILED", "EXPIRED"}
      \/ status[o] = "PAID"
         /\ status'[o] \in {"FAILED", "CANCELLED", "REFUNDED", "PARTIALLY_REFUNDED"}
  BY <1>1, StatusWrites
<1> QED BY <1>2 DEF Transitions

\* Handlers that do not interleave on an order take it along the transitions
\* above, so none of them writes over a status that is final: what a lock on
\* the order row would buy, whatever is interleaved on other orders.
THEOREM IsolatedOrdersAreSafe ==
    Spec /\ []Isolated /\ []DeclinesInTime
        => Lifecycle /\ FinalIsFinal /\ [][~Overwrite]_vars /\ [][~PaidLate]_vars
<1> DEFINE Inv == TypeOK /\ FreshUntilReserved /\ UntrackedIsAlone /\ StatusAsRead
           Final == {"FAILED", "EXPIRED", "CANCELLED", "REFUNDED", "PARTIALLY_REFUNDED"}
           Stays == \A o \in OrderIds : status[o] \in Final => status'[o] = status[o]
<1>1. Inv /\ DeclinesInTime /\ [Next]_vars => [\A o \in OrderIds : ChangesStatus(o)]_vars
  BY WritesAreTransitions
<1>2. [\A o \in OrderIds : ChangesStatus(o)]_vars => [Stays]_vars
  BY DEF ChangesStatus, Transitions
<1>3. [\A o \in OrderIds : ChangesStatus(o)]_vars => [~PaidLate]_vars
  BY DEF ChangesStatus, Transitions, PaidLate
<1>4. Inv /\ DeclinesInTime => [~Overwrite]_vars
  <2> SUFFICES ASSUME UntrackedIsAlone, StatusAsRead, DeclinesInTime, NEW h \in Procs,
                      pc[h] \in {"markPaid", "markFailed", "expire", "markRefunded", "rollback"}
               PROVE  status[ord[h]] \in {"PENDING", "PAID"}
    BY DEF Overwrite, Released
  <2> QED BY DEF UntrackedIsAlone, StatusAsRead, DeclinesInTime
<1> QED BY <1>1, <1>2, <1>3, <1>4, TypeCorrect, CheckoutIsAlone, RollbackIsSafe, ReadInvariant,
          PTL DEF Spec, Lifecycle, FinalIsFinal

\* So the stock is exact, nothing is oversold, and the sale implements its ledger.
THEOREM IsolatedSaleIsExact ==
    Spec /\ []Isolated /\ []DeclinesInTime => [](StockExact /\ NoOverselling) /\ ImplementsLedger
BY IsolatedOrdersAreSafe, StockIsExact, NothingIsOversold, SaleImplementsLedger, PTL

-----------------------------------------------------------------------------
(* One handler at a time *)

\* The schedule in which nothing is concurrent.
Serial == \A g, h \in Procs : pc[g] # "idle" /\ pc[h] # "idle" => g = h

LEMMA SerialIsApart ==
    ASSUME TypeOK, Serial
    PROVE  Isolated /\ CheckoutsApart /\ DeliveriesApart /\ RefundsApart
<1>1. Isolated
  BY DEF Serial, Isolated, TypeOK, ProcOK
<1>2. CheckoutsApart /\ DeliveriesApart /\ RefundsApart
  BY DEF Serial, CheckoutsApart, DeliveriesApart, RefundsApart
<1> QED BY <1>1, <1>2

LEMMA SerialCancels ==
    ASSUME TypeOK, Serial, [Next]_vars
    PROVE  [~PaidDuringCancel]_vars
<1> SUFFICES ASSUME NEW o \in OrderIds, NEW h \in Procs, pc[h] = "cancelOrders",
                    status[o] # "PAID", status'[o] = "PAID"
             PROVE  FALSE
  BY DEF PaidDuringCancel
<1>1. PICK g \in Procs : pc[g] = "markPaid"
  BY StatusWrites
<1> QED BY <1>1 DEF Serial

\* Handlers that run one at a time keep every promise of the API, through every
\* crash, rejected call and redelivery, if declines are told in time.
THEOREM SerialIsCorrect ==
    Spec /\ []Serial /\ []DeclinesInTime
        => /\ [](/\ StockExact /\ NoOverselling /\ TicketLimit
                 /\ OnePurchaseMail /\ OneRefund /\ CancelledAreNotified)
           /\ FinalIsFinal
           /\ ImplementsLedger
<1>1. TypeOK /\ Serial => Isolated /\ CheckoutsApart /\ DeliveriesApart /\ RefundsApart
  BY SerialIsApart
<1>2. TypeOK /\ Serial /\ [Next]_vars => [~PaidDuringCancel]_vars
  BY SerialCancels
<1>3. Spec /\ []Serial =>
        /\ []Isolated /\ []CheckoutsApart /\ []DeliveriesApart /\ []RefundsApart
        /\ [][~PaidDuringCancel]_vars
  BY <1>1, <1>2, TypeCorrect, PTL DEF Spec
<1> QED BY <1>3, IsolatedOrdersAreSafe, IsolatedSaleIsExact, LimitHolds, PurchaseIsMailedOnce,
          RefundedOnce, CancellationIsMailed, PTL

\* Without declined payments nobody is told of one.
NoDeclines ==
    /\ \A o \in OrderIds : declines[o] = 0 /\ due[<<"payment_failed", o>>] = 0
    /\ \A h \in Procs : pc[h] \notin FailedSteps

LEMMA NoDeclinesKept ==
    ASSUME TypeOK, NoDeclines, MaxDeclines = 0, [Next]_vars
    PROVE  NoDeclines'
<1>1. ASSUME NEW o \in OrderIds PROVE ~PaymentDeclined(o)
  BY DEF PaymentDeclined, NoDeclines
<1>2. declines' = declines
  BY <1>1, Writers
<1>3. ASSUME NEW o \in OrderIds PROVE due'[<<"payment_failed", o>>] = 0
  <2> DEFINE e == <<"payment_failed", o>>
  <2>1. e \in Hooks /\ e[1] = "payment_failed" /\ e[2] = o /\ due[e] = 0
    BY DEF NoDeclines, Hooks, HookTypes
  <2>2. ~Redeliver(e) /\ \A h \in Procs : ~PaymentFailed(h, o) /\ ~Serves(h, e)
    BY <2>1 DEF NoDeclines, Redeliver, PaymentFailed, Serves
  <2> HIDE DEF e
  <2>3. due'[e] = due[e]
    BY <1>1, <2>1, <2>2, DueWrites DEF Procs
  <2> QED BY <2>1, <2>3 DEF e
<1>4. ASSUME NEW h \in Procs, pc'[h] \in FailedSteps PROVE FALSE
  <2>1. pc'[h] # pc[h]
    BY <1>4 DEF NoDeclines
  <2>2. pc'[h] = "markFailed"
    BY <1>4, <2>1, CameBy DEF NoDeclines, FailedSteps, MarkFailed
  <2>3. ord'[h] \in OrderIds /\ PaymentFailed(h, ord'[h])
    BY <2>1, <2>2, CameBy
  <2> QED BY <2>3 DEF PaymentFailed, NoDeclines
<1> QED BY <1>2, <1>3, <1>4 DEF NoDeclines

\* The schedule that a run checks: one handler at a time and no declined
\* payment.  Everything promised holds then, for any number of orders, users,
\* categories, failures, crashes and redeliveries.
THEOREM OneHandlerIsCorrect ==
    ASSUME Handlers = {Worker}, MaxDeclines = 0
    PROVE  Spec => /\ [](/\ StockExact /\ NoOverselling /\ TicketLimit
                         /\ OnePurchaseMail /\ OneRefund /\ CancelledAreNotified)
                   /\ FinalIsFinal
                   /\ ImplementsLedger
<1>1. Serial
  BY DEF Serial, Procs
<1>2. Init => NoDeclines
  BY DEF Init, NoDeclines, Hooks, HookTypes, FailedSteps
<1>3. TypeOK /\ NoDeclines /\ [Next]_vars => NoDeclines'
  BY NoDeclinesKept
<1>4. NoDeclines => DeclinesInTime
  BY DEF NoDeclines, DeclinesInTime, FailedSteps
<1>5. Spec => []NoDeclines
  BY <1>2, <1>3, TypeCorrect, PTL DEF Spec
<1>6. Spec => []Serial /\ []DeclinesInTime
  BY <1>1, <1>4, <1>5, PTL
<1> QED BY <1>6, SerialIsCorrect, PTL

=============================================================================
