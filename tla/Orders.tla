------------------------------- MODULE Orders -------------------------------
(***************************************************************************)
(* The life of an order in the ticket API: checkout, Stripe webhooks,      *)
(* expiry job, refund, cancellation of the event.  One event with its      *)
(* ticket categories.                                                      *)
(*                                                                         *)
(* Every handler of the code is an async function: between two awaits it   *)
(* runs alone (one Node event loop), at an await any other handler may     *)
(* run.  A handler in flight is a slot h with the await it has reached in  *)
(* pc[h]; each action is one awaited call with the code up to the next     *)
(* await.  A $transaction is one action when its statements lock the rows  *)
(* they touch until the commit (READ COMMITTED row locks); checkout's      *)
(* aggregate is a plain read, so it is an action of its own.               *)
(***************************************************************************)
EXTENDS Integers, FiniteSets

CONSTANTS
    OrderIds,         \* checkout requests; each creates at most one order
    Users,
    Categories,
    Handlers,         \* HTTP requests that can be in flight at once
    Worker,           \* the order-expiry worker (BullMQ concurrency 1); one of
                      \* Handlers in an instance where nothing is concurrent
    NoOrder,          \* ord[h] of a handler that serves no order
    Dto,              \* the CheckoutDto and AuthUser of each request
    Category,         \* the ticket_categories rows, which no handler here changes
    EventDate,        \* event.date, in ticks
    ReminderHours,    \* REMINDER_HOURS_BEFORE, in ticks
    Attempts,         \* attempts of an order-expiry job
    MaxStalledCount,  \* BullMQ's limit on stalls of one job
    Traffic,          \* kinds of request that arrive
    StatusRequests,   \* event statuses an admin asks for
    MaxTicks,         \* bound: ticks of the clock
    MaxDeclines,      \* bound: declined payments per PaymentIntent
    MaxRedeliveries,  \* bound: webhook events Stripe sends once more
    MaxFailures,      \* bound: awaited calls that reject
    MaxCrashes        \* bound: crashes of the process

-----------------------------------------------------------------------------
(* Types *)

OrderStatus == {"NONE", "PENDING", "PAID", "FAILED", "CANCELLED", "EXPIRED",
                "REFUNDED", "PARTIALLY_REFUNDED"}     \* NONE: no row yet
EventStatus == {"DRAFT", "PUBLISHED", "SOLD_OUT", "CANCELLED", "COMPLETED"}
RefundPolicy == {"REFUNDABLE", "PARTIAL", "NON_REFUNDABLE"}
JobState == {"none", "delayed", "active", "completed", "failed"}
MailKinds == {"purchase", "expired", "refund", "cancelled", "reminder"}
HookTypes == {"succeeded", "payment_failed"}
Hooks == HookTypes \X OrderIds
Procs == Handlers \cup {Worker}

CheckoutSteps == {"aggregate", "reserve", "createIntent", "rollback",
                  "saveIntent", "addExpiryJob", "addReminder", "answer"}
SucceededSteps == {"markPaid", "purchaseMail", "paidEmit"}
FailedSteps == {"markFailed", "failedEmit"}
ExpirySteps == {"expire", "expiredMail", "expiredEmit"}
RefundSteps == {"stripeRefund", "markRefunded", "refundMail", "refundEmit"}
CancelSteps == {"findAffected", "cancelOrders", "cancelMails"}
Steps == {"idle"} \cup CheckoutSteps \cup SucceededSteps \cup FailedSteps
           \cup ExpirySteps \cup RefundSteps \cup CancelSteps

ASSUME OrdersFinite == IsFiniteSet(OrderIds) /\ NoOrder \notin OrderIds
ASSUME HandlersFinite == IsFiniteSet(Handlers)
ASSUME DtoType ==
    Dto \in [OrderIds -> [userId: Users, categoryId: Categories, quantity: 1..20]]
ASSUME CategoryType ==
    Category \in [Categories ->
        [totalStock: Nat, maxTicketsPerUser: Nat, refundPolicy: RefundPolicy,
         refundPercentage: 0..100, refundDeadlineHours: Nat]]
ASSUME BoundsType ==
    /\ EventDate \in Nat /\ ReminderHours \in Nat
    /\ Attempts \in Nat \ {0} /\ MaxStalledCount \in Nat
    /\ Traffic \subseteq {"checkout", "pay", "refund", "status"}
    /\ StatusRequests \subseteq EventStatus
    /\ MaxTicks \in Nat /\ MaxDeclines \in Nat /\ MaxRedeliveries \in Nat
    /\ MaxFailures \in Nat /\ MaxCrashes \in Nat

VARIABLES
    \* PostgreSQL
    eventStatus,   \* events.status
    stock,         \* ticket_categories.availableStock
    status,        \* orders.status
    piSaved,       \* orders whose stripePaymentIntentId is set
    \* Stripe
    charged,       \* orders whose PaymentIntent succeeded
    declines,      \* failed payment attempts of each PaymentIntent
    refunds,       \* refunds Stripe made of each PaymentIntent
    due,           \* webhook deliveries Stripe still owes, per event
    \* Redis: BullMQ queues
    jobs,          \* the order-expiry job of each order
    attempts,      \* its attempts that failed
    stalls,        \* its runs that a crash cut off
    mails,         \* email jobs enqueued so far, per kind and order
    \* the Node process
    pc,            \* the await each handler has reached
    ord,           \* the order it serves
    affected,      \* updateStatus: affectedOrders still to be mailed
    \* clients, time and the bounds on the environment
    answered,      \* orders whose client holds the client_secret
    now,           \* the clock, in ticks
    redeliveries, failures, crashes

dbVars == <<eventStatus, stock, status, piSaved>>
stripeVars == <<charged, declines, refunds, due>>
redisVars == <<jobs, attempts, stalls, mails>>
procVars == <<pc, ord, affected>>
envVars == <<answered, now, redeliveries, failures, crashes>>
vars == <<dbVars, stripeVars, redisVars, procVars, envVars>>

-----------------------------------------------------------------------------
(* Helpers *)

\* The ticket rows that checkout creates for the orders in S: tickets are how
\* quantities are summed, as a cardinality.
Tickets(S) == {t \in S \X (1..20) : t[2] <= Dto[t[1]].quantity}

\* Prisma's _sum of quantity over the PENDING and PAID orders of a user.
AlreadyOwned(u, c) ==
    Cardinality(Tickets({o \in OrderIds : /\ Dto[o].userId = u
                                          /\ Dto[o].categoryId = c
                                          /\ status[o] \in {"PENDING", "PAID"}}))

\* Mutation: a release that forgets the stock.
RestoreNothing(o) == UNCHANGED stock
RestoreStock(o) ==
    stock' = [stock EXCEPT ![Dto[o].categoryId] = @ + Dto[o].quantity]
SetOrder(o, s) == status' = [status EXCEPT ![o] = s]
AddEmailJob(kind, o) == mails' = [mails EXCEPT ![<<kind, o>>] = @ + 1]

Await(h, step) == pc' = [pc EXCEPT ![h] = step] /\ UNCHANGED <<ord, affected>>
Enter(h, o, step) ==
    /\ pc' = [pc EXCEPT ![h] = step]
    /\ ord' = [ord EXCEPT ![h] = o]
    /\ UNCHANGED affected
Return(h) ==
    /\ pc' = [pc EXCEPT ![h] = "idle"]
    /\ ord' = [ord EXCEPT ![h] = NoOrder]
    /\ affected' = [affected EXCEPT ![h] = {}]

Init ==
    /\ eventStatus = "PUBLISHED"
    /\ stock = [c \in Categories |-> Category[c].totalStock]
    /\ status = [o \in OrderIds |-> "NONE"]
    /\ piSaved = {} /\ charged = {} /\ answered = {}
    /\ declines = [o \in OrderIds |-> 0]
    /\ refunds = [o \in OrderIds |-> 0]
    /\ due = [e \in Hooks |-> 0]
    /\ jobs = [o \in OrderIds |-> "none"]
    /\ attempts = [o \in OrderIds |-> 0]
    /\ stalls = [o \in OrderIds |-> 0]
    /\ mails = [m \in MailKinds \X OrderIds |-> 0]
    /\ pc = [h \in Procs |-> "idle"]
    /\ ord = [h \in Procs |-> NoOrder]
    /\ affected = [h \in Procs |-> {}]
    /\ now = 0 /\ redeliveries = 0 /\ failures = 0 /\ crashes = 0

-----------------------------------------------------------------------------
(* OrdersService.checkout *)

\* findUnique(category, event).  A request for an event that is not PUBLISHED
\* is rejected and leaves no trace, so it is no step.
CheckoutRequest(h, o) ==
    /\ "checkout" \in Traffic
    /\ pc[h] = "idle"
    /\ status[o] = "NONE"
    /\ \A g \in Procs : ord[g] # o
    /\ eventStatus = "PUBLISHED"
    /\ Enter(h, o, "aggregate")
    /\ UNCHANGED <<dbVars, stripeVars, redisVars, envVars>>

\* Mutation: the quantity asked for is not counted.
OwnsLessThanLimit(d) ==
    AlreadyOwned(d.userId, d.categoryId) <= Category[d.categoryId].maxTicketsPerUser
WithinLimit(d) ==
    AlreadyOwned(d.userId, d.categoryId) + d.quantity
        <= Category[d.categoryId].maxTicketsPerUser

\* The reads of the transaction: alreadyOwned against maxTicketsPerUser.
CheckoutAggregate(h) ==
    /\ pc[h] = "aggregate"
    /\ IF WithinLimit(Dto[ord[h]]) THEN Await(h, "reserve") ELSE Return(h)
    /\ UNCHANGED <<dbVars, stripeVars, redisVars, envVars>>

\* Mutation: an UPDATE without its condition.
AnyStock(d) == TRUE
HasStock(d) == stock[d.categoryId] >= d.quantity

\* UPDATE ... WHERE "availableStock" >= quantity, order.create, COMMIT: the row
\* lock of the UPDATE makes the three one step.
CheckoutReserve(h) ==
    LET d == Dto[ord[h]]
    IN  /\ pc[h] = "reserve"
        /\ IF HasStock(d)
           THEN /\ stock' = [stock EXCEPT ![d.categoryId] = @ - d.quantity]
                /\ SetOrder(ord[h], "PENDING")
                /\ Await(h, "createIntent")
           ELSE /\ Return(h)
                /\ UNCHANGED <<stock, status>>
        /\ UNCHANGED <<eventStatus, piSaved, stripeVars, redisVars, envVars>>

\* stripe.paymentIntents.create; without a client_secret the request ends here.
CreatePaymentIntent(h) ==
    /\ pc[h] = "createIntent"
    /\ \/ Await(h, "saveIntent")
       \/ Return(h)
    /\ UNCHANGED <<dbVars, stripeVars, redisVars, envVars>>

\* Stripe refuses or times out, with or without a PaymentIntent nobody can pay:
\* the catch block goes on to the rollback.
CreatePaymentIntentFails(h) ==
    /\ pc[h] = "createIntent"
    /\ failures < MaxFailures
    /\ failures' = failures + 1
    /\ Await(h, "rollback")
    /\ UNCHANGED <<dbVars, stripeVars, redisVars, answered, now, redeliveries, crashes>>

\* The rollback transaction: ticket rows deleted, FAILED, stock restored.
CheckoutRollback(h) ==
    /\ pc[h] = "rollback"
    /\ SetOrder(ord[h], "FAILED")
    /\ RestoreStock(ord[h])
    /\ Return(h)
    /\ UNCHANGED <<eventStatus, piSaved, stripeVars, redisVars, envVars>>

\* Mutation: the client gets its secret without an expiry job.
SaveIntentOnly(h) ==
    /\ pc[h] = "saveIntent"
    /\ piSaved' = piSaved \cup {ord[h]}
    /\ Await(h, "addReminder")
    /\ UNCHANGED <<eventStatus, stock, status, stripeVars, redisVars, envVars>>
SavePaymentIntent(h) ==
    /\ pc[h] = "saveIntent"
    /\ piSaved' = piSaved \cup {ord[h]}
    /\ Await(h, "addExpiryJob")
    /\ UNCHANGED <<eventStatus, stock, status, stripeVars, redisVars, envVars>>

AddOrderExpiryJob(h) ==
    /\ pc[h] = "addExpiryJob"
    /\ jobs' = [jobs EXCEPT ![ord[h]] = "delayed"]
    /\ Await(h, "addReminder")
    /\ UNCHANGED <<dbVars, stripeVars, attempts, stalls, mails, envVars>>

ReminderIsDue == EventDate - now - ReminderHours > 0

\* The reminder is in Redis; its reply, and with it the answer, can still be lost.
AddReminder(h) ==
    /\ pc[h] = "addReminder"
    /\ ReminderIsDue
    /\ AddEmailJob("reminder", ord[h])
    /\ Await(h, "answer")
    /\ UNCHANGED <<dbVars, stripeVars, jobs, attempts, stalls, envVars>>

\* The client gets the secret: after the reminder, or at once when there is none.
AnswerCheckout(h) ==
    /\ \/ pc[h] = "answer"
       \/ pc[h] = "addReminder" /\ ~ReminderIsDue
    /\ answered' = answered \cup {ord[h]}
    /\ Return(h)
    /\ UNCHANGED <<dbVars, stripeVars, redisVars, now, redeliveries, failures, crashes>>

-----------------------------------------------------------------------------
(* Stripe: payments and webhook deliveries (external) *)

CustomerPays(o) ==
    /\ "pay" \in Traffic
    /\ o \in answered \ charged
    /\ charged' = charged \cup {o}
    /\ due' = [due EXCEPT ![<<"succeeded", o>>] = @ + 1]
    /\ UNCHANGED <<dbVars, declines, refunds, redisVars, procVars, envVars>>

PaymentDeclined(o) ==
    /\ "pay" \in Traffic
    /\ o \in answered \ charged
    /\ declines[o] < MaxDeclines
    /\ declines' = [declines EXCEPT ![o] = @ + 1]
    /\ due' = [due EXCEPT ![<<"payment_failed", o>>] = @ + 1]
    /\ UNCHANGED <<dbVars, charged, refunds, redisVars, procVars, envVars>>

\* Stripe may send an event more than once.
Redeliver(e) ==
    /\ redeliveries < MaxRedeliveries
    /\ \/ e[1] = "succeeded" /\ e[2] \in charged
       \/ e[1] = "payment_failed" /\ declines[e[2]] > 0
    /\ redeliveries' = redeliveries + 1
    /\ due' = [due EXCEPT ![e] = @ + 1]
    /\ UNCHANGED <<dbVars, charged, declines, refunds, redisVars, procVars,
                   answered, now, failures, crashes>>

-----------------------------------------------------------------------------
(* WebhooksService *)

\* The switch of handleStripeWebhook.  Mutation: a missing break.
FallThrough(type) == "markPaid"
Dispatch(type) == IF type = "succeeded" THEN "markPaid" ELSE "markFailed"

\* Mutation: the status is not looked at.
Found(o) == o \in piSaved
CanBePaid(o) == o \in piSaved /\ status[o] = "PENDING"

\* handlePaymentSucceeded reads the order and skips, acknowledging the event,
\* when there is none or it is not PENDING.
PaymentSucceeded(h, o) ==
    /\ pc[h] = "idle"
    /\ due[<<"succeeded", o>>] > 0
    /\ due' = [due EXCEPT ![<<"succeeded", o>>] = @ - 1]
    /\ IF CanBePaid(o)
       THEN Enter(h, o, Dispatch("succeeded"))
       ELSE UNCHANGED procVars
    /\ UNCHANGED <<dbVars, charged, declines, refunds, redisVars, envVars>>

\* order.update by id: whatever the status is by now.
MarkPaid(h) ==
    /\ pc[h] = "markPaid"
    /\ SetOrder(ord[h], "PAID")
    /\ Await(h, "purchaseMail")
    /\ UNCHANGED <<eventStatus, stock, piSaved, stripeVars, redisVars, envVars>>

\* handlePaymentFailed reads the order and does not look at its status.
PaymentFailed(h, o) ==
    /\ pc[h] = "idle"
    /\ due[<<"payment_failed", o>>] > 0
    /\ due' = [due EXCEPT ![<<"payment_failed", o>>] = @ - 1]
    /\ IF o \in piSaved
       THEN Enter(h, o, Dispatch("payment_failed"))
       ELSE UNCHANGED procVars
    /\ UNCHANGED <<dbVars, charged, declines, refunds, redisVars, envVars>>

MarkFailed(h) ==
    /\ pc[h] = "markFailed"
    /\ SetOrder(ord[h], "FAILED")
    /\ RestoreStock(ord[h])
    /\ Await(h, "failedEmit")
    /\ UNCHANGED <<eventStatus, piSaved, stripeVars, redisVars, envVars>>

-----------------------------------------------------------------------------
(* OrderExpiryProcessor.process and OrdersService.expireOrder *)

\* Mutation: a retry that does not look at the status.
Always(o) == TRUE
StillPending(o) == status[o] = "PENDING"

\* Mutation: the job is removed when it starts.
ExpiryJobRemovedFirst(o) ==
    /\ jobs[o] = "delayed"
    /\ pc[Worker] = "idle"
    /\ jobs' = [jobs EXCEPT ![o] = "completed"]
    /\ IF StillPending(o) THEN Enter(Worker, o, "expire") ELSE UNCHANGED procVars
    /\ UNCHANGED <<dbVars, stripeVars, attempts, stalls, mails, envVars>>

\* The delay is over (or the retry's backoff): the worker takes the job and
\* expireOrder reads the order.  A job whose order is not PENDING completes.
ExpiryJobStart(o) ==
    /\ jobs[o] = "delayed"
    /\ pc[Worker] = "idle"
    /\ IF StillPending(o)
       THEN /\ jobs' = [jobs EXCEPT ![o] = "active"]
            /\ Enter(Worker, o, "expire")
       ELSE /\ jobs' = [jobs EXCEPT ![o] = "completed"]
            /\ UNCHANGED procVars
    /\ UNCHANGED <<dbVars, stripeVars, attempts, stalls, mails, envVars>>

ExpireOrder(h) ==
    /\ pc[h] = "expire"
    /\ SetOrder(ord[h], "EXPIRED")
    /\ RestoreStock(ord[h])
    /\ Await(h, "expiredMail")
    /\ UNCHANGED <<eventStatus, piSaved, stripeVars, redisVars, envVars>>

-----------------------------------------------------------------------------
(* OrdersService.refund *)

\* Mutation: what is partially refunded can be refunded again.
RefundableAgain(o) ==
    LET c == Category[Dto[o].categoryId]
    IN  /\ status[o] \in {"PAID", "PARTIALLY_REFUNDED"}
        /\ c.refundPolicy # "NON_REFUNDABLE"
        /\ now <= EventDate - c.refundDeadlineHours
        /\ o \in piSaved
Refundable(o) ==
    LET c == Category[Dto[o].categoryId]
    IN  /\ status[o] = "PAID"
        /\ c.refundPolicy # "NON_REFUNDABLE"
        /\ now <= EventDate - c.refundDeadlineHours
        /\ o \in piSaved

\* Mutation: the database before Stripe.
RefundDatabaseFirst(h, o) ==
    /\ "refund" \in Traffic
    /\ pc[h] = "idle"
    /\ Refundable(o)
    /\ Enter(h, o, "markRefunded")
    /\ UNCHANGED <<dbVars, stripeVars, redisVars, envVars>>

\* The read of the order and the guards on it.
RefundRequest(h, o) ==
    /\ "refund" \in Traffic
    /\ pc[h] = "idle"
    /\ Refundable(o)
    /\ Enter(h, o, "stripeRefund")
    /\ UNCHANGED <<dbVars, stripeVars, redisVars, envVars>>

\* stripe.refunds.create: Stripe refuses to refund nothing, or more than was
\* charged.
StripeRefund(h) ==
    LET o == ord[h]
        percentage == Category[Dto[o].categoryId].refundPercentage
    IN  /\ pc[h] = "stripeRefund"
        /\ IF percentage > 0 /\ (refunds[o] + 1) * percentage <= 100
           THEN /\ refunds' = [refunds EXCEPT ![o] = @ + 1]
                /\ Await(h, "markRefunded")
           ELSE /\ Return(h)
                /\ UNCHANGED refunds
        /\ UNCHANGED <<dbVars, charged, declines, due, redisVars, envVars>>

\* Mutation: the policy's name in place of the status's.
StatusAfterPolicy(percentage) == IF percentage < 100 THEN "PARTIAL" ELSE "REFUNDED"
RefundStatus(percentage) ==
    IF percentage < 100 THEN "PARTIALLY_REFUNDED" ELSE "REFUNDED"

MarkRefunded(h) ==
    LET o == ord[h]
    IN  /\ pc[h] = "markRefunded"
        /\ SetOrder(o, RefundStatus(Category[Dto[o].categoryId].refundPercentage))
        /\ RestoreStock(o)
        /\ Await(h, "refundMail")
        /\ UNCHANGED <<eventStatus, piSaved, stripeVars, redisVars, envVars>>

-----------------------------------------------------------------------------
(* EventsService.updateStatus *)

\* Any status but CANCELLED: one unconditional update.
UpdateStatus(s) ==
    /\ "status" \in Traffic
    /\ s # "CANCELLED"
    /\ eventStatus' = s
    /\ UNCHANGED <<stock, status, piSaved, stripeVars, redisVars, procVars, envVars>>

\* CANCELLED: findOne and the check that it is not cancelled already.
CancelRequest(h) ==
    /\ "status" \in Traffic
    /\ "CANCELLED" \in StatusRequests
    /\ pc[h] = "idle"
    /\ eventStatus # "CANCELLED"
    /\ Enter(h, NoOrder, "findAffected")
    /\ UNCHANGED <<dbVars, stripeVars, redisVars, envVars>>

\* Mutation: the list is asked for as it will be after the transaction.
OrdersCancelled == {o \in OrderIds : status[o] = "CANCELLED"}
OrdersAffected == {o \in OrderIds : status[o] = "PAID"}

FindAffected(h) ==
    /\ pc[h] = "findAffected"
    /\ affected' = [affected EXCEPT ![h] = OrdersAffected]
    /\ pc' = [pc EXCEPT ![h] = "cancelOrders"]
    /\ UNCHANGED <<ord, dbVars, stripeVars, redisVars, envVars>>

\* updateMany(PAID -> CANCELLED) and the event, in one transaction.
CancelOrders(h) ==
    /\ pc[h] = "cancelOrders"
    /\ status' = [o \in OrderIds |->
                    IF status[o] = "PAID" THEN "CANCELLED" ELSE status[o]]
    /\ eventStatus' = "CANCELLED"
    /\ Await(h, "cancelMails")
    /\ UNCHANGED <<stock, piSaved, stripeVars, redisVars, envVars>>

\* One email job per order of the list that was read before the transaction.
CancelMail(h, o) ==
    /\ pc[h] = "cancelMails"
    /\ o \in affected[h]
    /\ AddEmailJob("cancelled", o)
    /\ affected' = [affected EXCEPT ![h] = @ \ {o}]
    /\ UNCHANGED <<pc, ord, dbVars, stripeVars, jobs, attempts, stalls, envVars>>

CancelDone(h) ==
    /\ pc[h] = "cancelMails"
    /\ affected[h] = {}
    /\ Return(h)
    /\ UNCHANGED <<dbVars, stripeVars, redisVars, envVars>>

-----------------------------------------------------------------------------
(* The common tail of a handler: addEmailJob, then emitStockForEvent *)

\* step |-> <<kind of email, next step>>
Tail == [purchaseMail |-> <<"purchase", "paidEmit">>,
         expiredMail  |-> <<"expired", "expiredEmit">>,
         refundMail   |-> <<"refund", "refundEmit">>]

SendMail(h) ==
    /\ pc[h] \in DOMAIN Tail
    /\ AddEmailJob(Tail[pc[h]][1], ord[h])
    /\ Await(h, Tail[pc[h]][2])
    /\ UNCHANGED <<dbVars, stripeVars, jobs, attempts, stalls, envVars>>

\* The broadcast changes nothing here; with it the request is answered, the
\* webhook acknowledged, the job completed.
EmitStock(h) ==
    /\ pc[h] \in {"paidEmit", "failedEmit", "expiredEmit", "refundEmit"}
    /\ jobs' = IF pc[h] = "expiredEmit"
               THEN [jobs EXCEPT ![ord[h]] = "completed"] ELSE jobs
    /\ Return(h)
    /\ UNCHANGED <<dbVars, stripeVars, attempts, stalls, mails, envVars>>

-----------------------------------------------------------------------------
(* Failures *)

\* Mutation: a webhook acknowledged before it is handled.
ServesNone(h, e) == FALSE
\* Handler h answers a delivery of event e.
Serves(h, e) ==
    /\ ord[h] = e[2]
    /\ pc[h] \in (IF e[1] = "succeeded" THEN SucceededSteps ELSE FailedSteps)

\* The awaited call rejects (or the reply is lost: then the effect is that of
\* the step, followed by this one).  The handler throws; Stripe sends a webhook
\* answered 500 again, BullMQ retries a job until its attempts are used up.
\* checkout's catch of a failed rollback and refund's catches end the request.
Rejects(h) ==
    /\ pc[h] \notin {"idle", "createIntent"}
    /\ failures < MaxFailures
    /\ failures' = failures + 1
    /\ Return(h)
    /\ due' = [e \in Hooks |-> IF Serves(h, e) THEN due[e] + 1 ELSE due[e]]
    /\ IF pc[h] \in ExpirySteps
       THEN /\ attempts' = [attempts EXCEPT ![ord[h]] = @ + 1]
            /\ jobs' = [jobs EXCEPT ![ord[h]] =
                           IF attempts[ord[h]] + 1 < Attempts
                           THEN "delayed" ELSE "failed"]
       ELSE UNCHANGED <<attempts, jobs>>
    /\ UNCHANGED <<dbVars, charged, declines, refunds, stalls, mails,
                   answered, now, redeliveries, crashes>>

\* The process dies: every handler is gone.  Stripe gets no answer and sends
\* again; BullMQ finds the active job stalled.
Crash ==
    /\ crashes < MaxCrashes
    /\ crashes' = crashes + 1
    /\ pc' = [h \in Procs |-> "idle"]
    /\ ord' = [h \in Procs |-> NoOrder]
    /\ affected' = [h \in Procs |-> {}]
    /\ due' = [e \in Hooks |-> due[e] + Cardinality({h \in Procs : Serves(h, e)})]
    /\ stalls' = [o \in OrderIds |->
                    IF jobs[o] = "active" THEN stalls[o] + 1 ELSE stalls[o]]
    /\ jobs' = [o \in OrderIds |->
                  IF jobs[o] # "active" THEN jobs[o]
                  ELSE IF stalls[o] < MaxStalledCount THEN "delayed" ELSE "failed"]
    /\ UNCHANGED <<dbVars, charged, declines, refunds, attempts, mails,
                   answered, now, redeliveries, failures>>

Tick ==
    /\ now < MaxTicks
    /\ now' = now + 1
    /\ UNCHANGED <<dbVars, stripeVars, redisVars, procVars,
                   answered, redeliveries, failures, crashes>>

-----------------------------------------------------------------------------
(* Specification *)

\* What the code does next in a handler that is in flight.
Continue(h) ==
    \/ CheckoutAggregate(h) \/ CheckoutReserve(h)
    \/ CreatePaymentIntent(h) \/ CreatePaymentIntentFails(h) \/ CheckoutRollback(h)
    \/ SavePaymentIntent(h) \/ AddOrderExpiryJob(h)
    \/ AddReminder(h) \/ AnswerCheckout(h)
    \/ MarkPaid(h) \/ MarkFailed(h) \/ ExpireOrder(h)
    \/ StripeRefund(h) \/ MarkRefunded(h)
    \/ FindAffected(h) \/ CancelOrders(h) \/ CancelDone(h)
    \/ \E o \in OrderIds : CancelMail(h, o)
    \/ SendMail(h) \/ EmitStock(h) \/ Rejects(h)

Arrive(h) ==
    \/ CancelRequest(h)
    \/ \E o \in OrderIds :
          \/ CheckoutRequest(h, o) \/ RefundRequest(h, o)
          \/ PaymentSucceeded(h, o) \/ PaymentFailed(h, o)

Next ==
    \/ \E h \in Procs : Continue(h)
    \/ \E h \in Handlers : Arrive(h)
    \/ \E o \in OrderIds : ExpiryJobStart(o) \/ CustomerPays(o) \/ PaymentDeclined(o)
    \/ \E e \in Hooks : Redeliver(e)
    \/ \E s \in StatusRequests : UpdateStatus(s)
    \/ Crash
    \/ Tick

Spec == Init /\ [][Next]_vars

\* The event loop resumes every handler whose call has returned; BullMQ hands
\* over every job that is due; Stripe sends an event until it is acknowledged,
\* and a real server accepts it whatever else is in flight (strong fairness:
\* the number of slots is a bound of the model).
Fairness ==
    /\ \A h \in Procs : WF_vars(Continue(h))
    /\ \A o \in OrderIds : WF_vars(ExpiryJobStart(o))
    /\ \A o \in OrderIds : SF_vars(\E h \in Handlers : PaymentSucceeded(h, o))

FairSpec == Spec /\ Fairness

-----------------------------------------------------------------------------
(* Properties *)

DbOK ==
    /\ eventStatus \in EventStatus
    /\ stock \in [Categories -> Int]
    /\ status \in [OrderIds -> OrderStatus]
    /\ piSaved \subseteq OrderIds
StripeOK ==
    /\ charged \subseteq OrderIds
    /\ declines \in [OrderIds -> Nat]
    /\ refunds \in [OrderIds -> Nat]
    /\ due \in [Hooks -> Nat]
RedisOK ==
    /\ jobs \in [OrderIds -> JobState]
    /\ attempts \in [OrderIds -> Nat]
    /\ stalls \in [OrderIds -> Nat]
    /\ mails \in [MailKinds \X OrderIds -> Nat]
ProcOK ==
    /\ pc \in [Procs -> Steps]
    /\ ord \in [Procs -> OrderIds \cup {NoOrder}]
    /\ affected \in [Procs -> SUBSET OrderIds]
    /\ \A h \in Procs : ord[h] = NoOrder <=> pc[h] \in {"idle"} \cup CancelSteps
EnvOK ==
    /\ answered \subseteq OrderIds
    /\ now \in Nat /\ redeliveries \in Nat /\ failures \in Nat /\ crashes \in Nat

\* Every variable has its type, and a handler serves an order exactly in the
\* steps that read one.
TypeOK == DbOK /\ StripeOK /\ RedisOK /\ ProcOK /\ EnvOK

Holding == {"PENDING", "PAID", "CANCELLED"}
Released == {"FAILED", "EXPIRED", "REFUNDED", "PARTIALLY_REFUNDED"}

\* Orders whose tickets the stock counts as taken, and how many these are.
Held(c) == {o \in OrderIds : Dto[o].categoryId = c /\ status[o] \in Holding}
Taken(c) == Cardinality(Tickets(Held(c)))

\* No ticket vanishes: whatever is not in stock is held by some order, under
\* every interleaving, crash and failed rollback.
NoTicketLost == \A c \in Categories : stock[c] + Taken(c) >= Category[c].totalStock

\* No ticket is sold twice: orders never hold more than there are.
NoOverselling == \A c \in Categories : Taken(c) <= Category[c].totalStock

\* The stock is exact.
StockExact ==
    \A c \in Categories : stock[c] >= 0 /\ stock[c] + Taken(c) = Category[c].totalStock

\* A handler writes over a status whose tickets were already given back.
Overwrite ==
    \E h \in Procs :
        /\ pc[h] \in {"markPaid", "markFailed", "expire", "markRefunded", "rollback"}
        /\ pc'[h] # pc[h]
        /\ status[ord[h]] \in Released

\* The stock drifts in one way only: a handler writes over a status that released
\* its tickets, because it read the order before that, or, for a declined payment,
\* because handlePaymentFailed reads no status at all.
DriftsOnlyByOverwrite == [][StockExact /\ ~StockExact' => Overwrite]_vars

\* The abstract sale, seen through the statuses of the orders.
Ledger == INSTANCE TicketLedger WITH
    TotalStock <- [c \in Categories |-> Category[c].totalStock],
    CategoryOf <- [o \in OrderIds |-> Dto[o].categoryId],
    Quantity <- [o \in OrderIds |-> Dto[o].quantity],
    holding <- {o \in OrderIds : status[o] \in Holding},
    closed <- {o \in OrderIds : status[o] \in Released}

\* checkout, its rollback, expiry, failed payment, refund and cancellation
\* together implement that sale: each of their steps takes the tickets of one
\* order, or gives all of them back for good, or leaves tickets alone.
ImplementsLedger == Ledger!Spec

\* No order counts as bought whose PaymentIntent did not succeed.
PaidMeansCharged ==
    \A o \in OrderIds :
        status[o] \in {"PAID", "CANCELLED", "REFUNDED", "PARTIALLY_REFUNDED"}
            => o \in charged

\* An order is refunded in the database only after Stripe refunded it.
RefundedMeansReturned ==
    \A o \in OrderIds :
        status[o] \in {"REFUNDED", "PARTIALLY_REFUNDED"} => refunds[o] > 0

\* Why these hold (their inductive strengthening).  A checkout is alone with its
\* order until it reserves; the order exists from then on.
FreshUntilReserved ==
    /\ \A h \in Procs : pc[h] \notin {"idle"} \cup CancelSteps =>
          (status[ord[h]] = "NONE" <=> pc[h] \in {"aggregate", "reserve"})
    /\ \A h, g \in Procs :
          pc[h] \in {"aggregate", "reserve"} /\ ord[g] = ord[h] => g = h
    /\ \A o \in piSaved : status[o] # "NONE"

\* Who handles a success event or a refund has a charged order; who has passed
\* stripeRefund has a refund.
StepsMeanCharged ==
    /\ \A o \in OrderIds : due[<<"succeeded", o>>] > 0 => o \in charged
    /\ \A h \in Procs : pc[h] \in SucceededSteps \cup RefundSteps => ord[h] \in charged
    /\ \A h \in Procs : pc[h] \in RefundSteps \ {"stripeRefund"} => refunds[ord[h]] > 0

\* How far a checkout got with saving the PaymentIntent and adding the job.
TrackedBySteps ==
    /\ \A h \in Procs : pc[h] \in {"addExpiryJob", "addReminder", "answer"} =>
          ord[h] \in piSaved
    /\ \A h \in Procs : pc[h] \in {"addReminder", "answer"} => jobs[ord[h]] # "none"

\* The worker alone expires, and has not mailed the order it is about to expire.
ExpiryByWorker ==
    /\ \A h \in Procs : pc[h] \in ExpirySteps => h = Worker
    /\ \A o \in OrderIds : status[o] \in {"NONE", "PENDING"} => mails[<<"expired", o>>] = 0
    /\ pc[Worker] \in {"expire", "expiredMail"} => mails[<<"expired", ord[Worker]>>] = 0
    /\ pc[Worker] = "expiredMail" => status[ord[Worker]] # "PENDING"

\* Stripe and its webhooks know an order only from its client.
KnownFromClient ==
    /\ charged \subseteq answered
    /\ \A o \in OrderIds : declines[o] > 0 => o \in answered
    /\ \A e \in Hooks : due[e] > 0 => e[2] \in answered
    /\ \A h \in Procs : pc[h] \in SucceededSteps \cup FailedSteps => ord[h] \in answered

\* Between its reservation and its expiry job an order is PENDING and known to
\* its checkout alone: whatever the rollback finds, nobody else has changed it.
UntrackedIsAlone ==
    /\ \A h \in Procs : pc[h] \in {"createIntent", "rollback", "saveIntent", "addExpiryJob"} =>
          /\ status[ord[h]] = "PENDING" /\ ord[h] \notin answered /\ jobs[ord[h]] = "none"
          /\ \A g \in Procs : ord[g] = ord[h] => g = h
    /\ \A o \in OrderIds : status[o] = "NONE" => jobs[o] = "none"

\* No payment is forgotten: while its order is PENDING, Stripe still owes the
\* success event or a handler is about to mark the order PAID.
PaymentIsKept ==
    \A o \in charged : status[o] = "PENDING" =>
        \/ due[<<"succeeded", o>>] > 0
        \/ \E h \in Procs : pc[h] = "markPaid" /\ ord[h] = o

\* No expiry job is forgotten: it is active exactly while the worker runs it, and
\* completed only when its order is not PENDING any more.
JobIsKept ==
    \A o \in OrderIds :
        /\ jobs[o] = "active" <=> pc[Worker] \in ExpirySteps /\ ord[Worker] = o
        /\ jobs[o] = "completed" => status[o] # "PENDING"

\* No email says what did not happen: purchases and cancellations are mailed for
\* orders that were paid for, refunds after Stripe's.  There is at most one
\* reminder, for an order that the webhook finds and the expiry job closes; its
\* client may never have been answered.
MailsAreTrue ==
    \A o \in OrderIds :
        /\ mails[<<"purchase", o>>] > 0 \/ mails[<<"cancelled", o>>] > 0 => o \in charged
        /\ mails[<<"refund", o>>] > 0 => refunds[o] > 0
        /\ mails[<<"reminder", o>>] > 0 => o \in piSaved /\ jobs[o] # "none"
        /\ mails[<<"reminder", o>>] <= 1

\* Whom a cancellation lists has paid, and whoever is to add a reminder is alone
\* in that, for an order that has none.
MailedBySteps ==
    /\ \A h \in Procs : affected[h] \subseteq charged
    /\ \A h \in Procs : pc[h] = "addReminder" => mails[<<"reminder", ord[h]>>] = 0
    /\ \A h, g \in Procs :
          pc[h] = "addReminder" /\ pc[g] = "addReminder" /\ ord[g] = ord[h] => g = h

Strengthening ==
    /\ FreshUntilReserved /\ StepsMeanCharged /\ TrackedBySteps /\ ExpiryByWorker
    /\ KnownFromClient /\ UntrackedIsAlone /\ PaymentIsKept /\ JobIsKept
    /\ MailsAreTrue /\ MailedBySteps

\* Whoever can pay has an order that the webhook will find and the expiry job
\* will close: the client gets the secret last.
PayableIsTracked ==
    \A o \in answered : o \in piSaved /\ jobs[o] # "none"

\* Retries of the expiry job, cut off anywhere, never expire an order twice.
ExpiredOnce == \A o \in OrderIds : mails[<<"expired", o>>] <= 1

\* A user never holds more tickets of a category than maxTicketsPerUser.
TicketLimit ==
    \A u \in Users, c \in Categories : AlreadyOwned(u, c) <= Category[c].maxTicketsPerUser

\* One purchase email per order.
OnePurchaseMail == \A o \in OrderIds : mails[<<"purchase", o>>] <= 1

\* As long as no call has failed, Stripe refunds an order at most once.
OneRefund ==
    failures = 0 /\ crashes = 0 => \A o \in OrderIds : refunds[o] <= 1

\* No late transitions: an order in a final status stays in it.
FinalIsFinal ==
    [][\A o \in OrderIds :
          status[o] \in {"FAILED", "EXPIRED", "CANCELLED", "REFUNDED", "PARTIALLY_REFUNDED"}
              => status'[o] = status[o]]_vars

\* As long as no call has failed: once the cancellation has returned, every
\* order it cancelled has its email.
CancelledAreNotified ==
    /\ failures = 0 /\ crashes = 0
    /\ \A h \in Handlers : pc[h] \notin CancelSteps
    => \A o \in OrderIds : status[o] = "CANCELLED" => mails[<<"cancelled", o>>] > 0

\* A PENDING order with an expiry job gets out of PENDING, unless BullMQ gives
\* the job up.
ScheduledOrdersSettle ==
    \A o \in OrderIds :
        (jobs[o] = "delayed") ~> (status[o] # "PENDING" \/ jobs[o] = "failed")

\* A charged order gets out of PENDING, even when its expiry job was given up.
ChargedOrdersSettle ==
    \A o \in OrderIds : (o \in charged) ~> (status[o] # "PENDING")

\* Every PENDING order is paid or expires.
PendingOrdersSettle ==
    \A o \in OrderIds : (status[o] = "PENDING") ~> (status[o] # "PENDING")

=============================================================================
