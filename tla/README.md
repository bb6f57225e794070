# A verification project for the ticket API

TLA+ modules, TLC runs and TLAPS proofs about the ticket-sales API in `src/`
(NestJS, PostgreSQL through Prisma, Redis with BullMQ, Stripe, Socket.io, S3).
`PROJECT.json` maps every definition to the source lines it models and lists the
runs, the mutations each property catches, the findings, the hazards and the
theorems.

## 1. The system

### Components

| component | source | state it keeps | operations |
|---|---|---|---|
| Orders | `src/src/orders/orders.service.ts` | rows of `orders`, `tickets`; `ticket_categories.availableStock` | `checkout`, `refund`, `expireOrder`, two reads |
| Stripe webhooks | `src/src/webhooks/webhooks.service.ts` | none of its own; writes orders and stock | `handleStripeWebhook` → succeeded, payment_failed |
| Order-expiry queue | `src/src/queues/` | BullMQ jobs in Redis | `addOrderExpiryJob`, `OrderExpiryProcessor.process` |
| Email queue | `src/src/queues/`, `src/src/email/` | BullMQ jobs in Redis | `addEmailJob`, `EmailProcessor.process`, `EmailService.send` |
| Events | `src/src/events/events.service.ts` | rows of `events` | `create`, `update`, `updateStatus`, `remove`, reads |
| Events cache | same file | Redis keys `events:list:page:limit`, TTL 60 s | `findAll`, `invalidateCache` |
| Categories | `src/src/categories/categories.service.ts` | rows of `ticket_categories` | `create`, `remove`, read |
| Authentication | `src/src/auth/` | rows of `users`, `refresh_tokens` | `register`, `login`, `refresh`, `logout`, `changeRole` |
| Stock broadcast | `src/src/websocket/websocket.gateway.ts` | what each client last saw | `emitStockForEvent` |
| Object storage | `src/src/storage/storage.service.ts` | poster objects in S3 or MinIO | `uploadFile`, `deleteFile` |
| HTTP layer | controllers, `src/src/auth/guards/` | throttling counters | the routes, their guards and roles |
| Everything else | DTOs, templates, bootstrap, seed, k6, Postman | none | — |

### How they interact

One Node process serves every request. A handler is an async function: between
two awaits it runs alone, and at an await any other handler may run. The
handlers meet in the rows of `orders` and `ticket_categories` (the database runs
at READ COMMITTED, Prisma's default), in the queues, and through Stripe:

    client --checkout--> Orders --reserve--> PostgreSQL
                           |---PaymentIntent--> Stripe --webhook--> Webhooks --> PostgreSQL
                           |---expiry job-----> BullMQ --job------> Orders.expireOrder
    client --refund----> Orders --refund--> Stripe, then PostgreSQL
    admin  --status----> Events --cancel--> orders, then one email job per order

### What is hard here

* Every operation on an order reads it, awaits, and writes by id: expiry, webhook,
  refund and cancellation race with each other on one row.
* A request makes several writes to several systems with no common transaction
  (PostgreSQL, Stripe, Redis): any call may reject, or the process may die, between two.
* Stripe delivers at least once, and a PaymentIntent can fail several times before
  it succeeds. BullMQ retries failed jobs and re-runs stalled ones.
* `maxTicketsPerUser` is checked on an aggregate read that locks nothing.
* The tail of a handler (email job, then broadcast) runs after its commit, and nothing
  orders the tails of two handlers. An email can be accepted and its job still fail.
* An access token names a role that no request looks up again, and outlives a logout.

`hazards` in `PROJECT.json` lists these at their lines with the properties that
cover them, and the ones no property covers yet with the reason.

### What makes each component correct

* Orders and webhooks: tickets are neither lost nor sold twice; what is PAID was
  charged, what is refunded was refunded by Stripe; final statuses stay; a user
  stays within the limit; every order leaves PENDING.
* Expiry queue: a job that is retried expires its order once; whoever can pay has a job.
* Cancellation: every cancelled order is told.
* Cache: no entry older than its TTL and its reader's latency; an old list outlives its
  invalidation only by a late SET, and not for long.
* Catalogue: no event row refers to a deleted poster; an event with active orders stays.
* Sessions: one refresh token, one successor; a token is not exchanged after its logout.
* Broadcast: after a checkout, payment, expiry or refund has announced its change, clients
  are not behind it, unless two broadcasts overlapped.
* Email queue: every job added is sent at least once, or is kept as failed; copies are
  bounded by attempts and stalls; every job ends.
* Access: power ends a token's life after the role, access a token's life after the session.

## 2. Plan

In this order; done is what section 3 describes.

1. **`Orders`** (done): order, stock, Stripe and expiry job, with every handler that touches them.
2. **`OrdersProofs`, `OrdersStockProofs`, `OrdersPaymentProofs`** (done): its safety theorems, each
   module on top of the one before it.
3. **`Sessions`, `SessionsProofs`** (done): registration, login, rotation and logout of
   refresh tokens against the unique indexes.
4. **`EventsCache`, `EventsCacheProofs`** (done): `findAll` and `invalidateCache` against a
   sequence of writes, with the TTL as a clock.
5. **`EventsCatalog`, `EventsCatalogProofs`** (done): events, categories, posters and foreign
   keys: `create`, `update`, `updateStatus`, `remove` of both services with the storage calls
   in order, and orders as rows that refer to a category.
6. **`TicketLedger`** (done): the abstract sale — an order takes its tickets and gives
   them back, each in one step — that `Orders` without overwriting steps implements, as a
   run and as a theorem.
7. **`EmailQueue`, `Notifications`, `NotificationsProofs`** (done): what customers are told:
   the tail of each handler against the email worker, Resend and the other tails.
8. **`Access`, `AccessProofs`** (done): roles, access tokens and the guards of every route.

`EmailQueue` is composed with the handlers in `Notifications`, which takes from `Orders`
only which handler a change is a run of. `Sessions`, `EventsCache`, `EventsCatalog` and
`Access` share no state that their properties read, so they are separate: `Access` sees of a
refresh token that it exists and whose it is, `Sessions` how it is exchanged. `Orders` and
`EventsCatalog` meet in `updateStatus` and in `checkout`, which each of them models as far
as its own state goes.

## 3. The models

### 3.1 `Orders.tla`

One event with its categories. `Init` is a published event nobody has bought yet.

#### State

| variables | stand for |
|---|---|
| `eventStatus`, `stock`, `status`, `piSaved` | `events.status`, `availableStock`, `orders.status` (`NONE`: no row), the orders whose `stripePaymentIntentId` is set |
| `charged`, `declines`, `refunds`, `due` | Stripe: PaymentIntents that succeeded, failed attempts and refunds of each, webhook deliveries still owed |
| `jobs`, `attempts`, `stalls`, `mails` | BullMQ: state, failed attempts and stalls of each expiry job, email jobs added per kind and order |
| `pc`, `ord`, `affected` | the Node process: the await each handler has reached, its order, and `affectedOrders` of `updateStatus` |
| `answered`, `now`, `redeliveries`, `failures`, `crashes` | clients that hold a client secret, the clock, and the counters that bound the environment |

#### Granularity

A handler in flight is a slot with a program counter, and an action is one
awaited call with the code up to the next await. `$transaction`s whose statements
lock the rows they write are one action: the `UPDATE ... WHERE "availableStock" >= n`
with `order.create` (`CheckoutReserve`), the rollback, the expiry, the failed
payment, the refund, the cancellation. The one transaction that is split is
checkout's: its aggregate takes no lock and runs before the `UPDATE`, so it is
`CheckoutAggregate`, and other transactions commit between the two.

| code | actions |
|---|---|
| `checkout` | `CheckoutRequest`, `CheckoutAggregate`, `CheckoutReserve`, `CreatePaymentIntent` or `CreatePaymentIntentFails` then `CheckoutRollback`, `SavePaymentIntent`, `AddOrderExpiryJob`, `AddReminder` when one is due, `AnswerCheckout` |
| `handlePaymentSucceeded` | `PaymentSucceeded`, `MarkPaid`, `SendMail`, `EmitStock` |
| `handlePaymentFailed` | `PaymentFailed`, `MarkFailed`, `EmitStock` |
| `process` → `expireOrder` | `ExpiryJobStart`, `ExpireOrder`, `SendMail`, `EmitStock` |
| `refund` | `RefundRequest`, `StripeRefund`, `MarkRefunded`, `SendMail`, `EmitStock` |
| `updateStatus` | `UpdateStatus`, or `CancelRequest`, `FindAffected`, `CancelOrders`, `CancelMail`, `CancelDone` |
| a rejected await, a crash | `Rejects`, `Crash` |
| Stripe, customers, time (external) | `CustomerPays`, `PaymentDeclined`, `Redeliver`, `Tick` |

A call whose reply is lost after it took effect is the step followed by
`Rejects`. So may the reminder be in Redis when its reply, and with it the client's
secret, is lost (`answer`, where `AnswerCheckout` is still to come). A rejected webhook handler, or one that a crash cut off, is owed
again by Stripe; a rejected expiry job uses up an attempt; one cut off by a
crash counts as stalled, and BullMQ gives it up after `MaxStalledCount`.

#### Abstractions

An amount is left out: `StripeRefund` keeps from it only that Stripe refuses to
refund nothing, or more than was charged, as percentages of one charge. The text
of emails, the ticket rows (as many as the order's quantity, deleted only by the
rollback), logging and the cache are left out. A delay may end at any time after
the job was added, so that every order of expiry and payment is covered.
A request that is refused and writes nothing (an event that is not published, an
order that cannot be refunded) is no step. The owner of an order asks for its
refund. The order of `affectedOrders` is open.

#### The abstract sale

`TicketLedger` has the stock, the orders whose tickets are taken and those that gave them
back, and two actions: `Take` and `GiveBack`, each once per order. `Orders` instantiates it
(`Ledger`) with the orders that hold tickets (PENDING, PAID, CANCELLED) and those that
released them (EXPIRED, FAILED, refunded), and `ImplementsLedger` says that it is the
ledger's specification. A checkout that rolls back leaves its order FAILED, and so has given
its tickets back. The ledger forbids what `Overwrite` steps do: taking again what was given
back, and giving back twice.

### 3.2 `Sessions.tla`

`registered`, `rows`, `owner` and `expiresAt` are the tables `users` and
`refresh_tokens`; `held` is what clients have received. `created`, `parent` and
`loggedOut` are history. A request has its await (`pc`), the token it was given
(`tok`), its user (`usr`) and the expiry it computed (`until`).

| code | actions |
|---|---|
| `register`, `login` | `Register`, `CreateUser`; `Login` |
| `refresh` | `Refresh`, then `DropExpired`, or `Redeem` |
| `generateRefreshToken` | `Generate` (up to its first await), `CleanUp`, `CreateToken` |
| `logout` | `Logout` |
| a rejected await, a lost answer, a crash, time | `Rejects`, `CreateToken`'s second disjunct, `Crash`, `Tick` |

A token is its hash, and a user is a normalized email. A request refused at its
first read is no step. Access tokens, and `changeRole`, which changes what they will
carry, are in `Access`. A token that a client never received is never presented.

### 3.3 `EventsCache.tla`

`version` counts the writes to events, and stands for what the list of published
events shows. Per key of Redis: the cached version, what is left of its TTL
(0: absent) and the ticks since the query it shows. A reader has its key and what
it queried (`key`, `got`, `wait`), a writer the keys its cursor has still to
pass and those it found (`todo`, `found`).

| code | actions |
|---|---|
| `findAll` | `CacheHit`; `CacheMiss`, `Query`, `SetCache` |
| `create`, `update`, `updateStatus`, `remove`, seen from the cache | `Write` |
| `invalidateCache` | `Scan` (per key, so that keys may come and go under the cursor), `ScanDone`, `Delete` |
| Redis expiry, a rejected await, a crash | `Tick`, `Rejects`, `Crash` |

`MaxLatency` bounds the ticks between a reader's query and its SET. The code has
no such bound, so `BoundedAge` reads: never older than the TTL *and* the latency.

### 3.4 `EventsCatalog.tla`

`eventRow`, `status`, `poster`, `categoryRow`, `home`, `order`, `bought` are the rows of
`events`, `ticket_categories` and `orders` with the columns that refer to one another;
`bucket` is the object store. A request has its await, its event and category, the
poster URL it read (`old`) and the object it uploaded (`new`). `clash` is history:
the events whose poster two requests worked on at once.

| code | actions |
|---|---|
| `events.create`, `update` | `Create`, `Update`, `Upload`, `InsertEvent`, `DeleteFile`, `UpdateEvent` |
| `updateStatus` | `UpdateStatus`, then `SetStatus` or `Cancel` |
| `events.remove` | `Remove`, `Count`, `DeleteFile`, `DeleteEvent` |
| `categories.create`, `remove` | `AddCategory`, `InsertCategory`; `RemoveCategory`, `CountCategory`, `DeleteCategory` |
| `checkout`, and an order's later life | `Checkout`, `Reserve`; `OrderMoves` |
| `uploadFile`, `deleteFile` | `UrlOf` in `Upload`, `KeyOf` in `DeleteFile`, which swallows errors |

Foreign keys: `orders` restricts the deletion of events and categories, whatever
the order's status; deleting an event cascades to its categories. SOLD_OUT and
COMPLETED are left out: the guards here tell only PUBLISHED and CANCELLED from
the rest. Stock, limits and money are in `Orders`.

### 3.5 `EmailQueue.tla` and `Notifications.tla`

A *change* is one run of one handler, of a `kind` chosen at the start: a checkout (or a late
one, without reminder), its rollback, a payment that succeeded or failed, an expiry, a
refund, a cancellation. `EmailQueue` is the state of the email job of each change
(`mailJob`), its throwing attempts and stalls, and the copies that Resend `accepted`.

| code | actions |
|---|---|
| `QueuesService.addEmailJob` | `AddEmailJob` |
| `EmailProcessor.process` → `EmailService.send` | `ProcessMail` (with the early return when emails are off), then `ResendAccepts` and `MailCompletes`, or `ResendRefuses`, or `ReplyIsLost` |
| `throw err` in both, BullMQ's attempts | `Throws` |
| a crash under the worker, BullMQ's stalls | `MailWorkerDies` |

`Notifications` adds the handlers: `version` counts the commits that change
`availableStock`, `own` is the version a change committed, `seen` what its `findMany`
returned, `shown` what clients received last. `overlapped` is history: two broadcasts had
both read and not yet emitted.

| code | actions |
|---|---|
| the transaction of the handler | `Commit` |
| `await addEmailJob` | `AddMail`, for the kinds in `Mails` |
| `await emitStockForEvent` | `FindStock` (the query), `EmitStock` (`emitStockUpdate` in its continuation), for the kinds in `Emits` |
| a rejected await, a crash | `Rejects`, `Crash` |

A handler that is cut off after its commit does not come back, whoever retries it: the
repeated webhook, the retried job and the repeated request find the order in a status they
skip. `handlePaymentFailed` alone looks at no status and runs again (`Retried`). A delay of a
job may end at any time. The gateway's early return without a server is left out, Nest gives
it one before any handler runs. The process and the email worker are one process, as in
the code, and the worker takes one job at a time.

### 3.6 `Access.tla`

`AuthRoutes`, `EventRoutes`, `CategoryRoutes` and `OrderRoutes` are the routes of four
controllers with their `@UseGuards` and `@Roles`; `CatalogueWrites`, `RoleWrite` and
`OwnOrders` say, whatever the guards, what the service behind a route does. `Admits` is what
Nest does with the guards, `NotExpired` what `JwtStrategy` and `HasRole` what `RolesGuard`
ask of the token. `role` is the column of `users`, `rows` the owners of `refresh_tokens`,
`held` the access tokens that clients hold. A request has its await, the user it serves, the
role it is going to sign or to set (`claim`), the expiry it has signed, and when it was
admitted (`since`). `lastAdmin` and `lastSession` are history.

| code | actions |
|---|---|
| `register`, `login`, `refresh`, `logout` | `Register`, `CreateUser`; `Login`, `Compared`; `Refresh`, `Redeem`; `Logout` |
| `signAccessToken`, `generateRefreshToken` | `Sign` in the three actions that reach it; `SaveToken` |
| `changeRole` | `ChangeRole` (guards and `findUnique`), `UpdateRole` |
| the other guarded routes | `Request`, `Answer` |
| a rejected await or a crash, time | `Rejects`, `Tick` |

The role that is signed is the one the handler read, before bcrypt or the redemption.
`MaxLatency` bounds how long a request is in flight, as in `EventsCache`: the code has no
such bound, so the property reads "a token's life *and* a request's latency". The signature
of a token is taken to hold: a client presents what it was given. A refresh token that
expires and is removed is the same step as a logout here. Webhooks have no guard but their
signature and are in `Orders`.

## 4. Runs

`OrdersMC` defines the requests and categories of the `orders_` instances, the other
MC modules the symmetries. TLC finishes each well within the limit of five minutes.

| run | question | bounds | result |
|---|---|---|---|
| `orders_faults` | what survives every interleaving and every fault | 1 order of 2 tickets, 2 request slots and the worker, 1 decline, redelivery, rejected call and crash, 2 attempts, a reminder always due | 2.4 M states, all eight hold |
| `orders_serial` | what holds when handlers never overlap | 2 orders of one user, every handler on the worker's slot, 1 redelivery, rejected call and crash, no declines, 1 tick, refund deadline and reminder before the event | 606 k states, all six hold |
| `orders_sale` | is the sale what the abstract one is, under contention | 3 orders of 2 users for 2 tickets, 2 slots and the worker, no payments, status changes, 1 rejected call and crash | 1.1 M states, implements `TicketLedger` |
| `orders_live` | do orders leave PENDING | 2 orders, 1 slot and the worker, 2 rejected calls, 1 crash, `FairSpec` | 196 k states, both hold |
| `orders_oversell` | no ticket is sold twice | 1 ticket, 3 users' orders, 2 declines | violated |
| `orders_limit` | `maxTicketsPerUser` | 2 checkouts of one user at once | violated |
| `orders_late` | final statuses are final | 1 order, payment against expiry | violated |
| `sessions` | is a token used once, and who loses a session | 2 users, 3 tokens, 2 requests, lifetime 1 of 2 ticks, 1 fault | 1.4 M states, all five hold |
| `events_cache` | how old and how wrong a list can be | 2 pages, 2 requests, TTL 2, latency 1, 2 writes, 1 fault, `FairSpec` | 51 k states, all four hold |
| `events_catalog` | do references hold, and posters match rows | 1 event, 3 posters, 1 category, 1 order, 2 requests, 1 fault, MinIO | 134 k states, all four hold |
| `notifications` | what customers are told, how often, and does it end | 2 changes of 4 kinds, 2 attempts, 1 stall, 1 lost answer, rejected call and crash, `FairSpec` | 394 k states, all six hold |
| `access` | how long a token outlives role and session | 2 accounts, 2 requests, 2 refresh tokens, token life 1, latency 1, 2 ticks | 1.0 M states, all four hold |

**Why the bounds are enough.** The races of the handlers are between pairs that
work on one order, which `orders_faults` runs with three at a time on one order
of quantity 2 (so that the quantity differs from the number of orders). What two
orders share is the stock and the limit, which `orders_sale` and `orders_serial`
run with three and two. One fault of each kind reaches every call it can cut
off; in `orders_faults` that includes the answer to a checkout whose reminder is in Redis
already (`MaxTicks = 0` with the event a tick away: the reminder is due throughout), while
`orders_serial` lets the clock pass the moment for it; `orders_live` takes two rejected calls, as many as `Attempts`, so that a
job is given up. The invariants of `orders_faults` do not depend on these bounds:
section 5 proves them for all. `CHECK_DEADLOCK FALSE`, because the system stops
when the requests, the orders and the faults of the instance are used up.

In the other runs, three tokens make a chain of two exchanges, or one exchange and
another user's token; two requests are what a race on one token, page or event
takes. Two pages let a writer's cursor pass one page before a reader sets the
other, two writes let a version be old by one or by two, and TTL 2 with latency 1
tells a TTL that starts at the query from one that starts at the SET. Three
posters are one to show, one to replace it and one for the request that races;
`events_catalog` with two events (7.4 M states) gives the same answer.

In `notifications` the four kinds are the four shapes of a handler's tail: with and without
an email, with and without a broadcast, retried or not (an expiry has the tail of a refund;
a rollback and a cancellation have a part of a checkout's). Two changes are what it takes for
a broadcast to be older than another, and for the worker to be busy; with two attempts and
one stall both limits are met. In `access` a tick is both the life and the latency, so that
the bound of `PowerIsRecent` is two ticks and the instance reaches it: with either of the two
dropped from the property, TLC finds it violated, as it does `AccessEndsWithSession` with a
token that lives one tick longer. The proofs of section 5 hold for every bound.

Two more instances are kept for the reader beside those of the table.
`OrdersNoExpiry.cfg` refutes `PendingOrdersSettle`: a PaymentIntent without `client_secret`
(`orders.service.ts:166`) ends the checkout with neither a rollback nor an expiry job, though
`orders.controller.ts:41` says the order expires in 15 minutes. `EventsCatalogAws.cfg`
refutes `OldPosterDeleted`: with AWS URLs, which the repository's README sets up in production
(`S3_ENDPOINT` empty), the key that `deleteFile` computes is the whole URL
(`storage.service.ts:68`), so replaced posters stay in the bucket, though
`events.controller.ts:104` says they are deleted.

**What they show together.** Under every fault `orders_faults` leaves three
things intact: tickets never vanish, money matches status, and the expiry job
closes what it was added for. Sold-twice is what can go wrong, and
`DriftsOnlyByOverwrite` says how: only in a step that writes over a status that
has released its tickets already: after reading it too early, or, on a second decline,
without reading it. Without overlap (`orders_serial`) or without
payments (`orders_sale`) there is no such step, the stock is exact and the sale is the
abstract one; section 5 proves that such steps are the only obstacle. The serial
run leaves out declined payments: a second decline overwrites FAILED even
serially, which is `orders_oversell`.

`sessions`: under a fault a session may be lost (the token is redeemed, its
successor never arrives); without one, never (`KeepsSession`). `events_cache`: an
invalidated list survives only in a SET that a reader issues late or after a
failed invalidation (`StaleOnlyByLateSet`), and then for no more than its TTL
(`BoundedAge`, `Converges`). `events_catalog`: the count of active orders is only
advice, it is the foreign keys that protect orders (`RowsAreThere`); but the poster
is deleted before the row, so a removal that they refuse leaves an event with
orders without its poster. `PosterIsStored` names the four ways to lose one.

`notifications`: clients may keep an older stock only when two broadcasts overlapped
(`AnnouncedIsShown`), and then until the next one. An email is never dropped between its
queue and Resend (`MailIsKept`), may be sent more than once but only through a failed
attempt or a crash (`FewCopies`), and its job ends (`MailsSettle`). What is lost is what a
handler had not reached when it was cut off: no job, no broadcast, and no second try but
after a declined payment. `access`: a demotion is felt after a token's life and the latency of
a login that had read the old role; a logout after a token's life, as
`auth.controller.ts:97` says.

### Findings

* `handlePaymentFailed` (`webhooks.service.ts:125`) has no guard on the status: two
  declines of one PaymentIntent restore the stock twice (`orders_oversell`,
  against README's "Zero overselling").
* The limit per user is read before any lock (`orders.service.ts:64`, `orders_limit`).
* Expiry and payment overwrite each other's final status (`webhooks.service.ts:88`,
  `orders_late`).

### Fairness

In `Orders`, `FairSpec` adds, and only `orders_live` (and `OrdersNoExpiry.cfg`) use:

* `WF(Continue(h))`: the event loop resumes a handler whose awaited call has settled.
* `WF(ExpiryJobStart(o))`: the worker takes the job that is due when it is free.
  With one worker and finitely many jobs weak fairness per job is enough.
* `SF(\E h : PaymentSucceeded(h, o))`: Stripe keeps sending an event until it is
  acknowledged. Strong, because the slots are a bound of the model: the real
  server accepts a webhook whatever else is in flight.

No fairness for clients, declines, faults, crashes or the clock. Faults are
bounded in number, so the claim is about what happens once they stop.

In `EventsCache`, `FairSpec` adds `WF(Continue(h))` as above, and `WF(Tick)`: time
passes, and Redis drops keys whose TTL is over. `Converges` needs both, since an
entry that a late SET left is only removed by its TTL. Nothing is assumed of readers
or writers, whose number `MaxWrites` bounds. In `Notifications`, `FairSpec` has
`WF(Handler(c))`, the event loop again, and `WF(Worker(c))`: the worker takes a job that is
due when it is free, and Resend's call settles. A change that arrives is not assumed to
(`Commit` has no fairness), nor any fault. `Sessions`, `EventsCatalog` and `Access` are checked
for safety only and assume no fairness.

## 5. Proofs

`tlapm` proves, for every number of orders, handlers, categories, tickets,
faults and every value of the other constants that the named `ASSUME`s of
each module admit (for `Orders`, finite sets of orders and handlers and the types
of requests, categories and bounds; for the others, the types of the bounds and
null values that are not members of the sets):

| theorem | module | statement |
|---|---|---|
| `TypeCorrect` | `OrdersProofs` | `Spec => []TypeOK` |
| `CheckoutIsAlone` | `OrdersProofs` | `Spec => []FreshUntilReserved` |
| `NoTicketIsLost` | `OrdersStockProofs` | `Spec => []NoTicketLost` |
| `StockDriftsOnlyByOverwrite` | `OrdersStockProofs` | `Spec => DriftsOnlyByOverwrite` |
| `PaidOrdersAreCharged`, `RefundsAreReturned` | `OrdersPaymentProofs` | `[]PaidMeansCharged`, `[]RefundedMeansReturned` |
| `WhoeverCanPayIsTracked` | `OrdersPaymentProofs` | `[]PayableIsTracked` |
| `ExpiryIsMailedOnce` | `OrdersPaymentProofs` | `[]ExpiredOnce` |
| `RollbackIsSafe`, `NoPaymentIsForgotten` | `OrdersPaymentProofs` | `[]UntrackedIsAlone`, `[]PaymentIsKept` |
| `NoJobIsForgotten` | `OrdersPaymentProofs` | `[]JobIsKept`, and the job of a PENDING order that can be paid is `delayed`, `active` or `failed` |
| `JobsSurviveFaults` | `OrdersPaymentProofs` | it is not `failed` while `failures < Attempts` and `crashes <= MaxStalledCount` |
| `JobsGiveUpInTime` | `OrdersPaymentProofs` | `[]GivenUpWhenUsedUp`: a job is `failed` exactly when its attempts are used up or it stalled once too often |
| `MailsSayWhatIsSo` | `OrdersPaymentProofs` | `[]MailsAreTrue` |
| `StrengtheningHolds` | `OrdersPaymentProofs` | `[]Strengthening` |
| `OnlyRacesAreLate` | `OrdersPaymentProofs` | `LateWritesAreRaces` |
| `LimitHolds` | `OrdersStockProofs` | `Spec /\ []CheckoutsApart /\ [][~PaidLate]_vars => []TicketLimit` |
| `PurchaseIsMailedOnce` | `OrdersPaymentProofs` | `Spec /\ []DeliveriesApart => []OnePurchaseMail` |
| `RefundedOnce` | `OrdersPaymentProofs` | `Spec /\ []RefundsApart /\ [][~PaidLate]_vars => []OneRefund` |
| `CancellationIsMailed` | `OrdersPaymentProofs` | `Spec /\ [][~PaidDuringCancel]_vars => []CancelledAreNotified` |
| `IsolatedOrdersAreSafe` | `OrdersPaymentProofs` | `Spec /\ []Isolated /\ []DeclinesInTime => Lifecycle /\ FinalIsFinal /\ [][~Overwrite]_vars /\ [][~PaidLate]_vars` |
| `IsolatedSaleIsExact` | `OrdersPaymentProofs` | under the same hypotheses `[](StockExact /\ NoOverselling) /\ ImplementsLedger` |
| `SerialIsCorrect` | `OrdersPaymentProofs` | `Spec /\ []Serial /\ []DeclinesInTime =>` all six properties of `orders_serial`, `[]NoOverselling` and `ImplementsLedger` |
| `OneHandlerIsCorrect` | `OrdersPaymentProofs` | the same of `Spec` alone, assuming `Handlers = {Worker}` and `MaxDeclines = 0` |
| `SessionsTyped`, `SpentTokensHaveNoRow` | `SessionsProofs` | `[]TypeOK`, `[]SpentHaveNoRow` |
| `TokensAreUsedOnce`, `LogoutWins` | `SessionsProofs` | `[]OneSuccessor`, `LogoutStopsExchange` |
| `SessionsAreKept` | `SessionsProofs` | `[]KeepsSession` |
| `CacheTyped`, `AgeAndRestBounded`, `AgeIsBounded` | `EventsCacheProofs` | `[]TypeOK`, `[]AgeAndRest`, `[]BoundedAge` |
| `OnlyLateSetsAreStale` | `EventsCacheProofs` | `StaleOnlyByLateSet` |
| `CatalogTyped`, `RowsStayThere` | `EventsCatalogProofs` | `[]TypeOK`, `[]RowsAreThere` |
| `PostersAreStored` | `EventsCatalogProofs` | `[]PosterIsStored` |
| `FilesAreRemembered`, `OldPostersAreDeleted` | `EventsCatalogProofs` | `Spec => []NoFileForgotten`, `Spec => OldPosterDeleted`, assuming `Endpoint` |
| `StockIsExact`, `NothingIsOversold` | `OrdersStockProofs` | `Spec /\ [][~Overwrite]_vars => []StockExact`, `=> []NoOverselling` |
| `SaleImplementsLedger` | `OrdersStockProofs` | `Spec /\ [][~Overwrite]_vars => ImplementsLedger` |
| `TypeCorrect`, `ClientsKeepUp` | `NotificationsProofs` | `[]TypeOK`, `[]AnnouncedIsShown` |
| `NoMailIsDropped`, `CopiesAreFew` | `NotificationsProofs` | `[]MailIsKept`, `[]FewCopies` |
| `TypeCorrect`, `PowerEnds` | `AccessProofs` | `[]TypeOK`, `[]PowerIsRecent` |
| `AccessEnds`, `RolesAreKept` | `AccessProofs` | `[]AccessEndsWithSession`, `RoleKept` |

**Argument.** `TypeOK` carries one fact beyond types: a handler serves an order
exactly in the steps that read `ord[h]`. On it rests `FreshUntilReserved`: a
checkout is the only handler that knows its order until it reserves, so the step
NONE → PENDING takes tickets that were not counted before, and no other step
meets an order that does not exist.

*Stock.* Tickets are counted as a set (`Tickets(S)`), so that a quantity is a
cardinality and adding an order's tickets is a union of disjoint finite sets
(`TicketsOfOne`, `TicketsAdd`). `SetOrderTaken` says how the count of held
tickets moves when one order changes status; from it each writing action either
moves as many tickets as it adds to the stock or, when it writes over a released
status, adds more (`StepAccounts`). The sum therefore never falls
(`NoTicketIsLost`), and rises only in an `Overwrite` (`StockDriftsOnlyByOverwrite`).

*Refinement.* `ImplementsLedger` does not hold of `Spec`, the findings are why; it holds of
every behaviour without an `Overwrite` step, which is the hypothesis of
`SaleImplementsLedger` and `StockIsExact`. The mapping takes a status to the side of the
ledger it is on. A step that moves no order across is a stutter (`SameSideStutters`), a
reservation is a `Take` (`ReserveTakes`), each release a `GiveBack` (`ReleaseGivesBack`), and
`StepImplements` goes through the steps that write orders or stock.

*Money.* `PaidMeansCharged` is not inductive: one must know that a handler about
to write PAID serves a charged order. `StepsMeanCharged` says so of deliveries
and of handlers, and that whoever has passed `stripeRefund` has a refund.

*Expiry.* `TrackedBySteps` records how far a checkout got, which makes
`PayableIsTracked` inductive. `ExpiryByWorker` says that only the worker expires
and that it has not mailed the order it holds; with `FreshUntilReserved`, no
order gets back to PENDING under it.

*Shared lemmas.* The later proofs do not go through `Next` action by action. `Movers` and
`CameBy` (`OrdersProofs`) say who can move a handler and by which action it got where it is;
`StatusWrites`, `MailWrites`, `RefundWrites`, `JobWrites`, `DueWrites`, `AnsweredWrites` say of
each variable which step writes it and how, and `NoFault` what a state without failures
excludes. They rest on `Writers`, which goes through `Next` once and names for each variable
the actions that change it (`ContinueWrites` for the steps of handlers, `OthersWrite` for the
rest); `ArriveEnters` says which step each arrival takes a handler to.

*Hand-over.* Rollback, save and addition of the job are unconditional writes. They are right
because until the client is answered nobody else reaches the order: Stripe, its webhooks and
the deliveries it owes know an order from its client only (`KnownFromClient`), a refund needs
PAID and the worker needs a job, so the order is PENDING and its checkout's alone
(`UntrackedIsAlone`, `RollbackIsSafe`).

*Kept work.* `PaymentIsKept`: a delivery that is taken up for a PENDING order becomes a handler
at `markPaid`, and a handler that is cut off there is owed again (`CutOffIsOwed`).
`JobIsKept` needs `ExpiredIsOver`, that the worker is past its write when the job completes.
`GivenUpForAReason` counts the attempts against the calls that rejected and the stalls against
the crashes, which gives the budget of faults in `JobsSurviveFaults`; `GivenUpWhenUsedUp` is
the converse too, for which the job must be known to be active whenever the worker can fail it
(`JobActive`) and untouched until it is added. These are the safety half
of `ChargedOrdersSettle` and `ScheduledOrdersSettle`.

*Mail.* `MailsAreTrue`, that no email says what did not happen, follows each kind of email back
to the step that adds it (`MailedBy`). `MailedBySteps` is what it needs beside
`StepsMeanCharged`: whom a cancellation lists has paid, because the list is made of PAID orders
and `PaidMeansCharged`, and whoever is to add a reminder is the only one and its order has none,
because it was alone with its order when it added the expiry job (`UntrackedIsAlone`). A reminder
does not mean that the client can pay: its reply can be lost, and with it the answer. What
holds is that its order has a saved PaymentIntent and an expiry job (`TrackedBySteps`), which
stay (`StaysTracked`).

`Strengthening` is the conjunction of the parts above that the code's order of steps has to
establish, checked by TLC in `orders_faults` and proved in `StrengtheningHolds`. Facts that
serve one proof only (`ExpiredIsOver`, `GivenUpForAReason`, `GivenUpWhenUsedUp`) stay with it.

*What the races cost.* `TicketLimit`, `OnePurchaseMail`, `OneRefund` and
`CancelledAreNotified` are not invariants of `Spec`: each is lost in a window between a read
and a write of the code. Each theorem names its window as a hypothesis and shows that nothing
else can break the property, whatever is interleaved, cut off or delivered twice outside
it. `CheckoutsApart`: two checkouts between the aggregate and the reservation (the limit that
was read is still right when it is used, `LimitInv`). `DeliveriesApart`: two deliveries between
read and update (`PurchaseInv`: then whoever is about to send the email is alone, and the order
is past PENDING). `RefundsApart`: a refund beside one that Stripe has made and the database has
not noted (`RefundInv`: a refund is noted in the status or about to be). `PaidDuringCancel`: a
payment between the list of affected orders and the transaction (`CancelInv`: the list covers
what the transaction cancels). `PaidLate`, an order that is over becoming PAID, would let the
limit be passed and an order be refunded again. Without its window each property is
refuted: `orders_limit` does so for the limit, and the constants of `orders_faults` with
the property as the invariant for the other three.

*Isolation.* `LateWritesAreRaces`, of `Spec` itself, says that an order past PENDING changes only
by the cancellation or by a handler that read the status before (`markPaid`, `markFailed`,
`expire`, `markRefunded`). If each of these has its order to itself from the read to the write
(`Isolated`), what it read is still there (`StatusAsRead`), so every write is a transition
of `Transitions`; with the declines told in time (`DeclinesInTime`: handlePaymentFailed has no
guard) that gives `FinalIsFinal`, and no `Overwrite`, hence the exact stock and the refinement.
A lock on the order row from the read to the write would establish `Isolated`; the
code takes none. `Serial` implies every one of these hypotheses (`SerialIsApart`,
`SerialCancels`), and with one slot and no declines they hold of `Spec`
(`OneHandlerIsCorrect`): no theorem rests on hypotheses that no behaviour meets, and what
`orders_serial` checks on two orders holds for any number.

*Sessions.* `OneSuccessor` needs to know that a token being exchanged is in one
request only. `SpentHaveNoRow` says why: whoever redeems a token removed its row,
`created` tokens never get one again, so no second `Redeem` finds it. The same fact
with `loggedOut` gives `LogoutStopsExchange`. `KeepsSession` needs that only an expired
token is dropped (`DropsExpired`); the rest is what each step does to the token a client
holds (`SessionKept`).

*Cache.* `BoundedAge` is not inductive, age and TTL must be bounded together
(`AgeAndRest`): a tick takes from one what it adds to the other, and an SET starts
with the reader's wait and a whole TTL. `StaleOnlyByLateSet` is proved step by
step: each step but a late SET or a fault keeps every key fresh or in some
writer's hands.

*Catalogue.* `RowsAreThere` is inductive with `TypeOK`; the step that matters is
`DeleteEvent`, which deletes the categories of an event, none of which an order
refers to because no order refers to the event.

*Posters.* Deleting a file never takes another event's, because no two events name one file
(`FilesApart`), and a request is alone on its poster unless it met another (`OneAtATime`). So
only the deletion that precedes the write takes the file of a poster that is shown
(`DanglingComes`; `BucketWrites` names the steps that change the bucket, `OthersStay` what
they leave alone), and what is written then is stored (`UploadsAreStored`): `PosterInv` is
inductive. That nothing is forgotten also needs that the deletion really deleted
(`DeletedIsGone`), which is where MinIO is assumed; the same fact gives `OldPosterDeleted`. `UrlsAreUrls`, that a URL is neither a key
nor null, holds of the keys because they all begin with `posters/`.

*Notifications.* `AnnouncedIsShown` needs that a read includes its own handler's commit, and
that without overlap at most one handler holds a read, which is the newest
(`ReadsAreCurrent`, `OneReadAtATime`). For the emails, the copies are counted against the
attempts that threw and the stalls, by the state of the job.

*Access.* The two bounds travel with the token: `SlotOK` says of each await what its handler
may still sign, or was let in with, `HeldOK` what is left of a token its client holds, and
`HistoryOK` that an account which is ADMIN has been so until now. The histories only grow, so
what no step touches is kept (`OthersKept`, `HeldKept`); what is left are the steps that sign,
save and are admitted (`ActorKept`, `SavedHeldOK`), and that the routes are guarded as they
should be (`CatalogueIsGuarded`, `RoleWriteIsGuarded`, `OrdersAreGuarded`). `TypeOK` needs
`OwnersExist`: whose session it is has an account.

**Only model-checked:** the liveness properties (`ScheduledOrdersSettle`,
`ChargedOrdersSettle`, `Converges`, `ChangeIsAnnounced`, `MailsSettle`), since fairness and
ENABLED are out of the prover's reach, as are induction over data and RECURSIVE operators,
which no module uses. Every other property of a passing run is stated by a theorem;
`StockExact`, `TicketLimit`, `OnePurchaseMail`, `OneRefund`, `CancelledAreNotified`,
`FinalIsFinal` and `ImplementsLedger` under the hypotheses above, because of `Spec` alone they
are false.

## 6. Not modelled

* The amount of a refund (`orders.service.ts:252`) is computed in binary floating point,
  which TLA+'s integers do not have; modelled in cents it would be the definition itself.
* Throttling: the counters of `ThrottlerGuard` are a library's, in memory, and read by
  nothing else. DTO validation is stateless, as are `findByEvent`, `findMyOrders` and the
  public `findOne`s.
* Which socket each client has, and clients that connect later: the gateway emits to all
  that are connected, and keeps nothing.
* Email templates are formatting; bootstrap, seed, load tests and collections are not part
  of the running system.
