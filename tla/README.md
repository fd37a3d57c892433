# TLA+ verification of the Stripe and TrustID integration

This directory holds TLA+ models of the parts of this repository whose
correctness depends on *when* things happen: webhooks and their workers, the
mirrors of Stripe's objects in the database, the billing cycle, trust tokens and
the TrustID pipeline, sessions and rate limits, and what the web client tells a
user who pays.  TLC checks the models on small instances; TLAPS proves the safety
properties of all of them for every value of the constants.

The models are written from the code.  A comment above each definition says what
the code does there; `PROJECT.json` gives the lines.

## 1. The system

| part | what it is |
|---|---|
| `apps/api` | NestJS: REST API, cron jobs, webhook endpoints, BullMQ workers |
| `apps/webhooks` | NestJS: the same webhook endpoints and workers once more, on the same queues, with handlers of its own |
| `apps/web` | Next.js: the browser's pages, and a server that renders and calls the api in the browser's name |
| Oracle | tables `STRIPE_*`, `BILLING_RECORDS`, `TRUST_TOKENS`, `AUDIT_LOGS` (`scripts/sql`) |
| Redis | BullMQ queues, cache, refresh tokens, rate-limit counters |
| Stripe, TrustID | external; call back with webhooks, repeated and in any order |

Requests, workers and cron jobs are asynchronous functions.  Another one may run at
every `await`, in the same process or in another, and the process may die there.
No row is locked while a function works on it (there is no
`SELECT ... FOR UPDATE` and no version column in these paths), so every "read,
decide, write" is several steps.

### Components

| component | state | operations | interacts with | what makes it correct | module |
|---|---|---|---|---|---|
| Stripe webhook pipeline | event rows, jobs, dead-letter queue | `processEvent`, `execute`, `onFailed` | Stripe, BullMQ, all handlers | an acknowledged event is not lost; a skip is right; a dead job is visible | `StripeWebhooks` |
| Audit of events | `AUDIT_LOGS` | `AuditService.log` in the handlers of both apps | the pipeline | one record per event (it is not kept, see section 5) | `AuditTrail` |
| PaymentIntents | `STRIPE_PAYMENT_INTENTS` | `create`, `update`, `cancel`, `updateStatus` | Stripe, customers, handlers | no phantom row; no charge without a row; the status is true | `PaymentIntents` |
| SetupIntents | `STRIPE_SETUP_INTENTS` | `create`, `cancel`, `updateStatus` | Stripe, pages, handlers | the saved method is in the row | `Checkout` |
| Customers | `STRIPE_CUSTOMERS`, three cache keys | `create`, `find*`, `update`, `softDelete`, `sync*`, sessions | Stripe, Redis, account page | the row follows Stripe; the cache lets go of deleted customers | `Customers`, `PaymentIntents` (creation) |
| Billing cycle | `BILLING_RECORDS`, `NOTIFICATIONS` | cron `lockBillingAmounts`, `processMonthlyCharges`; dev triggers | Stripe | no process charges a record twice; an outcome is overwritten by another process only | `Billing` |
| Subscriptions, invoices | `STRIPE_SUBSCRIPTIONS` | `create`, `update`, `cancel`, `syncFromStripeEvent`, invoice handlers | Stripe, handlers | the row changes on Stripe's word or on an invoice event; a cancellation is kept | `SubscriptionMirror` |
| Payment methods | `STRIPE_PAYMENT_METHODS` | upsert, mandate, removal, `detach`, `setDefault` | Stripe, handlers | one default; a handled attachment is listed | `PaymentMethods` |
| Trust tokens | `TRUST_TOKENS`, cached verdict | create, validate, approve, deny, status; paid Checkout sessions | TrustID, guest's page | one verdict per token; nobody is told what the row never said | `TrustTokens` |
| TrustID pipeline | queue `trustid-webhooks`, S3 marks | callbacks, `pullAndStore`, failed documents, safety net | TrustID, S3, token rows | a verdict has a reason; jobs end | `TrustIdPipeline` |
| TrustID client | session, branches | `login`, `createGuestLink`, `retrieve*` | TrustID | calls may fail anywhere | steps of the two above |
| Authentication | refresh tokens in Redis, cookies | register, login, refresh, logout | Redis, browser, Next.js | a session survives; a refresh token is spent once | `Sessions` |
| Throttler | Redis counters | `increment` | Redis | a counter ends | `Sessions` |
| Web client | cookies, what a page shows | checkout, saving a card, success page, account, guest's page, refresh | the api, Stripe.js | the user is told the truth; nobody pays unnoticed | `Checkout`, `Sessions`, `TrustTokens`, `Customers` |
| Reporting, notifications, health, metrics, e-mail, S3, encryption, validation | none, or append-only | | | output, pure functions, or one request at a time | none |

### What is hard

* **Interleaving.** Deliveries of one event overlap; both apps' workers take jobs
  of the same queue; requests with one idempotency key overlap; two tabs and the
  server of Next.js refresh one session.
* **Partial failure.** Stripe succeeds and the database fails, or the other way
  round; catch blocks contain calls that fail in turn, or swallow what they catch.
* **Crashes.** A worker dies with a job in hand; the api dies between a
  charge and its record; a cron time passes with no process alive.
* **Ordering.** Events are retried one by one and handled in any order.
* **Stale state.** Copies of rows in Redis, in forms and in variables outlive the row.
* **Differences of the apps.** The two apps have handlers of their own for one
  queue; which of them gets a job decides what happens.
* **Several processes.** PM2 runs one api process per core (`ecosystem.config.js`), and
  each has the cron jobs.
* **Calendar.** Billing queries compare months; the charge runs once a month.

`PROJECT.json` lists each hazard at its line, with the properties that would
catch it, or the reason why none does.

## 2. The modules

| module | role | proofs |
|---|---|---|
| `WebhookInbox` | abstract: what the pipeline promises Stripe about an event | |
| `StripeWebhooks` | the pipeline; implements `WebhookInbox` | `PipelineProofs` |
| `AuditTrail` | composed with the pipeline: extends `StripeWebhooks` by the audit entries of its handlers | `PipelineProofs` |
| `PaymentIntents` | creating, paying and cancelling a payment, with its customer | `PaymentIntentsProofs` |
| `Billing` | the billing cycle over a calendar | `BillingProofs` |
| `SubscriptionMirror` | the rows of subscriptions and their four writers | `SubscriptionMirrorProofs` |
| `Customers` | the row of a customer behind its cache | `AccountProofs` |
| `PaymentMethods` | the rows of payment methods, events against requests | `AccountProofs` |
| `TrustTokens` | one trust token, its cached verdict and the guest's page | `TrustProofs` |
| `TrustIdPipeline` | TrustID's callbacks, the jobs they become, the safety net | `TrustProofs` |
| `Sessions` | browser, Next.js, refresh tokens and the throttler over Redis | `SessionsProofs` |
| `Checkout` | from the pages to the intents and back: paying and saving a card | `CheckoutProofs` |
| `MC...` | model values for TLC | |

Most modules hold named faulty variants of a few definitions, each before its
original.  No specification uses them: substituting one for its original must make
TLC report the property it is meant for, which shows that the property can fail.

### StripeWebhooks

A *delivery* is one HTTP request by Stripe; `EventOf` says which event it carries.
Signature checking comes first and is left out: a delivery that fails it changes
nothing.

| model | code |
|---|---|
| `row[e]` | `STATUS` of the row with `STRIPE_EVENT_ID = e` (unique) |
| `pc[d]` | where the request for delivery `d` waits in `processEvent` |
| `job[d]`, `attempts[d]`, `stalls[d]` | the BullMQ job that `d` enqueued |
| `dlqDue[d]`, `dlq[d]` | calls of `dlq.add` under way, entries written |
| `handled` | deliveries whose job ran the event's handler to its end |
| `Find`, `Insert`, `UpdateForRetry`, `Enqueue`, `Respond` | the awaits of `processEvent`, in order |
| `FailDelivery` | any of them throws, or the process dies: no 200 |
| `RunHandler` ... `MarkFailedThrows` | the awaits of `execute` and its catch block |
| `TakeJob`, `CompleteJob`, `FailAttempt`, `StallJob`, `StallOut` | BullMQ (external) |
| `DlqAdd`, `DlqLost` | `onFailed` after it decided |

BullMQ is modelled by what the code relies on: it counts the attempt *before* the
`failed` event, retries while attempts are left, and re-runs a job whose worker died
`MaxStalls` times before failing it for good. It keeps its jobs: the eviction
policy of the production Redis (`docker-compose.prod.yml`) is a hazard outside
the model. The workers of the two apps are one pool of `WorkerSlots`.

### PaymentIntents

| model | code |
|---|---|
| `pc[r]` | where request `r` waits in `PaymentIntentsService.create` and, inside it, `CustomersService.create` |
| `answer[k]` | what Stripe first answered to idempotency key `k`, which it replays |
| `intent[k]`, `customer[k]` | the objects at Stripe made with key `k` |
| `piRow[k]`, `customerOf[u]` | the local rows |
| `deleting` | deletions of customers that were sent off without `await` |
| `events` | Stripe's events of PaymentIntents not handled yet, a set: any order |
| `cancelling` | `cancel` between Stripe and the database |
| `withdrawn` | history: payments a user cancelled, for a property |

Objects are named by the idempotency key that made them, which is what makes a
repeat meet the object of the first request. `Fail` lets a request end at any
await; `InsertLost` and `CustomerInsertLost` are inserts that were committed but
reported as failed. The Redis cache of customers, soft deletion and metadata
updates are left out (`Customers` has the cache).

### Billing

| model | code |
|---|---|
| `status[r]`, `period[r]` | `STATUS` and the month of `PERIOD_DATE` |
| `month`, `day`, `hour`, `Tick` | the cron times, two a day (03:00 and 17:00) |
| `due[p]` | the cron jobs that have fired in process `p` and have not started |
| `lockIds[p]` | what `p`'s lock run has read and not written yet |
| `step[c]`, `found[c]`, `rest[c]`, `cur[c]` | the loop of `processMonthlyCharges` in a process, or of a dev trigger |
| `accepted[c][r]` | history: PaymentIntents that Stripe accepted from `c` for `r` |

Production runs one api process per core, and `ScheduleModule` starts the cron jobs in
each: every process of `Processes` locks and charges, and nothing keeps two of them from
the same records.  A job that has not started by the next cron time, or whose process
crashed, is missed by that process.  The loop takes its records in any order (the
query has no `ORDER BY`).  A charge is accepted, declined, or accepted with its answer
lost; *accepted* is a PaymentIntent that was returned: the code does not look at its
status.  The dev-only trigger shares the actions of a charge and may charge at any time;
`DevTriggers = {}` is production.  `Tick` assumes that a lock run (two statements) ends
before the next cron time and that a charge run ends within its month.

### AuditTrail

Extends `StripeWebhooks` and adds a type to each event and a count of audit entries.
Each action of `NextT` is an action of the pipeline; the one in which a handler
returns (`RunHandlerT`) writes the entry that the app of the worker writes for
this type, or loses it (`AuditService.log` swallows its errors).  The sets
`...InApi` and `...InWebhooks` are the `case` labels with an entry of the two apps'
handlers, `RegisteredIn...` their registries.  The policy of `CONTEXT.md` is a property that
the run shows violated; what remains true of the trail is proved (`TrailIsExplained`).

### SubscriptionMirror

| model | code |
|---|---|
| `stripe[s]`, `answer[s]`, `origin[s]` | the subscription at Stripe, what its key replays, who made it |
| `row[s]`, `known` | `STATUS` of the row; whether the customer has a row |
| `pc[r]`: `FindCustomer` ... `Insert`, `InsertFails` | the awaits of `create`; `CleanUp` is the cancellation that its catch block does not await |
| `replies`: `Update`, `Cancel`, `WriteReply`, `LoseReply` | `update` and `cancel`: Stripe first, then the row |
| `events`, `hand[w]`: `Take`, `SyncFind` ... `InvoiceSet` | the jobs of snapshots and invoices in a worker of either app |
| `Swallowed`, `InvoiceSwallowed`, `Throws` | errors that end a job as done, and those that make it fail |
| `SetsInApi`, `SetsInWebhooks` | which status an invoice event sets, given the one that was read |
| `reported[s]`, `invoiced[s]` | history: the statuses that Stripe has stated in snapshots and answers; the invoice events it has sent |

An invoice event states no status of the subscription: `active`, `past_due` and `unpaid`
are what the handlers make of it, and `reported` does not grow by them.

### Customers

Every call of the service is a *route*: a sequence of steps at Redis, the
database and Stripe (`Find`, `Update`, `Sync`, ...).  `call[c].at` is the rest of the
route of call `c`, `got` the copy its last lookup returned, `saw` what Stripe, or the
form of the account page, shows.  A step goes on, ends the call, or fails.
The row is cached under three keys (id, Stripe's id, user), each with its own copy;
`Evict` deletes the ones the code deletes.  A form sends back the name and phone it
was loaded with, unless they are empty (`Edit`, `Named`).  `EditInDashboard` and
`DeleteInDashboard` are changes made at Stripe, which send events.

### PaymentMethods

| model | code |
|---|---|
| `card[p]`, `sent` | the payment method at Stripe, the events about it in their order |
| `job[e]`, `tries[e]`, `step[w]` | the jobs and the steps of the workers of both apps |
| `row[p]`, `made[p]` | the row; a row that was inserted again has a new id |
| `Select`, `UpdateFields`, `InsertNew`, `Upsert` | the api's upsert (find, then update or insert) and the one of the webhooks app |
| `NotFoundInApi`, `UnknownInWebhooks` | the lookup of the customer throws: the api ends the job as done, whatever the error was; the webhooks app fails it |
| `dropped` | history: the events whose job ended that way in the api |
| `Retrieve`, `Of` | a mandate event fetches its payment method from Stripe |
| `Clear`, `SetDefault`; `Detach`, `DeleteRow` | the requests of the owner, two calls each |

### TrustTokens

| model | code |
|---|---|
| `making`, `links`, `resource` | the login, the guest link and the row in `createGuestLink` |
| `row`, `cache`, `late` | `STATUS`, the verdict in Redis, the deadline |
| `step[r]`, `found[r]` | where request `r` waits in `validateTrustToken`, `approve`, `deny` or `getStatus`, and what it has read |
| `Get`, `Put` | Redis: `RedisService` swallows its errors, so a failed read is a miss and a failed write is skipped |
| `page`, `polling`, `Show` | the state of the guest's page, whose interval ends with the first end it is told |
| `kind[r] = "checkout"` | a job for `checkout.session.completed`, which may run again |
| `TrustIdWrites` | the pipeline's writes: any status, never the cache |

### TrustIdPipeline

| model | code |
|---|---|
| `event[m]`, `job[m]`, `worker[m]`, `attempts[m]`, `seen[m]` | a callback, the job it becomes, who has it, what it has retrieved |
| `StartArrives` ... `StrayArrives` | the branches of `TrustIdWebhookController`; a job may be lost because `queue.add` is not awaited |
| `Find`, `Retrieve`, `UpdateStatus`, `MarkCollected` | `pullAndStore`; marking is the api's alone |
| `SessionAccepted`, `RetrieveDocumentContainer` | `retrieveDocumentContainer`: TrustID may refuse the session, or answer without a container, which is passed on as a blank one |
| `Guesses` | what an app writes as `approved` because it has nothing to read: a code it does not know, or a blank container |
| `JobFails`, `Forgets` | a failed attempt: the next one starts with nothing of it |
| `CheckAlert`, `ReadRetries`, `MakeRetryLink`, `RecordRetry` | the handler of failed documents |
| `ApiTable`, `WebhooksTable` | how each app reads TrustID's codes |
| `Reenqueue` | the safety net's cron |

`TrustTokens` and `TrustIdPipeline` meet in the row of a token.  Each has the other's
writes as an action that may write whatever the other may (`TrustIdWrites`,
`GuestWrites`), which is more than the composition could do.

### Sessions

| model | code |
|---|---|
| `jar`, `page` | the cookies of the browser, the app or a form |
| `issued`, `stored`, `up` | refresh tokens, those that Redis holds, whether Redis answers |
| `hits`, `timed`, `blocked` | the keys of the throttler |
| `pc[c]`, `doing[c]`, `sent[c]`, `fresh[c]` | a caller in a tab or on the server of Next.js |
| `CallFromTab`, `CallFromServer`, `SendRefresh` | `api-client.ts`: a 401, the refresh, the repeat |
| `Count`, `FirstHit`, `Limited` | `increment`: INCR, EXPIRE and the block |
| `Validate`, `Revoke`, `FindUser`, `Ping`, `Store`, `AnswerRefresh` | `AuthService.refresh`, one await each |
| `SignOut`, `RevokeAtLogout`, `ClearCookies` | the server action that logs out |
| `Breaks`, `RedisFails` | a failing await, an outage |

`PerUserThrottlerGuard` is registered before `JwtAuthGuard` (`app.module.ts`),
so `req.user` is never set when it picks a tracker: `Tracker` is the address.

### Checkout

One user who pays (`mode = "payment"`) or saves a card (`"setup"`). `view`, `current`,
`shown` and `errors` are the page, `inForm` the error of the form on it; `api` the
request that creates an intent; `intent` and `reply` Stripe and its answer to a
confirmation; `row`, `method`, `events`, `job` and `cancels` the api and the workers.
`Declines` ... `SetupMessage` are `stripe-errors.ts`, reduced to what a message claims
about the charge; `Verdict` and `Fallback` are the page that the bank returns to. A
message is kept in two places: `Submit` and `Edit` clear the form's, "Try again"
clears the page's, and neither clears the other's. `told` and `doubt` are history
variables: the intents that the user was told about, and those whose state the user
cannot know.

## 3. The runs

| run | question | answer |
|---|---|---|
| `stripe_webhooks` | is an event lost, forgotten, wrongly skipped, or left unsettled after a 200; is `WebhookInbox` implemented? | no; yes |
| `audit_trail` | has every processed event one audit record, as `CONTEXT.md` says? | **no**: it depends on which app's worker gets the job |
| `payment_intents` | phantom rows, unrecorded charges, false ends, last event lost? | none |
| `payment_intents_voided` | is a repeated request safe, as ADR 0003 says? | **no**: an insert whose answer is lost has its payment cancelled, and the repeat is answered with it |
| `billing_cycle` | charged twice, outcome overwritten, run incomplete? | not by one process; by another process that had found the record too; no |
| `subscription_mirror` | on what grounds does a row change; do snapshots heal; does a cancellation stay? | Stripe's word or an invoice event; in the webhooks app; yes if it is the last word |
| `customers` | does the row run ahead of Stripe; is a deleted customer served for ever? | no; no |
| `payment_methods` | two defaults; an attached method without a row? | only when two requests overlap; only if the api's lookup of the customer failed |
| `trust_tokens` | do the cache or the page say what the row never said; a second verdict after a verdict? | no; only to a request that began before |
| `trustid_pipeline` | a verdict without a reason; a job without an end? | only by the app that cannot read TrustID's codes, or from an answer without a container; no |
| `sessions` | when is a session lost, a refresh token spent twice, a counter without an end? | see below |
| `checkout` | is a user told something false, charged unnoticed, a saved method lost? | see below |

### Properties

* `ProcessedWasHandled`: `processEvent` trusts the status `processed`; nothing sets
  it unless the handler ran.
* `AckedIsAccounted`: after a 200 Stripe does not call again, so a job must
  exist or the work be done.  `ImplementsInbox` adds that it is done in the end, or
  its death is visible.
* `NeverForgotten`: a row left pending or failed always has a request, a job or
  a repeat by Stripe that answers for it.
* `ExhaustedGoesToDlq`: a job that uses up its attempts has its DLQ entry under way.
* `OneRecordPerEvent` is violated.  The shortest way is an event that only the webhooks
  app records and whose job an api worker takes; a repeat, a failed attempt or a lost worker
  make two records.
* `ReturnedIsNotVoided` is violated.  The insert of the first request is committed and
  its answer lost, the catch block cancels the PaymentIntent, and the repeat finds
  the row and returns the secret of a cancelled payment.
* `NoPhantomRow`, `ChargeHasRow`, `RowEndIsTrue`, `LastWordIsRecorded`: local rows
  against Stripe, under every failure between the two.  The last two are what
  remains true although events come in any order: a row never shows an end
  that did not happen, and a success handled last is never overwritten.
* `ChargedOncePerProcess`: there is no idempotency key on the charge; what keeps one
  process from charging twice is that no query finds a paid record of an earlier month
  again.  This is also why records are stranded: removing the month filter alone would
  charge twice (that is the faulty variant the property is validated with).  Two
  processes may each charge a record; `Billing` has no property against it because the
  code has nothing against it.
* `OutcomeChangesByPeersOnly`, `LeftBehindIsSettled`: the lock run never undoes a charge,
  an outcome is overwritten only by another process that had found the record
  too, and what a run has come to is settled, as long as it goes on.
* `RowChangesHaveGrounds`: requests, snapshots and invoice events overwrite each other in
  any order, so a row may be out of date.  It changes to a status that Stripe has stated,
  or to the one an invoice handler assumes from an event it has; a cancellation that a
  handler has read is overruled by `invoice.payment_succeeded` in the webhooks app and by
  nothing else (the faulty variant lets `invoice.paid` do it too).
* `SnapshotLeavesRow`, `CancellationIsRecorded`: a snapshot handled by the webhooks app
  leaves a row, and a cancellation that comes last stays.
* `RowFollowsStripe`, `DeletionTakesHold`: an update merges what it read, a form sends
  back what it showed, and caches are filled after they were emptied; all the same no value
  appears that was never at Stripe, and the copies of a deleted customer die out.
* `OneDefaultUnlessRaced`, `HandledIsListed`: rows that are deleted and inserted
  again, by two apps, between the two statements of a request.  The one exit that leaves an
  attached method without a row is named: the api's catch around the lookup.
* `BelievedWasTrue`, `SettledOnce`: a cached approval is believed for an hour,
  but `approve` and `deny` read the row again: that second look is what lets a
  verdict bar later ones, and the faulty variant drops it.
* `VerdictHasReason`, `JobsSettle`: whoever wrote last, a denial was meant by
  somebody; the exception is named in the property, as it is what the code does.
* `SessionSurvives`, `SpentOnce`, `CounterEnds`: each names the ways in which the code
  loses a session, spends a token twice or leaves a counter behind, and shows that
  there are no others: refreshes on the server of Next.js whose cookies go
  nowhere, failures between the deletion and the new token, two overlapping
  refreshes, a lost EXPIRE.
* `ToldTheTruth`, `NoSilentCharge`, `MethodIsKept`: messages about a charge are right
  unless an answer is missing, a redirect returned before the event was
  handled, the user left, or the page still shows the error of the last confirmation
  while the next one runs; the saved method is lost only to a handler that read
  the row before it was there.

`TypeOK` is there for each module; it is the first conjunct of the invariants of
section 4.

### Bounds

* Webhooks, audit trail: a delivery and a repeat of it, two workers, two attempts, one
  stall; the event of the trail is a successful payment.  Events share no state, so one event is enough, and two workers are enough
  for jobs of one event to overlap.
* Payments: three requests over two keys of one user: two that repeat each other and one
  that follows.  Users share no state.
* Billing: two processes, a dev trigger, two records, two months of two days with the charge
  on the second, so that records are created before, on and after the charge, and a
  lock follows a charge.  Records and processes are interchangeable.
* Subscriptions: one subscription (rows share no state but the customer), a request that
  is repeated with its key, a worker of each app, two snapshots and an invoice event
  of any type, two attempts.
* Customers: every pair of the seven operations and one change in the Dashboard.
  Two calls are enough for each to stand between any two steps of the other.
* Payment methods: two methods, so that there can be two defaults; two events with two
  attempts, a worker of each app, two requests.
* Trust tokens: two requests of any kind, begun again as often as wanted; requests are
  interchangeable.
* TrustID pipeline: two messages of any kind, two attempts, one retry link.
* Sessions: two tabs and the server, three requests that may end with a token, one fault, a
  limit of one (two for refreshes), so that limits are reached.
* Checkout: two intents, two confirmations, two workers, one fault; amounts on either
  side of the minimum.
* `CHECK_DEADLOCK FALSE` everywhere: deliveries, requests, events and the calendar are
  finite in a model, so it may stop when they are used up.

### Fairness

* `StripeWebhooks`: weak fairness of each request, each job's worker and each
  `dlq.add`: a request that was accepted runs on, BullMQ workers poll for ever,
  delayed and stalled jobs come back.  It does not say which way a step goes: every
  call may fail each time.  Nothing is assumed of Stripe.
* `PaymentIntents`: weak fairness of handling each pending event, which
  is what the pipeline shows (a job that dies visibly is outside).
* `SubscriptionMirror`, `TrustIdPipeline`: weak fairness of each worker, or each job.
* `Customers`: weak fairness of each call, whose steps return or throw, and of the
  expiry of each key: `redis.set` is always given a time to live there.
* `Billing`, `TrustTokens`, `PaymentMethods`, `Sessions`, `Checkout` and `AuditTrail`
  have safety and action properties only, and no fairness.

## 4. The proofs

Everything below is proved for arbitrary constants that satisfy the assumptions of
its module, not for the bounds of section 3.  The assumptions say that sets
of events, requests or workers are finite, that actors of two kinds are distinct, and
that bounds are natural numbers (a limit of attempts, or of rows, positive).

| module | inductive invariant | theorems |
|---|---|---|
| `StripeWebhooks` | `IInv` in `PipelineProofs` | `TypeCorrect`, `PayloadAlwaysFound`, `SkipIsSafe`, `AckedNeverLost`, `NothingForgotten`, `ExhaustedReported`, `PipelineImplementsInbox` |
| `AuditTrail` | `IInvT` and `RecordsAreFew` in `PipelineProofs` | `ImplementsPipeline`, `TypeCorrectT`, `RecordsNeedRuns`, `TrailIsExplained` |
| `PaymentIntents` | `IInv` in `PaymentIntentsProofs` | `TypeCorrect`, `NoPhantoms`, `ChargesAreRecorded`, `RowEndsAreTrue` |
| `Billing` | `IInv` in `BillingProofs` | `TypeCorrect`, `ChargedOnceEach`, `ChargedOnceByOneProcess`, `ChargedMeansAccepted`, `OutcomeChangedByPeers`, `OutcomeFinalInOneProcess`, `RunsSettle` |
| `SubscriptionMirror` | `IInv` in `SubscriptionMirrorProofs` | `TypeCorrect`, `RowsChangeWithGrounds`, `SnapshotsLeaveRows` |
| `Customers` | `CustomerIInv` in `AccountProofs` | `CustomerTypeCorrect`, `RowFollows` |
| `PaymentMethods` | `IInv` in `AccountProofs` | `TypeCorrect`, `OneDefault`, `HandledListed` |
| `TrustTokens` | `IInv` in `TrustProofs` | `TypeCorrect`, `BeliefsWereTrue`, `SettledForGood` |
| `TrustIdPipeline` | `PipelineIInv` in `TrustProofs` | `PipelineTypeCorrect`, `VerdictsHaveReasons`, `MarkedByTheApi` |
| `Sessions` | `IInv` in `SessionsProofs` | `TypeCorrect`, `SessionsSurvive`, `TokensSpentOnce`, `CountersEnd` |
| `Checkout` | `IInv` in `CheckoutProofs` | `TypeCorrect`, `PagesTellTheTruth`, `NobodyChargedSilently`, `MethodsAreKept` |

The pattern is the same in each: one lemma per conjunct of the invariant, one case per
action in each lemma, then that `Init` implies it and `[Next]_vars` keeps it, and the
temporal step.  TLC checked each inductive invariant before it was proved.  What the
properties alone do not say, and the invariants add:

* **PipelineProofs.**  A request between `Find` and `Enqueue` relies on the row staying
  there, a job between the handler and `markProcessed` on the handler having run, and a
  job that completes must leave a processed row or another that answers for it.
  `PayloadAlwaysFound` is what `getPayload` takes for granted when it dereferences
  the row.  `PipelineImplementsInbox` is the safety half of the refinement: a step about
  one delivery leaves the abstract status of the other events alone (`OtherStatus`),
  moves its own event's along one arrow of the inbox or not at all (`RequestMoves`,
  `WorkerMoves`), and acknowledges only an event with work or none left to do
  (`RespondIsStep`).
* **PipelineProofs, audit trail.**  A behaviour of the trail is one of the pipeline, so
  that the theorems above hold for it.  That there are at most as many entries as runs
  of handlers (`RecordsNeedRuns`) would take a sum over deliveries, and a sum takes
  induction; instead the runs are *counted as a set*, of pairs of a delivery and
  the number of a run of it (`RunsOf`), to which each step adds a pair at most once
  (`PairsGrow`) while it writes at most one entry (`StepFew`).  `TrailIsExplained` says
  how far the trail can be relied on: no record without a run of its own, and none missing
  but for a failed insert or a type that not both apps record.  Both theorems assume
  that the set of deliveries is finite.
* **PaymentIntentsProofs.**  What exists by the time a request has reached each step; a
  payment under way has its row, because the client gets the secret only from a request
  that returned; an event which reports an end is true however late it is handled.
* **BillingProofs.**  Each step of a run is tied to the status of its record: what
  a lock run has read is still pending when it is written, because the charge run
  touches locked records only; what a charge run has found belongs to the current month,
  so that it finds a record in one run at most; an outcome of a record that a run has
  still to write was written by another process that had found it too.  With one process
  there is no such other: `ChargedOnceByOneProcess` and `OutcomeFinalInOneProcess` assume
  `Processes = {p}`, and say what the code promises where it runs once.
* **SubscriptionMirrorProofs.**  A snapshot, a job in hand, a reply or the first answer
  of a key carries a status which Stripe has stated, an invoice event a type which
  it has sent, and a handler sets a status only where its event and what it has read say
  so (`SetsAssumed` and the lemmas after it).
* **AccountProofs, PaymentMethods.**  A worker that has seen a row and is about to update
  it still finds one, unless the method was detached (`WorkerFits`): that is what
  makes a handled event leave a row although requests delete rows.  The jobs that
  the api ended without a customer are remembered (`dropped`), and are the only others.  A request
  between the two statements of `setDefault` finds no default among the rows, and is alone
  there unless two requests overlapped (`SetsAlone`); nothing an event does makes one.
* **AccountProofs, Customers.**  Every copy of the row, in the database, under any of the
  three keys, or in the hand of any call, is made of values that Stripe has had
  (`CopiesHeld`).  A call has in hand what its next step uses (`CallFits`); as the
  calls are routes of up to fifteen steps, there is a lemma for each piece a route is
  joined from, and one for each route, and the steps are proved once for all
  routes.  The row is deleted only after the customer at Stripe (`GoneFirst`).
* **TrustProofs, TrustTokens.**  What was read from the row is followed to the cache and the
  page (`CarriedWasTrue`), and a request that began after a verdict does not get past
  the second reading (`BarredStaysOut`).
* **TrustProofs, TrustIdPipeline.**  An end which a job has seen is final at TrustID, a job
  that writes has seen the container, and only the api's marks (`JobHasSeen`).
* **SessionsProofs.**  The types already need an argument: hits and tokens are
  bounded because every request is counted once and gets one token, so the callers
  still to be counted, and those still to be served, are added to the bound
  (`OncePerRequest`).  Nobody knows a token before it is issued, one on its
  way to the browser is known to its caller only, and one that is not excused has at
  most one holder, that deletes it before it is used.
* **CheckoutProofs.**  What a user has to know is decided at Stripe and told some steps
  later.  Of every intent that may cost money the user was told, cannot know, or is
  still at a page that will tell (`CostIsKnown`, `SentIsKnown`); the form says nothing
  while its confirmation runs, and the page repeats what the last one came to
  (`SaysItsPlace`).  `MethodsAreKept` needs that the row of a SetupIntent
  which succeeded names its method already (`SavedIsNamed`).

Every invariant and every action property of the passing runs is stated by one of these
theorems.  Only model-checked are the liveness properties, which are out of the
prover's reach: `LastWordIsRecorded`, `CancellationIsRecorded`, `DeletionTakesHold`,
`JobsSettle`, and the fairness half of `ImplementsInbox`.

## 5. Where code and documents disagree

Two disagreements have a run (`payment_intents_voided`, `audit_trail`).  The others were met while
the code was translated; where a property has to make an exception for one of them, it
names it.

* `CONTEXT.md`, policy 3, says duplicate events are silently skipped.  A repeat that arrives before
  the first job has finished runs the handler again.
* `onFailed` logs "exhausted all retries", but counts one attempt too many: entries go
  to the dead-letter queue one attempt early, with the Stripe jobs as with TrustID's.
* ADR 0003, point 2, has webhooks heal rows.  The api's workers, which take jobs
  from the same queue, end a snapshot whose customer is unknown, or whose insert failed, as
  done.
* `CONTEXT.md`, policy 5, has one audit record per event.  The api's handlers of
  payments, set-ups, subscriptions and payment methods, and of `charge.refunded`,
  write none.
* The api reads TrustID's codes as names (`APP_REJECTED`), the webhooks app as numbers
  (`500`), and each writes `approved` for a code it does not know: a check that TrustID
  rejected is written as approved when the wrong app has the job.
* `retrieveDocumentContainer` turns an answer without a container into an empty one and
  does not ask whether the call succeeded; the workers of both apps find no code in it and write
  `approved`.
* `CustomersService.create` deletes a customer "to prevent orphans" that another
  request's row may name.  A `processing` event handled late overwrites `succeeded`.
* "Charge all locked billing records": only those of the current month are found.
* `ecosystem.config.js` runs the api in PM2's cluster mode with one process per core, and each
  has a scheduler: on the 5th every process reads the same locked records and charges
  them without an idempotency key, and the later one overwrites the outcome.
* `processMonthlyCharges` marks a record charged when Stripe returns a PaymentIntent,
  whatever its status is.
* The invoice handlers set `active`, `past_due` or `unpaid` on their own account;
  `invoice.payment_succeeded` makes a cancelled subscription active again in the
  webhooks app.
* `upsertFromStripeEvent` of the api catches whatever the lookup of the customer throws and
  returns: the event counts as processed and the payment method has no row.  The one of
  the webhooks app throws.
* `CheckoutForm`, and the page of payment methods, keep the last error on the screen while
  the next confirmation runs: "No charge was made" may be shown when Stripe has
  charged already, until the answer is there.
* `redis.service.ts` says of a failed `EXPIRE` that the "throttler will retry on next
  request"; the throttler sets it after the first hit only, and the counter never
  ends.
* `api-client.ts` refreshes on the server, where the new cookies reach nobody;
  `middleware.ts` sends a user with a valid refresh token to the login page.
* `PaymentForm` counts `processing` among the successes and shows it as an error.
* The page of payment methods calls `PATCH /payment-methods/:id/default` and
  `DELETE /payment-methods/:id/detach`, which the api does not have.  These
  buttons are therefore no requests of `PaymentMethods`.
* The guest's page says it will update, and stops polling at `submitted`.
* The account form cannot clear a name (`name || undefined`), and writes fields that
  were not edited back as they were loaded.
* `checkout.session.completed` approves a token whatever the `payment_status`.

## 6. Plan

Done: the modules above, and a theorem for every invariant and every action property
of the runs.  Next, in this order:

1. `TrustTokens` and `TrustIdPipeline` composed over one row, so that `TrustIdWrites`
   and `GuestWrites` become each other's actions;
2. an abstract mirror that `SubscriptionMirror` and `PaymentIntents` both implement.

No module uses a `RECURSIVE` operator, so that all can be proved about.

## 7. Not modelled

* Output: reporting, the notifications other than the billing one (marking them read
  included), health, metrics, logging, e-mail, S3, the interceptor that audits HTTP
  requests.  Where they can fail, the failure is a step of the caller.
* Pure functions and one request at a time: encryption, configuration, migrations,
  validation, ownership checks, error formatting.
* The eviction policy of the production Redis (`docker-compose.prod.yml`,
  `allkeys-lru`), under which BullMQ may lose jobs: no promise of the pipeline
  survives it.
* The column `METADATA` of customers, which an update replaces as a whole.
* In the web client: lists, dashboards, dev tools; a double click on "Add Payment
  Method".
* The cached session of the TrustID client (only whether a call is accepted with it is
  modelled), branches and flexible fields; a
  `resourceId` given by a caller, which hides the container from the pipeline
  (`resource` in `TrustTokens` has the case, the pipeline begins after it).
* Code that nothing calls: `linkContainerId`, `expireStale`, `TrustIdResultHandler`,
  the payment methods' `syncFromStripe`, the services of the webhooks app that only a
  controller would call.
* ADR 0003's reconciliation backfill is not in the code.

## 8. Running

    tlc -workers 2 -config Customers.cfg MCCustomers
    tlapm PipelineProofs.tla

`PROJECT.json` lists each run with its module and configuration.
