--------------------------- MODULE SubscriptionMirror ---------------------------
(***************************************************************************)
(* STRIPE_SUBSCRIPTIONS as a mirror of the subscriptions at Stripe.  Four  *)
(* writers share a row and none of them locks it: the requests of users    *)
(* (SubscriptionsService.create, update, cancel: Stripe first, then the    *)
(* row), the snapshots that customer.subscription.* events carry           *)
(* (syncFromStripeEvent), and the invoice events, which read the status    *)
(* and then set one of their own (InvoiceHandler).                         *)
(*                                                                         *)
(* The workers of both apps take the events from one queue, in any order,  *)
(* and the two apps differ: the api worker drops the snapshot of a         *)
(* subscription whose customer it does not know and ignores                *)
(* invoice.payment_succeeded; the webhooks worker throws, so that the      *)
(* event is tried again.  Every await is a boundary between two actions.   *)
(*                                                                         *)
(* Stripe is external: one subscription per idempotency key, whose first   *)
(* answer it replays; "canceled" is final.  "incomplete" stands for every  *)
(* status with no rule of its own (incomplete, trialing, paused).          *)
(* Abstracted: periods, trials, prices of a running subscription, the      *)
(* default payment method, metadata, audit records; invoice events that    *)
(* are only logged; deletion of customers.                                 *)
(***************************************************************************)
EXTENDS Naturals, FiniteSets

CONSTANTS
  Subs,         \* subscriptions, each named by the idempotency key that makes it
  PlanOf,       \* PlanOf[s]: the customer and the price of s, together
  Requests,     \* calls of POST /subscriptions
  SubOf,        \* SubOf[r]: the key that request r carries
  Workers,      \* BullMQ workers
  AppOf,        \* AppOf[w]: the app that worker w runs in
  MaxAttempts,  \* attempts of a job
  MaxMoves,     \* how many snapshots of a subscription Stripe sends (a bound)
  MaxInvoices   \* how many types of invoice events it sends of one (a bound)

ASSUME ConstantsAssumption ==
  /\ SubOf \in [Requests -> Subs]
  /\ AppOf \in [Workers -> {"api", "webhooks"}]
  /\ MaxAttempts \in Nat \ {0} /\ MaxMoves \in Nat /\ MaxInvoices \in Nat

VARIABLES
  origin,    \* origin[s]: who makes s; "planless" is a local reference without a price
  stripe,    \* stripe[s]: status of s at Stripe
  moves,     \* moves[s]: how many snapshots of s Stripe has sent
  answer,    \* answer[s]: the status in Stripe's first answer for key s
  row,       \* row[s]: STATUS of the row of s, "none" when there is no row
  known,     \* is there a row of the customer who subscribes?
  pc,        \* pc[r]: the next step of request r
  replies,   \* <<s, status>>: Stripe's answers to update and cancel, to be written
  cleaning,  \* subscriptions whose cancellation was sent off without await
  events,    \* events that wait for a worker
  hand,      \* hand[w]: the job of worker w
  dead,      \* subscriptions of which a job has failed for good
  reported,  \* reported[s]: the statuses that snapshots and answers have stated (history)
  invoiced   \* invoiced[s]: the types of the invoice events sent for s (history)

requestVars == <<pc, replies, cleaning>>
jobVars     == <<events, hand, dead>>
stripeVars  == <<origin, stripe, moves, reported, invoiced>>
vars == <<origin, stripe, moves, answer, row, known, pc, replies, cleaning, events, hand,
          dead, reported, invoiced>>

Live   == {"incomplete", "active", "past_due", "unpaid"}
Status == Live \cup {"canceled"}

InvoiceTypes == {"succeeded", "failed", "paid", "uncollectible"}

\* An event: a snapshot, or an invoice event, which carries no status.
Event ==
  [sub : Subs, type : {"sync"}, status : Status, tries : 0 .. MaxAttempts - 1]
    \cup [sub : Subs, type : InvoiceTypes, status : {"none"},
          tries : 0 .. MaxAttempts - 1]

Idle == [step |-> "idle"]

Job == [step : {"find", "insert", "update", "set"}, event : Event,
        seen : Status \cup {"none"}]

TypeOK ==
  /\ origin \in [Subs -> {"request", "dashboard", "planless"}]
  /\ stripe \in [Subs -> Status \cup {"none"}]
  /\ moves \in [Subs -> 0 .. MaxMoves]
  /\ answer \in [Subs -> Status \cup {"none"}]
  /\ row \in [Subs -> Status \cup {"none"}]
  /\ known \in BOOLEAN
  /\ pc \in [Requests -> {"customer", "lookup", "stripe", "saved", "insert",
                          "returned", "failed"}]
  /\ replies \subseteq Subs \X Status
  /\ cleaning \subseteq Subs
  /\ events \subseteq Event /\ dead \subseteq Subs
  /\ hand \in [Workers -> Job \cup {Idle}]
  /\ reported \in [Subs -> SUBSET Status]
  /\ invoiced \in [Subs -> SUBSET InvoiceTypes]

Init ==
  /\ origin \in [Subs -> {"request", "dashboard", "planless"}]
  /\ stripe = [s \in Subs |-> "none"] /\ moves = [s \in Subs |-> 0]
  /\ answer = [s \in Subs |-> "none"]
  /\ row = [s \in Subs |-> "none"]
  /\ known \in BOOLEAN
  /\ pc = [r \in Requests |-> "customer"]
  /\ replies = {} /\ cleaning = {}
  /\ events = {} /\ dead = {}
  /\ hand = [w \in Workers |-> Idle]
  /\ reported = [s \in Subs |-> {}] /\ invoiced = [s \in Subs |-> {}]

-------------------------------------------------------------------------------
(* Stripe.                                                                     *)

New(s, type, state) == [sub |-> s, type |-> type, status |-> state, tries |-> 0]

Sends(s, type, state) ==
  /\ events' = events \cup {New(s, type, state)}
  /\ UNCHANGED <<origin, hand, dead>>

\* s gets the status state at Stripe, which says so in a snapshot.
Becomes(s, state) ==
  /\ moves[s] < MaxMoves /\ moves' = [moves EXCEPT ![s] = @ + 1]
  /\ stripe' = [stripe EXCEPT ![s] = state]
  /\ Sends(s, "sync", state)
  /\ reported' = [reported EXCEPT ![s] = @ \cup {state}]
  /\ UNCHANGED invoiced

\* Something becomes of an invoice of s: the event does not say what becomes of s.
Invoices(s, type) ==
  /\ Cardinality(invoiced[s]) < MaxInvoices
  /\ Sends(s, type, "none")
  /\ invoiced' = [invoiced EXCEPT ![s] = @ \cup {type}]
  /\ UNCHANGED <<stripe, moves, reported>>

\* Payments that fail or come late, dunning, cancellation at the end of a period, in the
\* billing portal or by the dunning settings.
StripeMoves(s) ==
  /\ stripe[s] \in Live
  /\ \/ \E state \in Status \ {"incomplete"} : Becomes(s, state)
     \/ \E type \in InvoiceTypes : Invoices(s, type)
  /\ UNCHANGED <<answer, row, known, requestVars>>

\* A subscription made in the Dashboard.
MadeElsewhere(s) ==
  /\ origin[s] = "dashboard" /\ stripe[s] = "none"
  /\ Becomes(s, "active")
  /\ UNCHANGED <<answer, row, known, requestVars>>

\* POST /customers inserts the row of the customer after Stripe made it.
CustomerInserted ==
  /\ ~known /\ known' = TRUE
  /\ UNCHANGED <<stripeVars, answer, row, requestVars, jobVars>>

-------------------------------------------------------------------------------
(* Helpers and faulty variants.                                                *)

GoTo(r, step) == pc' = [pc EXCEPT ![r] = step]

SetRow(s, state) == row' = [row EXCEPT ![s] = state]

\* Faulty Swallowed: every app drops what it cannot insert.
SwallowedByAll(w) == hand[w].step = "insert"

\* Faulty SyncUpdate: only the dates are written, not the status.
SyncUpdateDates(s, state) == UNCHANGED row

\* Faulty PaidSets: whatever is not active is made active.
PaidSetsAlways(seen) == IF seen \notin {"none", "active"} THEN "active" ELSE "none"

\* Faulty UncollectibleSets: a status outside the table's check constraint.
UncollectibleMisspelt(seen) ==
  IF seen \in {"past_due", "active"} THEN "uncollectible" ELSE "none"

-------------------------------------------------------------------------------
(* create.                                                                     *)

\* CustomersService.findById, for the ownership check and again in create.
FindCustomer(r) ==
  /\ pc[r] = "customer" /\ known /\ origin[SubOf[r]] # "dashboard"
  /\ GoTo(r, IF origin[SubOf[r]] = "planless" THEN "insert" ELSE "lookup")
  /\ UNCHANGED <<stripeVars, answer, row, known, replies, cleaning, jobVars>>

\* findActiveByCustomerAndPrice.
ActiveTwins(s) == 
  {t \in Subs : origin[t] # "planless" /\ PlanOf[t] = PlanOf[s] /\ row[t] = "active"}

Lookup(r) ==
  /\ pc[r] = "lookup"
  /\ GoTo(r, IF ActiveTwins(SubOf[r]) # {} THEN "returned" ELSE "stripe")
  /\ UNCHANGED <<stripeVars, answer, row, known, replies, cleaning, jobVars>>

\* subscriptions.create makes the subscription, or replays its first answer.
AskStripe(r) ==
  LET s == SubOf[r] IN
  /\ pc[r] = "stripe"
  /\ GoTo(r, "saved")
  /\ \/ /\ stripe[s] = "none"
        /\ Becomes(s, "active") \/ Becomes(s, "incomplete")
        /\ answer' = [answer EXCEPT ![s] = stripe'[s]]
     \/ /\ stripe[s] # "none"
        /\ UNCHANGED <<stripeVars, answer, jobVars>>
  /\ UNCHANGED <<row, known, replies, cleaning>>

\* findByStripeId: the event or another request may have inserted the row.
AlreadySaved(r) ==
  /\ pc[r] = "saved"
  /\ GoTo(r, IF row[SubOf[r]] # "none" THEN "returned" ELSE "insert")
  /\ UNCHANGED <<stripeVars, answer, row, known, replies, cleaning, jobVars>>

\* The row of a planless subscription is "active" and refers to nothing at Stripe.
FirstStatus(s) == IF origin[s] = "planless" THEN "active" ELSE answer[s]

\* STRIPE_SUB_ID is unique.
InsertRow(s, state) == row[s] = "none" /\ SetRow(s, state)

Insert(r) ==
  /\ pc[r] = "insert"
  /\ InsertRow(SubOf[r], FirstStatus(SubOf[r]))
  /\ GoTo(r, "returned")
  /\ UNCHANGED <<stripeVars, answer, known, replies, cleaning, jobVars>>

\* The insert fails: the row is there, the price is not in SUBSCRIPTION_PLANS,
\* or another reason; it may have been committed all the same.  The subscription is
\* cancelled at Stripe without waiting.
InsertFails(r) ==
  /\ pc[r] = "insert"
  /\ \/ UNCHANGED row
     \/ InsertRow(SubOf[r], FirstStatus(SubOf[r]))
  /\ cleaning' = cleaning \cup {s \in {SubOf[r]} : origin[s] # "planless"}
  /\ GoTo(r, "failed")
  /\ UNCHANGED <<stripeVars, answer, known, replies, jobVars>>

\* A call throws, or the process dies.
RequestFails(r) ==
  /\ pc[r] \in {"customer", "lookup", "stripe", "saved"}
  /\ GoTo(r, "failed")
  /\ UNCHANGED <<stripeVars, answer, row, known, replies, cleaning, jobVars>>

\* The client repeats the request, with the same key.
Repeat(r) ==
  /\ pc[r] \in {"returned", "failed"}
  /\ GoTo(r, "customer")
  /\ UNCHANGED <<stripeVars, answer, row, known, replies, cleaning, jobVars>>

CleanUp(s) ==
  /\ s \in cleaning
  /\ cleaning' = cleaning \ {s}
  /\ \/ stripe[s] \in Live /\ Becomes(s, "canceled")
     \/ UNCHANGED <<stripeVars, jobVars>>   \* refused, failed or never sent
  /\ UNCHANGED <<answer, row, known, pc, replies>>

-------------------------------------------------------------------------------
(* update and cancel.  Stripe knows no subscription by a local reference, so   *)
(* neither gets beyond Stripe for a planless one.                              *)

Update(s) ==
  /\ row[s] # "none" /\ stripe[s] \in Live
  /\ Becomes(s, stripe[s])
  /\ replies' = replies \cup {<<s, stripe[s]>>}
  /\ UNCHANGED <<answer, row, known, pc, cleaning>>

Cancel(s) ==
  /\ row[s] # "none" /\ stripe[s] \in Live
  /\ Becomes(s, "canceled")
  /\ replies' = replies \cup {<<s, "canceled">>}
  /\ UNCHANGED <<answer, row, known, pc, cleaning>>

\* repo.update and repo.updateCancel write the status of the answer.
WriteReply(s, state) ==
  /\ <<s, state>> \in replies
  /\ replies' = replies \ {<<s, state>>}
  /\ SetRow(s, state)
  /\ UNCHANGED <<stripeVars, answer, known, pc, cleaning, jobVars>>

LoseReply(s, state) ==
  /\ <<s, state>> \in replies
  /\ replies' = replies \ {<<s, state>>}
  /\ UNCHANGED <<stripeVars, answer, row, known, pc, cleaning, jobVars>>

-------------------------------------------------------------------------------
(* Events.                                                                     *)

Take(w) ==
  /\ hand[w] = Idle
  /\ \E e \in events :
       /\ events' = events \ {e}
       /\ hand' = [hand EXCEPT ![w] = [step |-> "find", event |-> e, seen |-> "none"]]
  /\ UNCHANGED <<stripeVars, answer, row, known, requestVars, dead>>

At(w, step, types) ==
  hand[w] # Idle /\ hand[w].step = step /\ hand[w].event.type \in types

SubOfJob(w) == hand[w].event.sub

\* The job goes on with another step, or is over.
Proceed(w, step, seen) ==
  /\ hand' = [hand EXCEPT ![w].step = step, ![w].seen = seen]
  /\ UNCHANGED <<stripeVars, answer, known, requestVars, events, dead>>

Done(w) ==
  /\ hand' = [hand EXCEPT ![w] = Idle]
  /\ UNCHANGED <<stripeVars, answer, known, requestVars, events, dead>>

\* syncFromStripeEvent: findByStripeId.
SyncFind(w) ==
  /\ At(w, "find", {"sync"})
  /\ Proceed(w, IF row[SubOfJob(w)] # "none" THEN "update" ELSE "insert", "none")
  /\ UNCHANGED row

SyncUpdate(s, state) == SetRow(s, state)

SyncRow(w) ==
  /\ At(w, "update", {"sync"})
  /\ SyncUpdate(SubOfJob(w), hand[w].event.status)
  /\ Done(w)

\* CustomersService.findByStripeId and the insert; nobody deletes the customer between.
InsertFromStripeEvent(w) ==
  /\ At(w, "insert", {"sync"})
  /\ known /\ InsertRow(SubOfJob(w), hand[w].event.status)
  /\ Done(w)

\* The statuses that the invoice handlers set, given the one they have read; "none"
\* when they set none.
SucceededSets(seen) == IF seen \notin {"none", "active"} THEN "active" ELSE "none"

FailedSets(seen) == IF seen = "active" THEN "past_due" ELSE "none"

PaidSets(seen) == IF seen = "past_due" THEN "active" ELSE "none"

UncollectibleSets(seen) == IF seen \in {"past_due", "active"} THEN "unpaid" ELSE "none"

SetsInWebhooks(type, seen) ==
  CASE type = "succeeded"     -> SucceededSets(seen)
    [] type = "failed"        -> FailedSets(seen)
    [] type = "paid"          -> PaidSets(seen)
    [] type = "uncollectible" -> UncollectibleSets(seen)

\* The api worker gives the object it has read a status, and saves nothing, when a
\* payment succeeds.
SetsInApi(type, seen) ==
  CASE type = "succeeded"     -> "none"
    [] type = "failed"        -> FailedSets(seen)
    [] type = "paid"          -> PaidSets(seen)
    [] type = "uncollectible" -> UncollectibleSets(seen)

Sets(app, type, seen) ==
  IF app = "api" THEN SetsInApi(type, seen) ELSE SetsInWebhooks(type, seen)

SetByJob(w, seen) == Sets(AppOf[w], hand[w].event.type, seen)

InvoiceFind(w) ==
  LET seen == row[SubOfJob(w)] IN
  /\ At(w, "find", InvoiceTypes)
  /\ IF SetByJob(w, seen) = "none" THEN Done(w) ELSE Proceed(w, "set", seen)
  /\ UNCHANGED row

SyncUpdateStatus(s, state) == SetRow(s, state)

\* setStatus: the row may have changed since it was read.
InvoiceSet(w) ==
  /\ At(w, "set", InvoiceTypes)
  /\ SyncUpdateStatus(SubOfJob(w), SetByJob(w, hand[w].seen))
  /\ Done(w)

\* What the handlers catch and do not throw again: api, anything on the way to an
\* insert; both apps, everything but invoice.payment_succeeded.
Swallowed(w) ==
  AppOf[w] = "api" /\ hand[w].step = "insert"

InvoiceSwallowed(w) == hand[w].event.type \in InvoiceTypes \ {"succeeded"}

\* An await of the handler throws: the database is away, the customer is unknown, the
\* row is there by now.
Throws(w) ==
  /\ hand[w] # Idle
  /\ Swallowed(w) \/ InvoiceSwallowed(w)
  /\ Done(w) /\ UNCHANGED row

Retry(e) == [e EXCEPT !.tries = @ + 1]

\* The error reaches BullMQ, or the worker dies: another attempt, or none is left.
Fails(w) ==
  /\ hand[w] # Idle
  /\ LET e == hand[w].event IN
     IF e.tries + 1 < MaxAttempts
     THEN events' = events \cup {Retry(e)} /\ UNCHANGED dead
     ELSE dead' = dead \cup {e.sub} /\ UNCHANGED events
  /\ hand' = [hand EXCEPT ![w] = Idle]
  /\ UNCHANGED <<stripeVars, answer, row, known, requestVars>>

-------------------------------------------------------------------------------

Request(r) ==
  \/ FindCustomer(r)
  \/ Lookup(r)
  \/ AskStripe(r)
  \/ AlreadySaved(r)
  \/ Insert(r)
  \/ InsertFails(r)
  \/ RequestFails(r)
  \/ Repeat(r)

SyncFromStripeEvent(w) == SyncFind(w) \/ SyncRow(w) \/ InsertFromStripeEvent(w)

HandleInvoice(w) == InvoiceFind(w) \/ InvoiceSet(w)

Handle(w) ==
  \/ SyncFromStripeEvent(w)
  \/ HandleInvoice(w)
  \/ Throws(w)
  \/ Fails(w)

Answered(s) == \E state \in Status : WriteReply(s, state) \/ LoseReply(s, state)

Next ==
  \/ CustomerInserted
  \/ \E s \in Subs :
       StripeMoves(s) \/ MadeElsewhere(s) \/ CleanUp(s) \/ Update(s) \/ Cancel(s)
         \/ Answered(s)
  \/ \E r \in Requests : Request(r)
  \/ \E w \in Workers : Take(w) \/ Handle(w)

Spec == Init /\ [][Next]_vars

\* BullMQ hands the jobs out and a job that was begun ends, one way or the other.
FairSpec == Spec /\ \A w \in Workers : WF_vars(Take(w)) /\ WF_vars(Handle(w))

-------------------------------------------------------------------------------
(* Properties.                                                                 *)

\* The status that an invoice event makes the app assume, which Stripe has not stated.
Assumed == [succeeded |-> "active", paid |-> "active", failed |-> "past_due",
            uncollectible |-> "unpaid"]

\* w ends a job that sets a status of the app's own making.
SetsOwn(w, s) ==
  At(w, "set", InvoiceTypes) /\ SubOfJob(w) = s /\ hand'[w] = Idle

\* Its grounds: Stripe sent the invoice event, and a cancellation that the worker has
\* read is overruled for a payment that succeeded only, and in the webhooks app only.
OwnGrounds(w, s, state) ==
  LET type == hand[w].event.type IN
  /\ type \in invoiced[s] /\ state = Assumed[type]
  /\ hand[w].seen = "canceled" => type = "succeeded" /\ AppOf[w] = "webhooks"

\* Whatever the order of requests, snapshots and invoice events, and whatever they had
\* read before, the row of a subscription at Stripe changes on two grounds only: to a
\* status that Stripe has stated of it, in a snapshot or an answer (ADR 0003, point 5),
\* or to one that an invoice handler assumes.  The second is not Stripe's word: the
\* webhooks app makes a cancelled subscription active when an invoice of it is paid late
\* (invoice.handler.ts), and no other handler overrules a cancellation it has read.
RowChangesHaveGrounds ==
  [][\A s \in Subs :
       origin[s] # "planless" /\ row'[s] # row[s] =>
         \/ row'[s] \in reported[s] /\ \A w \in Workers : ~ SetsOwn(w, s)
         \/ \E w \in Workers : SetsOwn(w, s) /\ OwnGrounds(w, s, row'[s])]_vars

\* Healing (ADR 0003, point 2): a snapshot that a webhooks worker is done with leaves a
\* row behind, also when the customer came late or somebody inserted at the same time.
LeavesRow(w) ==
  (SyncRow(w) \/ InsertFromStripeEvent(w) \/ Throws(w)) /\ hand[w].event.type = "sync"
    => row'[SubOfJob(w)] # "none"

SnapshotLeavesRow ==
  [][\A w \in Workers : AppOf[w] = "webhooks" => LeavesRow(w)]_vars

\* When the snapshot of the cancellation is the last thing to be written for a row, the
\* row shows the cancellation in the end and for ever, unless the job dies.
LastWord(s) ==
  /\ stripe[s] = "canceled" /\ row[s] # "none" /\ s \notin cleaning
  /\ \A state \in Status : <<s, state>> \notin replies
  /\ \A w \in Workers : hand[w] # Idle => SubOfJob(w) # s
  /\ {e \in events : e.sub = s} = {New(s, "sync", "canceled")}

CancellationIsRecorded ==
  \A s \in Subs :
    LastWord(s) ~> [](row[s] = "canceled" \/ s \in dead)

===============================================================================
