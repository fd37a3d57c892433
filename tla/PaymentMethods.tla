----------------------------- MODULE PaymentMethods -----------------------------
(***************************************************************************)
(* The saved payment methods of one customer: the rows of                  *)
(* STRIPE_PAYMENT_METHODS, the events by which Stripe reports them, the    *)
(* workers of the two apps that handle the events in any order, and the    *)
(* requests that detach a payment method or make it the default.           *)
(*                                                                         *)
(* A row is found by the identifier of Stripe and then changed by its own  *)
(* id; between the two statements other workers and requests go on.        *)
(* Left out: events of a payment method without a customer, for which both *)
(* apps return at once (Stripe sends attached and updated of those that    *)
(* have one).                                                              *)
(***************************************************************************)
EXTENDS Naturals, Sequences, FiniteSets

CONSTANTS
  PMs,          \* payment methods
  Requests,     \* requests of the owner
  MaxEvents,    \* bound: events that Stripe sends
  MaxAttempts,  \* attempts of the job of an event
  MaxRows       \* bound: rows that are inserted for one payment method

Workers == {"api", "webhooks"}     \* one job at a time in each app
Actors  == Workers \cup Requests
Events  == 1..MaxEvents

ASSUME SetsAssumption == IsFiniteSet(PMs) /\ IsFiniteSet(Requests) /\ Workers \cap Requests = {}
ASSUME BoundsAssumption == MaxEvents \in Nat /\ MaxAttempts \in Nat \ {0} /\ MaxRows \in Nat \ {0}

VARIABLES
  card,     \* card[p]: whether p is attached at Stripe, and the version of its data
  sent,     \* the events of Stripe, in the order in which they happened
  job,      \* job[e]: the job of event e
  tries,    \* tries[e]: failed attempts
  dropped,  \* history: events whose job the api ended without a customer
  known,    \* the customer has a row
  row,      \* row[p]: the row of p
  made,     \* made[p]: rows inserted for p so far; the last one is the id
  step,     \* step[a]: the next step of actor a
  task,     \* task[a]: the event, or the payment method, that a works on
  seen,     \* seen[a]: the id of the row that a has found; 0: none
  data,     \* data[a]: the version that worker a is about to write
  raced     \* ghost: two requests for a default were under way at the same time

stripeVars == <<card, sent>>
jobVars    == <<job, tries, dropped>>
rowVars    == <<row, made>>
actorVars  == <<step, task, seen, data>>
vars       == <<stripeVars, jobVars, known, rowVars, actorVars, raced>>

--------------------------------------------------------------------------------
NoRow    == [id |-> 0, version |-> 0, isDefault |-> FALSE]
Kinds    == {"attached", "updated", "detached", "mandate"}
Event    == [kind : Kinds, pm : PMs, version : Nat]
JobState == {"none", "queued", "active", "done", "dead"}

WorkerSteps  == {"retrieve", "customer", "select", "upsert", "find", "delete"}
DefaultSteps == {"find default", "tell", "clear", "set"}
DetachSteps  == {"find detach", "detach", "delete by id"}
ActorSteps   == {"idle", "over"} \cup WorkerSteps \cup DefaultSteps \cup DetachSteps

TypeOK ==
  /\ card \in [PMs -> [at : {"new", "attached", "detached"}, version : Nat]]
  /\ sent \in Seq(Event) /\ Len(sent) <= MaxEvents
  /\ job \in [Events -> JobState]
  /\ tries \in [Events -> 0..MaxAttempts]
  /\ dropped \subseteq Events
  /\ known \in BOOLEAN
  /\ row \in [PMs -> [id : 0..MaxRows, version : Nat, isDefault : BOOLEAN]]
  /\ made \in [PMs -> 0..MaxRows]
  /\ step \in [Actors -> ActorSteps]
  /\ task \in [Actors -> Events \cup PMs \cup {0}]
  /\ seen \in [Actors -> 0..MaxRows]
  /\ data \in [Workers -> Nat]
  /\ raced \in BOOLEAN

\* The customer's row may be missing at first; every payment method is new or already
\* attached and recorded, without a default.
Init ==
  /\ card \in [PMs -> {[at |-> "new", version |-> 0], [at |-> "attached", version |-> 0]}]
  /\ known \in BOOLEAN
  /\ known \/ \A p \in PMs : card[p].at = "new"
  /\ made = [p \in PMs |-> IF card[p].at = "new" THEN 0 ELSE 1]
  /\ row = [p \in PMs |-> [id |-> made[p], version |-> 0, isDefault |-> FALSE]]
  /\ sent = <<>>
  /\ job = [e \in Events |-> "none"]
  /\ tries = [e \in Events |-> 0] /\ dropped = {}
  /\ step = [a \in Actors |-> "idle"]
  /\ task = [a \in Actors |-> 0]
  /\ seen = [a \in Actors |-> 0]
  /\ data = [w \in Workers |-> 0]
  /\ raced = FALSE

--------------------------------------------------------------------------------
(* Stripe: a payment method is attached by a setup or a payment, its data is  *)
(* updated by the bank, and it is detached for good.                          *)

Sends(kind, p, version) ==
  /\ Len(sent) < MaxEvents
  /\ sent' = Append(sent, [kind |-> kind, pm |-> p, version |-> version])
  /\ job' = [job EXCEPT ![Len(sent) + 1] = "queued"]
  /\ UNCHANGED <<tries, dropped>>

Attached(p) ==
  /\ card[p].at = "new"
  /\ card' = [card EXCEPT ![p].at = "attached"]
  /\ Sends("attached", p, card[p].version)
  /\ UNCHANGED <<known, rowVars, actorVars, raced>>

\* payment_method.updated and payment_method.card_automatically_updated carry the data,
\* the mandate events carry the identifier only.
Updated(p, kind) ==
  /\ card[p].at = "attached"
  /\ card' = [card EXCEPT ![p].version = @ + 1]
  /\ Sends(kind, p, card[p].version + 1)
  /\ UNCHANGED <<known, rowVars, actorVars, raced>>

Detaches(p) ==
  /\ card[p].at = "attached"
  /\ card' = [card EXCEPT ![p].at = "detached"]
  /\ Sends("detached", p, card[p].version)

DetachedElsewhere(p) ==
  /\ Detaches(p)
  /\ UNCHANGED <<known, rowVars, actorVars, raced>>

\* The customer's row is inserted by CustomersService.create.
CustomerInserted ==
  /\ ~known
  /\ known' = TRUE
  /\ UNCHANGED <<stripeVars, jobVars, rowVars, actorVars, raced>>

StripeMoves ==
  \E p \in PMs : Attached(p) \/ Updated(p, "updated") \/ Updated(p, "mandate")
                 \/ DetachedElsewhere(p)

--------------------------------------------------------------------------------
(* A worker handles an event.                                                 *)

GoTo(a, s) == step' = [step EXCEPT ![a] = s]

\* The job of worker w ends in state s.
Leave(w, s) ==
  /\ GoTo(w, "idle")
  /\ job' = [job EXCEPT ![task[w]] = s]
  /\ task' = [task EXCEPT ![w] = 0]
  /\ seen' = [seen EXCEPT ![w] = 0]
  /\ data' = [data EXCEPT ![w] = 0]

Succeeds(w) == Leave(w, "done") /\ UNCHANGED <<tries, dropped>>

\* Faulty Throws: a job is tried without end.
ThrowsForEver(w) ==
  /\ tries' = [tries EXCEPT ![task[w]] = @ + 1]
  /\ Leave(w, "queued")
  /\ UNCHANGED dropped

Throws(w) ==
  /\ tries' = [tries EXCEPT ![task[w]] = @ + 1]
  /\ Leave(w, IF tries[task[w]] + 1 < MaxAttempts THEN "queued" ELSE "dead")
  /\ UNCHANGED dropped

\* PaymentMethodHandler and MandateHandler: which method of the service an event means.
FirstStep(kind) ==
  CASE kind \in {"attached", "updated"} -> "customer"
    [] kind = "detached"                -> "find"
    [] kind = "mandate"                 -> "retrieve"

\* extractPmFields: every column but the default flag is computed from one version of
\* the data, the one an event carries or the one that was retrieved.
ExtractPmFields(source) == source.version

Take(w, e) ==
  /\ step[w] = "idle" /\ job[e] = "queued"
  /\ GoTo(w, FirstStep(sent[e].kind))
  /\ job' = [job EXCEPT ![e] = "active"]
  /\ task' = [task EXCEPT ![w] = e]
  /\ data' = [data EXCEPT ![w] = IF sent[e].kind = "mandate" THEN 0
                                          ELSE ExtractPmFields(sent[e])]
  /\ UNCHANGED <<stripeVars, tries, dropped, known, rowVars, seen, raced>>

Of(w) == sent[task[w]].pm

\* syncFromStripeById: the data as it is now; a detached payment method is skipped.
Retrieve(w) ==
  /\ step[w] = "retrieve"
  /\ IF card[Of(w)].at = "attached"
     THEN /\ GoTo(w, "customer")
          /\ data' = [data EXCEPT ![w] = ExtractPmFields(card[Of(w)])]
          /\ UNCHANGED <<jobVars, task, seen>>
     ELSE Succeeds(w)
  /\ UNCHANGED <<stripeVars, known, rowVars, raced>>

\* upsertFromStripeEvent of the api: whatever the lookup of the customer throws, an
\* unknown customer or a database that is away, is caught; the job counts as done.
NotFoundInApi(w) ==
  /\ Leave(w, "done")
  /\ dropped' = dropped \cup {task[w]}
  /\ UNCHANGED tries

\* Faulty UnknownInWebhooks: the error is swallowed.
UnknownSwallowed(w) == Succeeds(w)

UnknownInWebhooks(w) == Throws(w)

Customer(w) ==
  /\ step[w] = "customer"
  /\ \/ /\ known
        /\ GoTo(w, "select")
        /\ UNCHANGED <<jobVars, task, seen, data>>
     \/ w = "api" /\ NotFoundInApi(w)
     \/ w = "webhooks" /\ ~known /\ UnknownInWebhooks(w)
  /\ UNCHANGED <<stripeVars, known, rowVars, raced>>

\* The transaction of the repository: select, then update or insert.
Select(w) ==
  /\ step[w] = "select"
  /\ GoTo(w, "upsert")
  /\ seen' = [seen EXCEPT ![w] = row[Of(w)].id]
  /\ UNCHANGED <<stripeVars, jobVars, known, rowVars, task, data, raced>>

\* The update is by id and leaves the default flag alone; a row that is gone meanwhile
\* is not updated.
UpdateFields(w) ==
  /\ seen[w] # 0
  /\ row' = [row EXCEPT ![Of(w)].version = IF row[Of(w)].id = seen[w] THEN data[w] ELSE @]
  /\ Succeeds(w)
  /\ UNCHANGED made

\* The identifier of Stripe is unique: the second of two inserts throws.
InsertNew(w) ==
  /\ seen[w] = 0 /\ made[Of(w)] < MaxRows
  /\ IF row[Of(w)] = NoRow
     THEN /\ row' = [row EXCEPT ![Of(w)] =
                       [id |-> made[Of(w)] + 1, version |-> data[w], isDefault |-> FALSE]]
          /\ made' = [made EXCEPT ![Of(w)] = @ + 1]
          /\ Succeeds(w)
     ELSE Throws(w) /\ UNCHANGED rowVars

Upsert(w) ==
  /\ step[w] = "upsert"
  /\ UpdateFields(w) \/ InsertNew(w)
  /\ UNCHANGED <<stripeVars, known, raced>>

DeleteById(a, p) ==
  row' = [row EXCEPT ![p] = IF @.id = seen[a] THEN NoRow ELSE @]

\* removeByStripeId: find, then delete by id.
FindByStripeId(w) ==
  /\ step[w] = "find"
  /\ IF row[Of(w)] = NoRow
     THEN Succeeds(w)
     ELSE /\ GoTo(w, "delete")
          /\ seen' = [seen EXCEPT ![w] = row[Of(w)].id]
          /\ UNCHANGED <<jobVars, task, data>>
  /\ UNCHANGED <<stripeVars, known, rowVars, raced>>

RemoveByStripeId(w) ==
  /\ step[w] = "delete"
  /\ DeleteById(w, Of(w))
  /\ Succeeds(w)
  /\ UNCHANGED <<stripeVars, known, made, raced>>

\* A statement or a call of Stripe fails, or the worker dies (in the api's lookup of a
\* customer: the worker dies).
WorkerFails(w) ==
  /\ step[w] # "idle"
  /\ Throws(w)
  /\ UNCHANGED <<stripeVars, known, rowVars, raced>>

Works(w) ==
  \/ Retrieve(w) \/ Customer(w) \/ Select(w) \/ Upsert(w) \/ FindByStripeId(w)
  \/ RemoveByStripeId(w) \/ WorkerFails(w)

--------------------------------------------------------------------------------
(* The requests of the owner.  Each names the id of a row that was listed.    *)

Begin(r, p, s) ==
  /\ step[r] = "idle" /\ known
  /\ row[p] # NoRow
  /\ GoTo(r, s)
  /\ task' = [task EXCEPT ![r] = p]
  /\ seen' = [seen EXCEPT ![r] = row[p].id]
  /\ UNCHANGED <<stripeVars, jobVars, known, rowVars, data, raced>>

Row(r) == row[task[r]]

\* The request is over; its locals are forgotten.
Over(r) ==
  /\ GoTo(r, "over")
  /\ task' = [task EXCEPT ![r] = 0]
  /\ seen' = [seen EXCEPT ![r] = 0]

\* findById, findByIdAndCustomer: a row that is gone ends the request.
Found(r, s, next) ==
  /\ step[r] = s
  /\ IF Row(r).id = seen[r] THEN GoTo(r, next) /\ UNCHANGED <<task, seen>> ELSE Over(r)
  /\ UNCHANGED <<stripeVars, jobVars, known, rowVars, data, raced>>

\* setDefault: Stripe is told first; it knows attached payment methods only.
Tell(r) ==
  /\ step[r] = "tell"
  /\ IF card[task[r]].at = "attached"
     THEN GoTo(r, "clear") /\ UNCHANGED <<task, seen>>
     ELSE Over(r)
  /\ UNCHANGED <<stripeVars, jobVars, known, rowVars, data, raced>>

\* Faulty Cleared: nothing is cleared.
NotCleared == row

Cleared == [p \in PMs |-> [row[p] EXCEPT !.isDefault = FALSE]]

\* clearDefaultByCustomer, then setDefault: two statements, no transaction.
Clear(r) ==
  /\ step[r] = "clear"
  /\ row' = Cleared
  /\ GoTo(r, "set")
  /\ raced' = (raced \/ \E q \in Requests \ {r} : step[q] = "set")
  /\ UNCHANGED <<stripeVars, jobVars, known, made, task, seen, data>>

SetDefault(r) ==
  /\ step[r] = "set"
  /\ row' = [row EXCEPT ![task[r]].isDefault = (@ \/ row[task[r]].id = seen[r])]
  /\ Over(r)
  /\ UNCHANGED <<stripeVars, jobVars, known, made, data, raced>>

\* detach: Stripe first, the row afterwards.
Detach(r) ==
  /\ step[r] = "detach"
  /\ Detaches(task[r])
  /\ GoTo(r, "delete by id")
  /\ UNCHANGED <<known, rowVars, task, seen, data, raced>>

DeleteRow(r) ==
  /\ step[r] = "delete by id"
  /\ DeleteById(r, task[r])
  /\ Over(r)
  /\ UNCHANGED <<stripeVars, jobVars, known, made, data, raced>>

\* A call throws, before or after it took effect, or the process dies.
RequestFails(r) ==
  /\ step[r] \notin {"idle", "over"}
  /\ Over(r)
  /\ UNCHANGED <<stripeVars, jobVars, known, rowVars, data, raced>>

Serves(r) ==
  \/ Found(r, "find default", "tell") \/ Tell(r) \/ Clear(r) \/ SetDefault(r)
  \/ Found(r, "find detach", "detach") \/ Detach(r) \/ DeleteRow(r) \/ RequestFails(r)

--------------------------------------------------------------------------------
Next ==
  \/ StripeMoves
  \/ CustomerInserted
  \/ \E w \in Workers : (\E e \in Events : Take(w, e)) \/ Works(w)
  \/ \E r \in Requests :
       Serves(r) \/ \E p \in PMs : Begin(r, p, "find default") \/ Begin(r, p, "find detach")

Spec == Init /\ [][Next]_vars

--------------------------------------------------------------------------------
(* Properties.                                                                *)

\* Two payment methods are the default only when two requests for a default were
\* between clearing and setting at the same time: events, detached rows, rows that
\* come back and failed requests never make a second default.
OneDefaultUnlessRaced ==
  raced \/ \A p, q \in PMs : row[p].isDefault /\ row[q].isDefault => p = q

\* While a payment method is attached at Stripe and the job of its first event counts as
\* done, it has a row, whatever other events, retries, detachments and second inserts
\* were handled in between.  One exit of the code breaks this, and it is the only one:
\* a worker of the api whose lookup of the customer fails, for whatever reason, ends the
\* job as done and leaves no row.
HandledIsListed ==
  \A e \in 1..Len(sent) :
    sent[e].kind = "attached" /\ job[e] = "done" /\ card[sent[e].pm].at = "attached"
      => row[sent[e].pm] # NoRow \/ e \in dropped
================================================================================
