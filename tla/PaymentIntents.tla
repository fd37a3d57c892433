---------------------------- MODULE PaymentIntents ----------------------------
(***************************************************************************)
(* Creating a PaymentIntent the Stripe-first way (PaymentIntentsService    *)
(* .create of apps/api): look the idempotency key up, find or create the   *)
(* user's customer, create the PaymentIntent at Stripe, insert the row,    *)
(* and cancel the PaymentIntent when the insert fails.  Then the client    *)
(* pays or the user cancels, and Stripe's event updates the row            *)
(* (updateStatus).  Creating a customer has the same shape                 *)
(* (CustomersService.create), with a deletion that nobody waits for.       *)
(*                                                                         *)
(* A client repeats a request with the same key (a 401 answered after a    *)
(* token refresh, a timeout, a double click): requests with equal KeyOf    *)
(* may run one after the other or at the same time.  Every await is a      *)
(* boundary between two actions; each call can fail.                       *)
(*                                                                         *)
(* Stripe is external.  It makes one object per idempotency key and        *)
(* replays its first answer to the same call; a key that was used for      *)
(* another endpoint is refused.  Its events are handled in any order.      *)
(* "open" stands for every status in which a PaymentIntent waits for its   *)
(* client.  Abstracted: amounts, payment method options, metadata (and     *)
(* update, which changes nothing else), capture, soft deletion and the     *)
(* Redis cache of customers.                                               *)
(***************************************************************************)
EXTENDS Naturals

CONSTANTS
  Requests,   \* calls of POST /payment-intents
  Keys,       \* values of the Idempotency-Key header
  Users,      \* application users; each has one email address
  KeyOf,      \* KeyOf[r]: the key that request r carries
  UserOf      \* UserOf[k]: the user whose client generated key k

ASSUME ConstantsAssumption ==
  /\ KeyOf \in [Requests -> Keys]
  /\ UserOf \in [Keys -> Users]
  /\ "none" \notin Keys /\ "own" \notin Keys

VARIABLES
  pc,         \* pc[r]: the next step of request r
  answer,     \* answer[k]: what Stripe first answered to a call with key k
  intent,     \* intent[k]: the PaymentIntent made with key k, at Stripe
  piRow,      \* piRow[k]: STATUS of its row, "none" when there is no row
  customer,   \* customer[k]: the customer made with key k, at Stripe
  customerOf, \* customerOf[u]: the Stripe customer in the row of user u
  deleting,   \* customers whose deletion at Stripe was sent off
  events,     \* <<k, status>>: events of PaymentIntents that are yet to be handled
  cancelling, \* cancellations by a user, between Stripe and the database
  withdrawn   \* the PaymentIntents that a user has cancelled

stripeVars   == <<answer, intent>>
customerVars == <<customer, customerOf, deleting>>
afterVars    == <<events, cancelling, withdrawn>>
vars == <<pc, answer, intent, piRow, customer, customerOf, deleting,
          events, cancelling, withdrawn>>

IntentStatus == {"none", "open", "processing", "canceled", "succeeded"}

RequestStep ==
  {"lookup", "customer", "custKey", "custEmail", "custStripe", "custInsert",
   "create", "insert", "void", "returned", "failed"}

\* A user has no customer, one created on its own by POST /customers, or one that
\* was created on the way to a PaymentIntent.
TypeOK ==
  /\ pc \in [Requests -> RequestStep]
  /\ answer \in [Keys -> {"none", "customer", "intent", "secretless"}]
  /\ intent \in [Keys -> IntentStatus]
  /\ piRow \in [Keys -> IntentStatus]
  /\ customer \in [Keys -> {"none", "live", "deleted"}]
  /\ customerOf \in [Users -> Keys \cup {"none", "own"}]
  /\ deleting \subseteq Keys
  /\ events \subseteq Keys \X (IntentStatus \ {"none"})
  /\ cancelling \subseteq Keys /\ withdrawn \subseteq Keys

Init ==
  /\ pc = [r \in Requests |-> "lookup"]
  /\ answer = [k \in Keys |-> "none"]
  /\ intent = [k \in Keys |-> "none"]
  /\ piRow = [k \in Keys |-> "none"]
  /\ customer = [k \in Keys |-> "none"]
  /\ customerOf \in [Users -> {"none", "own"}]
  /\ deleting = {}
  /\ events = {} /\ cancelling = {} /\ withdrawn = {}

-------------------------------------------------------------------------------

GoTo(r, step) == pc' = [pc EXCEPT ![r] = step]

User(r) == UserOf[KeyOf[r]]

\* The customers that Stripe still has, as rows name them.
LiveCustomers == {"own"} \cup {k \in Keys : customer[k] = "live"}

\* Faulty variants, for validating the properties.

\* Faulty Insert: the row is inserted before the call of Stripe.
CustomerFoundInserts(r) ==
  /\ pc[r] = "customer"
  /\ customerOf[User(r)] # "none"
  /\ piRow' = [piRow EXCEPT ![KeyOf[r]] = "open"]
  /\ GoTo(r, "create")
  /\ UNCHANGED <<stripeVars, customerVars, afterVars>>

\* Faulty InsertFails: the error is logged, webhooks are left to heal the row.
InsertFailsReturns(r) ==
  /\ pc[r] = "insert"
  /\ GoTo(r, "returned")
  /\ UNCHANGED <<stripeVars, piRow, customerVars, afterVars>>

\* Faulty CancelAtStripe: the answer of Stripe is not awaited.
CancelBlindly(k) ==
  /\ piRow[k] # "none" /\ k \notin cancelling
  /\ intent' = [intent EXCEPT ![k] = IF @ = "open" THEN "canceled" ELSE @]
  /\ events' = IF intent[k] = "open" THEN events \cup {<<k, "canceled">>} ELSE events
  /\ cancelling' = cancelling \cup {k}
  /\ withdrawn' = withdrawn \cup {k}
  /\ UNCHANGED <<pc, answer, piRow, customerVars>>

\* Faulty CancelInRow: a status that the table's check constraint does not know.
CancelInRowMisspelt(k) ==
  /\ k \in cancelling
  /\ cancelling' = cancelling \ {k}
  /\ piRow' = [piRow EXCEPT ![k] = "cancelled"]
  /\ UNCHANGED <<pc, stripeVars, customerVars, events, withdrawn>>

-------------------------------------------------------------------------------
(* create: the idempotency key and the customer.                               *)

\* findByIdempotencyKey: a row answers the request at once.
Lookup(r) ==
  /\ pc[r] = "lookup"
  /\ GoTo(r, IF piRow[KeyOf[r]] # "none" THEN "returned" ELSE "customer")
  /\ UNCHANGED <<stripeVars, piRow, customerVars, afterVars>>

\* findByUserId.
CustomerFound(r) ==
  /\ pc[r] = "customer"
  /\ customerOf[User(r)] # "none"
  /\ GoTo(r, "create")
  /\ UNCHANGED <<stripeVars, piRow, customerVars, afterVars>>

CustomerMissing(r) ==
  /\ pc[r] = "customer"
  /\ customerOf[User(r)] = "none"
  /\ GoTo(r, "custKey")
  /\ UNCHANGED <<stripeVars, piRow, customerVars, afterVars>>

\* CustomersService.create: is there a customer row with this key?
CustomerByKey(r) ==
  /\ pc[r] = "custKey"
  /\ GoTo(r, IF customerOf[User(r)] = KeyOf[r] THEN "create" ELSE "custEmail")
  /\ UNCHANGED <<stripeVars, piRow, customerVars, afterVars>>

\* Is there one with this email address?  Then 409.
CustomerByEmail(r) ==
  /\ pc[r] = "custEmail"
  /\ GoTo(r, IF customerOf[User(r)] # "none" THEN "failed" ELSE "custStripe")
  /\ UNCHANGED <<stripeVars, piRow, customerVars, afterVars>>

\* The same key goes to customers.create and, later, to paymentIntents.create.
CustomerCreated(r) ==
  /\ pc[r] = "custStripe"
  /\ answer[KeyOf[r]] \in {"none", "customer"}
  /\ answer' = [answer EXCEPT ![KeyOf[r]] = "customer"]
  /\ customer' = [customer EXCEPT ![KeyOf[r]] = IF @ = "none" THEN "live" ELSE @]
  /\ GoTo(r, "custInsert")
  /\ UNCHANGED <<intent, piRow, customerOf, deleting, afterVars>>

\* EMAIL and STRIPE_CUSTOMER_ID are unique: the insert works for one request only.
CustomerInserted(r) ==
  /\ pc[r] = "custInsert"
  /\ customerOf[User(r)] = "none"
  /\ customerOf' = [customerOf EXCEPT ![User(r)] = KeyOf[r]]
  /\ GoTo(r, "create")
  /\ UNCHANGED <<stripeVars, piRow, customer, deleting, afterVars>>

\* The insert fails, for that reason or another: the Stripe customer is deleted
\* without waiting and the request ends.
CustomerInsertFails(r) ==
  /\ pc[r] = "custInsert"
  /\ deleting' = deleting \cup {KeyOf[r]}
  /\ GoTo(r, "failed")
  /\ UNCHANGED <<stripeVars, piRow, customer, customerOf, afterVars>>

\* The insert works and its answer is lost: the catch block runs all the same.
CustomerInsertLost(r) ==
  /\ pc[r] = "custInsert"
  /\ customerOf[User(r)] = "none"
  /\ customerOf' = [customerOf EXCEPT ![User(r)] = KeyOf[r]]
  /\ deleting' = deleting \cup {KeyOf[r]}
  /\ GoTo(r, "failed")
  /\ UNCHANGED <<stripeVars, piRow, customer, afterVars>>

DeleteCustomer(k) ==
  /\ k \in deleting
  /\ deleting' = deleting \ {k}
  /\ customer' = [customer EXCEPT ![k] = "deleted"]
  /\ UNCHANGED <<pc, stripeVars, piRow, customerOf, afterVars>>

\* The deletion fails, or the process dies first; a failure is logged.
DeleteCustomerLost(k) ==
  /\ k \in deleting
  /\ deleting' = deleting \ {k}
  /\ UNCHANGED <<pc, stripeVars, piRow, customer, customerOf, afterVars>>

-------------------------------------------------------------------------------
(* create: the PaymentIntent.                                                  *)

\* Stripe makes a PaymentIntent for a customer it has, or replays the answer that
\* this key got first, whatever has become of the PaymentIntent since.
Answered(r, first) ==
  LET k == KeyOf[r] IN
  /\ pc[r] = "create"
  /\ \/ answer[k] = first
     \/ answer[k] = "none" /\ customerOf[User(r)] \in LiveCustomers
  /\ answer' = [answer EXCEPT ![k] = first]
  /\ intent' = [intent EXCEPT ![k] = IF @ = "none" THEN "open" ELSE @]
  /\ UNCHANGED <<piRow, customerVars, afterVars>>

IntentCreated(r) == Answered(r, "intent") /\ GoTo(r, "insert")

\* A PaymentIntent without a client secret is cancelled.
SecretMissing(r) == Answered(r, "secretless") /\ GoTo(r, "void")

\* The row takes its status from the answer of Stripe.
Insert(r) ==
  /\ pc[r] = "insert"
  /\ piRow[KeyOf[r]] = "none"
  /\ piRow' = [piRow EXCEPT ![KeyOf[r]] = "open"]
  /\ GoTo(r, "returned")
  /\ UNCHANGED <<stripeVars, customerVars, afterVars>>

\* STRIPE_PI_ID is unique: the insert fails when the row is there, or for another
\* reason.
InsertFails(r) ==
  /\ pc[r] = "insert"
  /\ GoTo(r, "void")
  /\ UNCHANGED <<stripeVars, piRow, customerVars, afterVars>>

\* The transaction is committed and the answer is lost.
InsertLost(r) ==
  /\ pc[r] = "insert"
  /\ piRow[KeyOf[r]] = "none"
  /\ piRow' = [piRow EXCEPT ![KeyOf[r]] = "open"]
  /\ GoTo(r, "void")
  /\ UNCHANGED <<stripeVars, customerVars, afterVars>>

\* Stripe cancels an open PaymentIntent and refuses to cancel any other.
Void(r) ==
  LET k == KeyOf[r] IN
  /\ pc[r] = "void"
  /\ intent' = [intent EXCEPT ![k] = IF @ = "open" THEN "canceled" ELSE @]
  /\ events' = IF intent[k] = "open" THEN events \cup {<<k, "canceled">>} ELSE events
  /\ GoTo(r, "failed")
  /\ UNCHANGED <<answer, piRow, customerVars, cancelling, withdrawn>>

\* A call throws, Stripe refuses it, or the process dies.
Fail(r) ==
  /\ pc[r] \notin {"returned", "failed"}
  /\ GoTo(r, "failed")
  /\ UNCHANGED <<stripeVars, piRow, customerVars, afterVars>>

-------------------------------------------------------------------------------
(* Afterwards.                                                                 *)

\* The PaymentIntent changes its status at Stripe and Stripe sends the event.
Move(k, from, to) ==
  /\ intent[k] = from
  /\ intent' = [intent EXCEPT ![k] = to]
  /\ events' = events \cup {<<k, to>>}
  /\ UNCHANGED <<pc, answer, piRow, customerVars, cancelling, withdrawn>>

\* A client that was given the client secret confirms: the payment goes through at
\* once, or takes its time and then goes through or fails.
Confirmable(k) == \E r \in Requests : KeyOf[r] = k /\ pc[r] = "returned"

Pay(k) ==
  \/ Confirmable(k) /\ Move(k, "open", "succeeded")
  \/ Confirmable(k) /\ Move(k, "open", "processing")
  \/ Move(k, "processing", "succeeded")
  \/ Move(k, "processing", "open")

\* cancel: Stripe first; when Stripe refuses, nothing is written.
CancelAtStripe(k) ==
  /\ piRow[k] # "none" /\ k \notin cancelling
  /\ intent[k] = "open"
  /\ intent' = [intent EXCEPT ![k] = "canceled"]
  /\ events' = events \cup {<<k, "canceled">>}
  /\ cancelling' = cancelling \cup {k}
  /\ withdrawn' = withdrawn \cup {k}
  /\ UNCHANGED <<pc, answer, piRow, customerVars>>

CancelInRow(k) ==
  /\ k \in cancelling
  /\ cancelling' = cancelling \ {k}
  /\ piRow' = [piRow EXCEPT ![k] = "canceled"]
  /\ UNCHANGED <<pc, stripeVars, customerVars, events, withdrawn>>

CancelInRowLost(k) ==
  /\ k \in cancelling
  /\ cancelling' = cancelling \ {k}
  /\ UNCHANGED <<pc, stripeVars, piRow, customerVars, events, withdrawn>>

\* updateStatus with the status that the event carries, whatever the row says;
\* without a row it returns silently and the event is done with.
UpdateStatus(k, state) ==
  /\ <<k, state>> \in events
  /\ events' = events \ {<<k, state>>}
  /\ piRow' = [piRow EXCEPT ![k] = IF @ = "none" THEN "none" ELSE state]
  /\ UNCHANGED <<pc, stripeVars, customerVars, cancelling, withdrawn>>

-------------------------------------------------------------------------------

CreateCustomer(r) ==
  \/ CustomerByKey(r)
  \/ CustomerByEmail(r)
  \/ CustomerCreated(r)
  \/ CustomerInserted(r)
  \/ CustomerInsertFails(r)
  \/ CustomerInsertLost(r)

Create(r) ==
  \/ Lookup(r)
  \/ CustomerFound(r)
  \/ CustomerMissing(r)
  \/ CreateCustomer(r)
  \/ IntentCreated(r)
  \/ SecretMissing(r)
  \/ Insert(r)
  \/ InsertFails(r)
  \/ InsertLost(r)
  \/ Void(r)
  \/ Fail(r)

Cancel(k) == CancelAtStripe(k) \/ CancelInRow(k) \/ CancelInRowLost(k)

CleanUp(k) == DeleteCustomer(k) \/ DeleteCustomerLost(k)

HandleEvent(k) == \E state \in IntentStatus : UpdateStatus(k, state)

Next ==
  \/ \E r \in Requests : Create(r)
  \/ \E k \in Keys : CleanUp(k) \/ Pay(k) \/ Cancel(k) \/ HandleEvent(k)

Spec == Init /\ [][Next]_vars

\* StripeWebhooks handles every event in the end (or its job dies visibly, which is
\* outside this module); nothing else is assumed to happen.
FairSpec ==
  Spec /\ \A k \in Keys, state \in IntentStatus : WF_vars(UpdateStatus(k, state))

-------------------------------------------------------------------------------
(* Properties.                                                                 *)

\* ADR 0003, point 5: no phantom record, one whose object never reached Stripe.
NoPhantomRow ==
  /\ \A k \in Keys : piRow[k] # "none" => intent[k] # "none"
  /\ \A u \in Users : customerOf[u] \in Keys => customer[customerOf[u]] # "none"

\* Nobody is charged without a local record, whatever fails between Stripe and the
\* database: the client learns the secret only once the row is there.
ChargeHasRow == \A k \in Keys : intent[k] = "succeeded" => piRow[k] # "none"

\* The row never claims an end of the payment that Stripe does not know of.
RowEndIsTrue ==
  \A k \in Keys : piRow[k] \in {"canceled", "succeeded"} => intent[k] = piRow[k]

\* When the event of the success is the last one of a payment to be handled, the
\* row says so in the end and for ever: no other writer has a later word.
EventsOf(k) == {e \in events : e[1] = k}

LastWordIsRecorded ==
  \A k \in Keys :
    EventsOf(k) = {<<k, "succeeded">>} ~> [](piRow[k] = "succeeded")

-------------------------------------------------------------------------------
(* What the repository says and the code does not do.                          *)

\* ADR 0003, point 1: "Use idempotency keys on all Stripe writes so retries are
\* safe".  A request, the first or a retry, never answers with a PaymentIntent that
\* the clean-up of a request with that key has cancelled, only with one that is open
\* or that the user cancelled.
ReturnedIsNotVoided ==
  \A r \in Requests :
    pc[r] = "returned" /\ intent[KeyOf[r]] = "canceled" => KeyOf[r] \in withdrawn

===============================================================================
