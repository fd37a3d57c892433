------------------------------- MODULE Checkout -------------------------------
(***************************************************************************)
(* What a user goes through to pay (mode "payment": the checkout page,     *)
(* CheckoutForm, PaymentForm and the page that the bank returns to) or to  *)
(* save a card (mode "setup": the page of payment methods and SetupForm),  *)
(* together with the intents behind it: SetupIntentsService and its        *)
(* handlers in both apps; PaymentIntents are created and updated by the    *)
(* same steps, which the module PaymentIntents has in full.                *)
(*                                                                         *)
(* The page creates an intent through the api, confirms it at Stripe, and  *)
(* tells the user what came of it.  Answers may be lost, the user may go   *)
(* back at any time, a bank may take the user away and return later, and   *)
(* the workers write the rows in whatever order the events come.           *)
(*                                                                         *)
(* An error is shown twice: by the form, which forgets it when it is       *)
(* submitted or edited, and by the page around it, which keeps it until    *)
(* "Try again", a success or another error.                                *)
(***************************************************************************)
EXTENDS Naturals, FiniteSets

CONSTANTS
  Workers,     \* workers that handle the events of intents
  Amounts,     \* what the user may enter, in cents
  MaxIntents,  \* bound: intents one user makes
  MaxConfirms, \* bound: confirmations
  MaxFaults    \* bound: calls that fail or whose answer is lost

ASSUME WorkersAssumption == IsFiniteSet(Workers)
ASSUME AmountsAssumption == Amounts \subseteq Nat
ASSUME BoundsAssumption ==
  /\ MaxIntents \in Nat
  /\ MaxConfirms \in Nat
  /\ MaxFaults \in Nat

VARIABLES
  mode,      \* "payment" or "setup"
  view,      \* where the user is
  current,   \* the intent whose client secret the page holds; 0: none
  shown,     \* what the page tells (error of CheckoutForm, setupError)
  inForm,    \* what PaymentForm or SetupForm tells (errorState)
  errors,    \* errorCount of CheckoutForm
  made,      \* intents asked for so far
  api,       \* how far the api is with the intent it creates
  intent,    \* intent[i]: its status at Stripe
  row,       \* row[i]: its status in the database
  method,    \* method[i]: its row names the payment method
  reply,     \* reply[i]: what has become of the confirmation of i
  events,    \* events <<i, status>> that Stripe has sent; they may come again
  job,       \* job[w]: the event w has in hand and what it has read
  cancels,   \* intents cancelled at Stripe whose row is not written yet
  confirms,  \* confirmations so far
  faults,    \* faults so far
  told,      \* ghost: intents the user was told to be charged, or under way
  doubt      \* ghost: intents the user cannot know the state of

pageVars   == <<view, current, shown, inForm, errors>>
stripeVars == <<intent, reply, events>>
rowVars    == <<row, method>>
ghostVars  == <<told, doubt>>
boundVars  == <<confirms, faults>>
vars == <<mode, view, current, shown, inForm, errors, made, api, intent, row, method, reply,
          events, job, cancels, confirms, faults, told, doubt>>

--------------------------------------------------------------------------------
(* Data.                                                                      *)

Intents  == 1..MaxIntents
Open     == {"requires_payment_method", "requires_action"}
Charged  == {"processing", "succeeded"}
Status   == Open \cup Charged \cup {"canceled"}
\* mapDeclineError: a card that is flagged as lost or stolen is not worth another try.
Declines == {"declined", "blocked"}

Replies  == Status \cup Declines \cup {"unexpected", "unreachable"}
Messages == Declines \cup
  {"nothing", "invalid", "not created", "success", "processing", "received", "failed",
   "action required", "no charge", "connection"}
Views    == {"start", "creating", "form", "confirming", "away", "returned", "result"}
Idle     == [none |-> TRUE]
Jobs     == [i : Intents, status : Status, method : BOOLEAN]

\* The least amount AmountEntryForm lets through.
Minimum == 50

TypeOK ==
  /\ mode \in {"payment", "setup"}
  /\ view \in Views
  /\ current \in Intents \cup {0}
  /\ shown \in Messages /\ inForm \in Messages
  /\ errors \in 0..3
  /\ made \in 0..MaxIntents
  /\ api \in {"idle", "ask", "insert", "void"}
  /\ intent \in [Intents -> Status \cup {"none"}]
  /\ row \in [Intents -> Status \cup {"none"}]
  /\ method \in [Intents -> BOOLEAN]
  /\ reply \in [Intents -> Replies \cup {"none", "sent"}]
  /\ events \subseteq Intents \X Status
  /\ job \in [Workers -> Jobs \cup {Idle}]
  /\ cancels \subseteq Intents
  /\ confirms \in 0..MaxConfirms
  /\ faults \in 0..MaxFaults
  /\ told \subseteq Intents
  /\ doubt \subseteq Intents

Init ==
  /\ mode \in {"payment", "setup"}
  /\ view = "start"
  /\ current = 0
  /\ shown = "nothing" /\ inForm = "nothing"
  /\ errors = 0
  /\ made = 0
  /\ api = "idle"
  /\ intent = [i \in Intents |-> "none"]
  /\ row = [i \in Intents |-> "none"]
  /\ method = [i \in Intents |-> FALSE]
  /\ reply = [i \in Intents |-> "none"]
  /\ events = {}
  /\ job = [w \in Workers |-> Idle]
  /\ cancels = {}
  /\ confirms = 0
  /\ faults = 0
  /\ told = {}
  /\ doubt = {}

Fault == faults < MaxFaults /\ faults' = faults + 1

\* Stripe moves intent i and sends an event, if it has one for this status.
Moves(i, status) ==
  /\ intent' = [intent EXCEPT ![i] = status]
  /\ events' = events \cup {<<i, status>>}

--------------------------------------------------------------------------------
(* Creating an intent.                                                        *)

\* The page says message m and is where a new intent can be asked for; no form is there.
StartsAgain(m) ==
  /\ view' = "start"
  /\ current' = 0
  /\ shown' = m
  /\ inForm' = "nothing"
  /\ errors' = 0

\* AmountEntryForm: an amount that is too small goes nowhere.
TooSmall(amount) ==
  /\ mode = "payment" /\ view = "start"
  /\ amount < Minimum
  /\ shown' = "invalid"
  /\ UNCHANGED <<mode, view, current, inForm, errors, made, api, stripeVars, rowVars, job, cancels,
                 boundVars, ghostVars>>

\* A new intent is asked for, with a new key, through a server action.
Ask ==
  /\ view = "start" /\ made < MaxIntents
  /\ view' = "creating"
  /\ made' = made + 1
  /\ current' = made'
  /\ shown' = "nothing"
  /\ errors' = 0
  /\ api' = "ask"
  /\ UNCHANGED <<mode, inForm, stripeVars, rowVars, job, cancels, boundVars, ghostVars>>

\* handleSubmit of the checkout page; its "Try again" calls it with the same data.
PayAmount(amount) == mode = "payment" /\ amount >= Minimum /\ Ask

\* handleAddNew of the page of payment methods.
AddNew == mode = "setup" /\ Ask

\* create: Stripe makes the intent, with a client secret or, as a fault, without.
CreatedAtStripe ==
  /\ api = "ask"
  /\ intent' = [intent EXCEPT ![current] = "requires_payment_method"]
  /\ \/ api' = "insert" /\ UNCHANGED faults
     \/ api' = "void" /\ Fault
  /\ UNCHANGED <<mode, pageVars, made, rowVars, reply, events, job, cancels, confirms,
                 ghostVars>>

\* create: Stripe, the lookups before it or the way to the api fail.
NotCreated ==
  /\ api = "ask"
  /\ Fault
  /\ api' = "idle"
  /\ StartsAgain("not created")
  /\ UNCHANGED <<mode, made, stripeVars, rowVars, job, cancels, confirms, ghostVars>>

\* create: the row is inserted, and the page gets the client secret, or, as a fault, an
\* error in its place.
Insert ==
  /\ api = "insert"
  /\ api' = "idle"
  /\ row' = [row EXCEPT ![current] = "requires_payment_method"]
  /\ \/ view' = "form" /\ UNCHANGED <<current, shown, inForm, errors, faults>>
     \/ StartsAgain("not created") /\ Fault
  /\ UNCHANGED <<mode, made, stripeVars, method, job, cancels, confirms, ghostVars>>

InsertFails ==
  /\ api = "insert"
  /\ Fault
  /\ api' = "void"
  /\ UNCHANGED <<mode, pageVars, made, stripeVars, rowVars, job, cancels, confirms, ghostVars>>

\* create: without a row, or a secret, the intent is cancelled again, if Stripe answers.
Void ==
  /\ api = "void"
  /\ api' = "idle"
  /\ \/ Moves(current, "canceled") /\ UNCHANGED faults
     \/ Fault /\ UNCHANGED <<intent, events>>
  /\ StartsAgain("not created")
  /\ UNCHANGED <<mode, made, rowVars, reply, job, cancels, confirms, ghostVars>>

--------------------------------------------------------------------------------
(* Confirming it.                                                             *)

\* handleSubmit of PaymentForm and SetupForm.  The button is disabled while a confirmation
\* runs, and enabled again whatever the answer was.  The form forgets its error; the page
\* around it is not told, and goes on showing its own.
Submit ==
  /\ view = "form" /\ reply[current] = "none"
  /\ confirms < MaxConfirms
  /\ confirms' = confirms + 1
  /\ view' = "confirming"
  /\ inForm' = "nothing"
  /\ reply' = [reply EXCEPT ![current] = "sent"]
  /\ UNCHANGED <<mode, current, shown, errors, made, api, intent, events, rowVars, job,
                 cancels, faults, ghostVars>>

\* clearError of the form, when something in it changes.
Edit ==
  /\ inForm # "nothing"
  /\ inForm' = "nothing"
  /\ UNCHANGED <<mode, view, current, shown, errors, made, api, stripeVars, rowVars, job,
                 cancels, boundVars, ghostVars>>

\* Stripe confirms an open intent, and refuses one that is not open any more.
ConfirmAtStripe(i) ==
  /\ reply[i] = "sent"
  /\ IF intent[i] \in Open
     THEN \/ \E s \in Charged \cup {"requires_action"} :
               Moves(i, s) /\ reply' = [reply EXCEPT ![i] = s]
          \/ /\ Moves(i, "requires_payment_method")
             /\ \E d \in Declines : reply' = [reply EXCEPT ![i] = d]
     ELSE reply' = [reply EXCEPT ![i] = "unexpected"] /\ UNCHANGED <<intent, events>>
  /\ UNCHANGED <<mode, pageVars, made, api, rowVars, job, cancels, boundVars, ghostVars>>

\* The confirmation, or its answer, is lost.
ConfirmLost(i) ==
  /\ reply[i] \notin {"none", "unreachable"}
  /\ Fault
  /\ reply' = [reply EXCEPT ![i] = "unreachable"]
  /\ doubt' = IF intent[i] \in Charged \cup {"requires_action"} THEN doubt \cup {i} ELSE doubt
  /\ UNCHANGED <<mode, pageVars, made, api, intent, events, rowVars, job, cancels, confirms,
                 told>>

\* mapStripeError, for the errors that confirmPayment and confirmSetup come back with.
ErrorMessage(r) == CASE r \in Declines     -> r
                     [] r = "unreachable" -> "connection"
                     [] r = "unexpected"  -> "no charge"

\* Faulty PaymentMessage: a status without a case of its own falls to the default.
DefaultMessage(r) == IF r = "requires_action" THEN "action required" ELSE "no charge"

\* mapPaymentIntentStatus, for what is not a success ...
PaymentMessage(r) == IF r = "requires_action" THEN "action required" ELSE "processing"

\* ... and mapSetupIntentStatus: "Verification in progress".
SetupMessage(r) == IF r = "requires_action" THEN "action required" ELSE "processing"

\* What the user takes from a message.
Tells(message) ==
  told' = IF message \in {"success", "processing", "received"}
          THEN told \cup {current} ELSE told

Heard == reply' = [reply EXCEPT ![current] = "none"]

\* handleSuccess of CheckoutForm.
PaymentSucceeds ==
  /\ mode = "payment" /\ view = "confirming" /\ reply[current] = "succeeded"
  /\ view' = "result"
  /\ shown' = "success" /\ inForm' = "nothing"
  /\ Tells(shown')
  /\ Heard
  /\ UNCHANGED <<mode, current, errors, made, api, intent, events, rowVars, job, cancels,
                 boundVars, doubt>>

\* handleSetupSuccess: the form closes and the list, with the new method, is read again.
SetupSucceeds ==
  /\ mode = "setup" /\ view = "confirming" /\ reply[current] = "succeeded"
  /\ StartsAgain("nothing")
  /\ told' = told \cup {current}
  /\ Heard
  /\ UNCHANGED <<mode, made, api, intent, events, rowVars, job, cancels, boundVars, doubt>>

\* The form is told of anything else: a message in the form and over it, which can be
\* submitted again.  An intent that is being processed ends here too, as an error.
Fails(message) ==
  LET r == reply[current] IN
  /\ view = "confirming" /\ r \notin {"none", "sent", "succeeded"}
  /\ view' = "form"
  /\ shown' = IF r \in Status THEN message ELSE ErrorMessage(r)
  /\ inForm' = shown'
  /\ Tells(shown')
  /\ doubt' = IF r = "requires_action" THEN doubt \cup {current} ELSE doubt
  /\ Heard
  /\ UNCHANGED <<mode, current, made, api, intent, events, rowVars, job, cancels, boundVars>>

\* handleError of CheckoutForm counts the errors, that of the other page does not.
PaymentFails ==
  /\ mode = "payment"
  /\ Fails(PaymentMessage(reply[current]))
  /\ errors' = IF errors < 3 THEN errors + 1 ELSE errors

SetupFails ==
  /\ mode = "setup"
  /\ Fails(SetupMessage(reply[current]))
  /\ UNCHANGED errors

\* `redirect: 'if_required'`: the bank needs the browser, which leaves the page.
Redirected ==
  /\ view = "confirming" /\ reply[current] = "requires_action"
  /\ view' = "away"
  /\ shown' = "nothing" /\ inForm' = "nothing"
  /\ reply' = [reply EXCEPT ![current] = "none"]
  /\ UNCHANGED <<mode, current, errors, made, api, intent, events, rowVars, job, cancels,
                 boundVars, ghostVars>>

\* The messages that come with another try.
Recoverable == {"declined", "action required", "no charge", "connection"}

\* The page forgets its message, also while a confirmation runs; that of the form stays.
ClearsMessage ==
  /\ view \in {"form", "confirming"} /\ shown \in Recoverable
  /\ shown' = "nothing"
  /\ UNCHANGED <<mode, view, current, inForm, errors, made, api, stripeVars, rowVars, job, cancels,
                 boundVars, ghostVars>>

\* handleRetry: "Try again" over the form; after three errors CheckoutForm offers support
\* in its place, and the button of the form stays.
TryAgain == mode = "payment" /\ errors < 3 /\ ClearsMessage

\* handleRetrySetup.
TrySetupAgain == mode = "setup" /\ ClearsMessage

\* The page forgets the intent, also while a confirmation runs, and nobody cancels it.
Forgets ==
  /\ view \in {"form", "confirming"}
  /\ doubt' = IF reply[current] # "none" \/ intent[current] = "requires_action"
              THEN doubt \cup {current} ELSE doubt
  /\ StartsAgain("nothing")
  /\ UNCHANGED <<mode, made, api, stripeVars, rowVars, job, cancels, boundVars, told>>

\* "Change amount".
Back == mode = "payment" /\ Forgets

\* "Cancel", under SetupForm.
CloseForm == mode = "setup" /\ Forgets

\* Nobody is waiting for this answer any more.
Unheard(i) ==
  /\ reply[i] \notin {"none", "sent"} /\ i # current
  /\ reply' = [reply EXCEPT ![i] = "none"]
  /\ UNCHANGED <<mode, pageVars, made, api, intent, events, rowVars, job, cancels, boundVars,
                 ghostVars>>

--------------------------------------------------------------------------------
(* The bank, and the way back.                                                *)

\* The bank, or Stripe, decides on an intent that waits for it, whether or not the user
\* is still there.
Settles(i) ==
  /\ intent[i] \in {"requires_action", "processing"} /\ reply[i] # "sent"
  /\ \E s \in Charged \cup {"requires_payment_method"} : s # intent[i] /\ Moves(i, s)
  /\ UNCHANGED <<mode, pageVars, made, api, reply, rowVars, job, cancels, boundVars,
                 ghostVars>>

\* The bank sends the browser back, with the outcome as redirect_status ...
Returns ==
  /\ view = "away" /\ intent[current] # "requires_action"
  /\ view' = "returned"
  /\ UNCHANGED <<mode, current, shown, inForm, errors, made, api, stripeVars, rowVars, job, cancels,
                 boundVars, ghostVars>>

\* ... or the user leaves it alone.
LeavesBank ==
  /\ view = "away"
  /\ doubt' = doubt \cup {current}
  /\ StartsAgain("nothing")
  /\ UNCHANGED <<mode, made, api, stripeVars, rowVars, job, cancels, boundVars, told>>

\* Faulty Verdict: what has not succeeded has failed.
Strict(status) == IF status = "succeeded" THEN "success" ELSE "failed"

\* Faulty Verdict: the status itself is shown.
Raw(status) == IF status = "succeeded" THEN "success" ELSE status

\* verifyPaymentIntent: what the page says of the status it reads.  "Payment received" is
\* also the heading for what it cannot verify.
Verdict(status) ==
  CASE status = "succeeded"                               -> "success"
    [] status = "processing"                              -> "processing"
    [] status \in {"requires_payment_method", "canceled"} -> "failed"
    [] OTHER                                              -> "received"

\* buildRedirectFallback: without a session, redirect_status has the word.
Fallback(status) ==
  CASE status = "succeeded"  -> "success"
    [] status = "processing" -> "processing"
    [] OTHER                 -> "received"

\* The page reads the row, which the events may not have reached yet.
Verify ==
  /\ mode = "payment" /\ view = "returned"
  /\ view' = "result"
  /\ \/ shown' = Verdict(row[current]) /\ UNCHANGED faults
     \/ shown' \in {Fallback(intent[current]), "received"} /\ Fault
  /\ Tells(shown')
  /\ doubt' = IF row[current] # intent[current] THEN doubt \cup {current} ELSE doubt
  /\ UNCHANGED <<mode, current, inForm, errors, made, api, stripeVars, rowVars, job, cancels,
                 confirms>>

\* The page of payment methods does not look at what it was returned with.
ReturnToList ==
  /\ mode = "setup" /\ view = "returned"
  /\ doubt' = doubt \cup {current}
  /\ StartsAgain("nothing")
  /\ UNCHANGED <<mode, made, api, stripeVars, rowVars, job, cancels, boundVars, told>>

\* "Home", or "Retry" after a failure.
Leave ==
  /\ view = "result"
  /\ StartsAgain("nothing")
  /\ UNCHANGED <<mode, made, api, stripeVars, rowVars, job, cancels, boundVars, ghostVars>>

--------------------------------------------------------------------------------
(* Events, and requests of the api.                                           *)

\* updateStatus, to the row: an intent without one is ignored, and the event is done.
ReadRow(w, e) ==
  /\ job[w] = Idle /\ row[e[1]] # "none"
  /\ job' = [job EXCEPT ![w] = [i |-> e[1], status |-> e[2], method |-> method[e[1]]]]
  /\ UNCHANGED <<mode, pageVars, made, api, stripeVars, rowVars, cancels, boundVars,
                 ghostVars>>

\* Only setup_intent.succeeded brings the payment method.
Brings(status) == mode = "setup" /\ status = "succeeded"

\* Faulty Kept: an event without a payment method writes NULL.
Overwritten(status, read) == Brings(status)

\* stripePaymentMethodId ?? si.stripePaymentMethodId: otherwise what was read is kept.
Kept(status, read) == Brings(status) \/ read

\* updateStatus, from the row on: status and payment method are written as one.
WriteRow(w) ==
  /\ job[w] # Idle
  /\ row' = [row EXCEPT ![job[w].i] = job[w].status]
  /\ method' = [method EXCEPT ![job[w].i] = Kept(job[w].status, job[w].method)]
  /\ job' = [job EXCEPT ![w] = Idle]
  /\ UNCHANGED <<mode, pageVars, made, api, stripeVars, cancels, boundVars, ghostVars>>

\* The database fails, and the event comes again.
WriteFails(w) ==
  /\ job[w] # Idle
  /\ Fault
  /\ job' = [job EXCEPT ![w] = Idle]
  /\ UNCHANGED <<mode, pageVars, made, api, stripeVars, rowVars, cancels, confirms, ghostVars>>

\* What the handlers of the two modes have a case for; an entry in the audit log, which the
\* webhooks app writes for some of them, is left out.
SetupEvents   == {"succeeded", "requires_payment_method", "canceled", "requires_action"}
PaymentEvents == SetupEvents \cup {"processing"}

HandleSetup(w)   == \E e \in events : mode = "setup" /\ e[2] \in SetupEvents /\ ReadRow(w, e)
HandlePayment(w) ==
  \E e \in events : mode = "payment" /\ e[2] \in PaymentEvents /\ ReadRow(w, e)

\* DELETE /setup-intents/:id: cancelled at Stripe, and then in the row.
Cancel(i) ==
  /\ mode = "setup" /\ row[i] # "none" /\ intent[i] \in Open /\ reply[i] # "sent"
  /\ Fault
  /\ Moves(i, "canceled")
  /\ cancels' = cancels \cup {i}
  /\ UNCHANGED <<mode, pageVars, made, api, reply, rowVars, job, confirms, ghostVars>>

CancelInRow(i) ==
  /\ i \in cancels
  /\ cancels' = cancels \ {i}
  /\ row' = [row EXCEPT ![i] = "canceled"]
  /\ UNCHANGED <<mode, pageVars, made, api, stripeVars, method, job, boundVars, ghostVars>>

--------------------------------------------------------------------------------

Next ==
  \/ \E a \in Amounts : TooSmall(a) \/ PayAmount(a)
  \/ AddNew \/ CreatedAtStripe \/ NotCreated \/ Insert \/ InsertFails \/ Void
  \/ Submit \/ Edit \/ PaymentSucceeds \/ SetupSucceeds \/ PaymentFails \/ SetupFails
  \/ Redirected \/ TryAgain \/ TrySetupAgain \/ Back \/ CloseForm
  \/ Returns \/ LeavesBank \/ Verify \/ ReturnToList \/ Leave
  \/ \E i \in Intents : \/ ConfirmAtStripe(i) \/ ConfirmLost(i) \/ Unheard(i)
                        \/ Settles(i) \/ Cancel(i) \/ CancelInRow(i)
  \/ \E w \in Workers : HandleSetup(w) \/ HandlePayment(w) \/ WriteRow(w) \/ WriteFails(w)

Spec == Init /\ [][Next]_vars

--------------------------------------------------------------------------------
(* Properties.                                                                *)

\* What denies a charge.
Denials == Declines \cup {"failed", "no charge"}

\* The intent was not charged and nothing is under way, unless the answer to a confirmation
\* was lost, the user was told before that it is being processed, or the page read the row
\* before the event was written.
NotChargedOrInDoubt == intent[current] \notin Charged \/ current \in doubt \cup told

\* When the form or the page says that the payment failed, was declined or was not charged,
\* it was not (stripe-errors.ts:181, payment-intent-verify.ts:74).  The page has one more
\* excuse: while another confirmation of the same intent runs it still shows the error of
\* the one before, although Stripe may have charged by then (CheckoutForm.tsx:90); with the
\* answer that is over.
ToldTheTruth ==
  /\ inForm \in Denials => NotChargedOrInDoubt
  /\ shown \in Denials => NotChargedOrInDoubt \/ view = "confirming"

\* Nobody pays twice without knowing: an intent that the user has left behind for a new one
\* is charged only if the user was told so, or has left it at the bank or with an answer
\* still missing, or could not be told (CheckoutForm.tsx:88, checkout/page.tsx:70).
NoSilentCharge ==
  \A i \in Intents \ {current} : intent[i] \in Charged => i \in told \cup doubt

\* A saved payment method is lost from the row of its intent only to a handler that had read
\* the row before it was there; a row that says "succeeded" names it
\* (setup-intents.service.ts:147).
MethodIsKept ==
  [][\A i \in Intents :
       /\ method[i] /\ ~method'[i] =>
            \E w \in Workers : job[w] # Idle /\ job[w].i = i /\ ~job[w].method
       /\ mode = "setup" /\ row'[i] = "succeeded" => method'[i]]_vars

================================================================================
