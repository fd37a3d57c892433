------------------------------- MODULE AuditTrail -------------------------------
(***************************************************************************)
(* The audit trail of the Stripe events: StripeWebhooks, and the entries   *)
(* of AUDIT_LOGS that the handlers write about an event.                   *)
(*                                                                         *)
(* The workers of both apps take the jobs of one queue and have handlers   *)
(* of their own, which are registered for the same types of events but do  *)
(* not record the same ones.  A handler writes its entry as the last thing *)
(* it does; AuditService.log never throws, an entry that cannot be written *)
(* is lost.  Entries are never changed or deleted.                         *)
(*                                                                         *)
(* Abstracted: what an entry says.  The types that neither app records     *)
(* are represented by one, "charge.succeeded".                             *)
(***************************************************************************)
EXTENDS StripeWebhooks

CONSTANT
  Types    \* types of events that Stripe sends

VARIABLES
  type,    \* type[e]: the type of event e
  trail,   \* trail[e]: the number of entries about e
  lost     \* history: the events of which an entry could not be written

trailVars == <<type, trail, lost>>
varsT     == <<vars, trailVars>>

Apps == {"api", "webhooks"}

-------------------------------------------------------------------------------
(* The registries, and what the handlers record.                               *)

\* The charge handlers differ in one type ...
ChargesInApi      == {"charge.failed"}
ChargesInWebhooks == {"charge.failed", "charge.refunded"}

DisputesInApi ==
  {"charge.dispute.created", "charge.dispute.closed", "charge.dispute.updated"}
DisputesInWebhooks ==
  {"charge.dispute.created", "charge.dispute.closed", "charge.dispute.updated"}

WarningsInApi      == {"radar.early_fraud_warning"}
WarningsInWebhooks == {"radar.early_fraud_warning"}
AccountsInApi      == {"account.updated"}
AccountsInWebhooks == {"account.updated"}

\* ... and the handlers that change rows record in the webhooks app only.
PaymentsInWebhooks ==
  {"payment_intent.succeeded", "payment_intent.payment_failed", "payment_intent.canceled"}
SetupsInWebhooks        == {"setup_intent.succeeded", "setup_intent.setup_failed"}
SubscriptionsInWebhooks == {"customer.subscription.created", "customer.subscription.deleted"}
MethodsInWebhooks       == {"payment_method.attached", "payment_method.detached"}

RecordedInApi ==
  ChargesInApi \cup DisputesInApi \cup WarningsInApi \cup AccountsInApi

RecordedInWebhooks ==
  ChargesInWebhooks \cup DisputesInWebhooks \cup WarningsInWebhooks
    \cup AccountsInWebhooks
    \cup PaymentsInWebhooks \cup SetupsInWebhooks \cup SubscriptionsInWebhooks
    \cup MethodsInWebhooks

RecordedIn(app) == IF app = "api" THEN RecordedInApi ELSE RecordedInWebhooks

RegisteredInApi      == RecordedInWebhooks \cup {"charge.succeeded"}
RegisteredInWebhooks == RecordedInWebhooks \cup {"charge.succeeded"}

TypeOKT ==
  /\ TypeOK
  /\ type \in [Events -> Types]
  /\ trail \in [Events -> Nat]
  /\ lost \subseteq Events

InitT ==
  /\ Init
  /\ type \in [Events -> Types]
  /\ trail = [e \in Events |-> 0]
  /\ lost = {}

-------------------------------------------------------------------------------

\* An event of a type without a handler is only logged, and counts as handled.
Dispatched(app, e) ==
  type[e] \in IF app = "api" THEN RegisteredInApi ELSE RegisteredInWebhooks

\* The entry of event e is written, or it is lost.
Log(e) ==
  \/ trail' = [trail EXCEPT ![e] = @ + 1] /\ UNCHANGED lost
  \/ lost' = lost \cup {e} /\ UNCHANGED trail

Record(app, e) ==
  IF Dispatched(app, e) /\ type[e] \in RecordedIn(app)
  THEN Log(e)
  ELSE UNCHANGED <<trail, lost>>

\* The handler of the app whose worker holds the job returns.
RunHandlerT(d) ==
  /\ RunHandler(d)
  /\ \E app \in Apps : Record(app, EventOf[d])
  /\ UNCHANGED type

\* Nothing else writes the trail: a handler that throws has not come to its entry.
ElsewhereT(d) ==
  /\ \/ ProcessEvent(d)
     \/ TakeJob(d)
     \/ HandlerThrows(d)
     \/ MarkProcessed(d)
     \/ MarkProcessedThrows(d)
     \/ MarkFailed(d)
     \/ MarkFailedThrows(d)
     \/ CompleteJob(d)
     \/ FailAttempt(d)
     \/ StallJob(d)
     \/ StallOut(d)
     \/ OnFailed(d)
  /\ UNCHANGED trailVars

NextT == \E d \in Deliveries : RunHandlerT(d) \/ ElsewhereT(d)

SpecT == InitT /\ [][NextT]_varsT

-------------------------------------------------------------------------------
(* Properties.                                                                 *)

\* How often a worker may have run the handler of delivery d to its end.
Runs(d) ==
  attempts[d] + stalls[d]
    + IF job[d] \in {"handled", "done", "erred", "thrown", "completed"} THEN 1 ELSE 0

\* Every run of a handler of event e: the first, second ... of each delivery.
RunsOf(e) == UNION {{d} \X (1..Runs(d)) : d \in DeliveriesOf(e)}

\* What the handlers keep to.  There is a record only of an event that was handled ...
RecordedWasHandled == \A e \in Events : trail[e] > 0 => Handled(e)

\* ... a second record takes another delivery, a failed attempt or a lost worker ...
RecordsAreFew == \A e \in Events : trail[e] <= Cardinality(RunsOf(e))

\* ... and a processed event is without a record only when an entry was lost or its
\* type is one that not both apps record.
Unrecorded(e) == e \in lost \/ \E app \in Apps : type[e] \notin RecordedIn(app)

SilenceIsExplained ==
  \A e \in Events : row[e] = "processed" /\ trail[e] = 0 => Unrecorded(e)

\* All of it.
RecordsAreExplained == RecordedWasHandled /\ RecordsAreFew /\ SilenceIsExplained

-------------------------------------------------------------------------------
(* What the repository says and the code does not do.                          *)

\* CONTEXT.md, policy 5: "Webhooks produce one audit record per event (not per
\* side-effect)".  Here of the events only that some handler records, and of which
\* no entry was lost to a failed insert: once processed, one has exactly one record.
OneRecordPerEvent ==
  \A e \in Events :
    row[e] = "processed" /\ e \notin lost /\ type[e] \in RecordedInApi \cup RecordedInWebhooks
      => trail[e] = 1
===============================================================================
