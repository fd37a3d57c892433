----------------------------- MODULE WebhookInbox -----------------------------
(***************************************************************************)
(* What the Stripe webhook pipeline promises to Stripe, with no database,  *)
(* queue or worker in sight: an event is recorded, then work for it is     *)
(* queued, then it is handled or given up on, and it is acknowledged only  *)
(* once there is work for it or nothing is left to do.  StripeWebhooks     *)
(* implements this module.                                                 *)
(***************************************************************************)

CONSTANT Events       \* Stripe event identifiers

VARIABLES
  status,             \* status[e]: how far the pipeline has got with event e
  acknowledged        \* the events for which Stripe has been answered 200

vars == <<status, acknowledged>>

Statuses == {"new", "recorded", "queued", "handled", "dead"}

TypeOK ==
  /\ status \in [Events -> Statuses]
  /\ acknowledged \subseteq Events

Init ==
  /\ status = [e \in Events |-> "new"]
  /\ acknowledged = {}

Move(e, from, to) ==
  /\ status[e] \in from
  /\ status' = [status EXCEPT ![e] = to]
  /\ UNCHANGED acknowledged

Record(e)  == Move(e, {"new"}, "recorded")
Enqueue(e) == Move(e, {"recorded", "dead"}, "queued")
Handle(e)  == Move(e, {"queued"}, "handled")
GiveUp(e)  == Move(e, {"queued"}, "dead")

Acknowledge(e) ==
  /\ status[e] \in {"queued", "handled", "dead"}
  /\ acknowledged' = acknowledged \cup {e}
  /\ UNCHANGED status

Settle(e) == Handle(e) \/ GiveUp(e)

Next ==
  \E e \in Events : Record(e) \/ Enqueue(e) \/ Settle(e) \/ Acknowledge(e)

\* Only the work that was queued is promised: whether Stripe delivers an event
\* (again) is up to Stripe.
Spec == Init /\ [][Next]_vars /\ \A e \in Events : WF_vars(Settle(e))
===============================================================================
