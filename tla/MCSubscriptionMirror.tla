--------------------------- MODULE MCSubscriptionMirror ---------------------------
(* Model values for SubscriptionMirror: a request and its repeats with one key,  *)
(* and a worker of each app.                                                     *)
EXTENDS SubscriptionMirror, TLC

CONSTANTS s1, r1, api, webhooks

MCPlanOf == [s \in Subs |-> "plan"]
MCSubOf  == [r \in Requests |-> s1]
MCAppOf  == (api :> "api") @@ (webhooks :> "webhooks")
===============================================================================
