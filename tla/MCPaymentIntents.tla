--------------------------- MODULE MCPaymentIntents ---------------------------
(* Model values and requests for PaymentIntents.                               *)
EXTENDS PaymentIntents, TLC

CONSTANTS u1, k1, k2, r1, r2, r3

\* One user's client.
OneUser == [k \in Keys |-> u1]

\* A request, a repeat of it with the same key, and the user's next request.
RepeatAndNext == (r1 :> k1) @@ (r2 :> k1) @@ (r3 :> k2)
===============================================================================
