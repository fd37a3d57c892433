------------------------------- MODULE MCBilling -------------------------------
(* Model values for Billing.                                                   *)
EXTENDS Billing, TLC

CONSTANTS p1, p2, r1, r2, s1, t1

\* All records bill one subscription.
OneSubscription == [r \in Records |-> s1]

BillingSymmetry == Permutations(Records) \cup Permutations(Processes)
===============================================================================
