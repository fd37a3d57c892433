------------------------------ MODULE MCCheckout ------------------------------
(* Model values for Checkout.                                                  *)
EXTENDS Checkout, TLC

CONSTANTS w1, w2

\* One cent too few, and the least that is enough.
AroundMinimum == {Minimum - 1, Minimum}

\* Workers are interchangeable.
WorkerSymmetry == Permutations(Workers)
===============================================================================
