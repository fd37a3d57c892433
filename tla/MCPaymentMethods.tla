--------------------------- MODULE MCPaymentMethods ---------------------------
(* Model values for PaymentMethods.                                            *)
EXTENDS PaymentMethods, TLC

CONSTANTS p1, p2, r1, r2

\* Payment methods are interchangeable, and so are requests.
Interchangeable == Permutations(PMs) \cup Permutations(Requests)
===============================================================================
