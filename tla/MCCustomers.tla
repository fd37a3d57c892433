----------------------------- MODULE MCCustomers -----------------------------
(* Model values for Customers.                                               *)
EXTENDS Customers

CONSTANTS c1, c2

OpOrder ==
  <<"session", "delete", "sync", "form", "patch", "customer.updated", "customer.deleted">>

\* Every pair of operations; the calls are interchangeable, so one order of each pair.
Pairs ==
  {f \in [Calls -> Ops] :
     \E i, j \in 1..Len(OpOrder) : i <= j /\ f[c1] = OpOrder[i] /\ f[c2] = OpOrder[j]}
==============================================================================
