------------------------------ MODULE MCSessions ------------------------------
(* Model values for Sessions.                                                  *)
EXTENDS Sessions, TLC

CONSTANTS b1, b2, s1

\* A minute admits one registration, one login and two refreshes.
FewRequests == [r \in Routes |-> IF r = "refresh" THEN 2 ELSE 1]

\* Tabs are interchangeable.
TabSymmetry == Permutations(Tabs)
===============================================================================
