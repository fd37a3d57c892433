----------------------------- MODULE MCTrustTokens -----------------------------
(* Model values and symmetry for TrustTokens.                                  *)
EXTENDS TrustTokens, TLC

CONSTANTS r1, r2

Alike == Permutations(Requests)
===============================================================================
