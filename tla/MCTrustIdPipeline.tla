--------------------------- MODULE MCTrustIdPipeline ---------------------------
(* Model values for TrustIdPipeline.                                           *)
EXTENDS TrustIdPipeline

CONSTANTS m1, m2
===============================================================================
