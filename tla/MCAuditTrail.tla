----------------------------- MODULE MCAuditTrail -----------------------------
(* Model values, deliveries and types for AuditTrail.                          *)
EXTENDS AuditTrail, TLC

CONSTANTS e1, d1, d2

\* Two deliveries of one event: the first and a repeat.
Repeated == (d1 :> e1) @@ (d2 :> e1)
===============================================================================
