CONSTANTS
  p1 = p1
  p2 = p2
  r1 = r1
  r2 = r2
  s1 = s1
  t1 = t1
  Processes = {p1, p2}
  Records = {r1, r2}
  SubscriptionOf <- OneSubscription
  DevTriggers = {t1}
  LastMonth = 2
  LastDay = 2
  ChargeDay = 2

SPECIFICATION Spec
SYMMETRY BillingSymmetry
CHECK_DEADLOCK FALSE

INVARIANTS
  TypeOK
  ChargedOncePerProcess
  LeftBehindIsSettled
PROPERTIES
  OutcomeChangesByPeersOnly
