CONSTANTS
  b1 = b1
  b2 = b2
  s1 = s1
  Tabs = {b1, b2}
  Servers = {s1}
  Limit <- FewRequests
  MaxRequests = 3
  MaxFaults = 1

SPECIFICATION Spec
SYMMETRY TabSymmetry
CHECK_DEADLOCK FALSE

INVARIANTS
  TypeOK
  SessionSurvives
  SpentOnce
  CounterEnds
