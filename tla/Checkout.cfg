CONSTANTS
  w1 = w1
  w2 = w2
  Workers = {w1, w2}
  Amounts <- AroundMinimum
  MaxIntents = 2
  MaxConfirms = 2
  MaxFaults = 1

SPECIFICATION Spec
SYMMETRY WorkerSymmetry
CHECK_DEADLOCK FALSE

INVARIANTS
  TypeOK
  ToldTheTruth
  

PROPERTIES
  MethodIsKept
