CONSTANTS
  r1 = r1
  r2 = r2
  Requests = {r1, r2}
SPECIFICATION Spec
SYMMETRY Alike
INVARIANTS
  TypeOK
  BelievedWasTrue
  SettledOnce
CHECK_DEADLOCK FALSE
