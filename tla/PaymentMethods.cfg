CONSTANTS
  p1 = p1
  p2 = p2
  r1 = r1
  r2 = r2
  PMs = {p1, p2}
  Requests = {r1, r2}
  MaxEvents = 2
  MaxAttempts = 2
  MaxRows = 3

SPECIFICATION Spec
SYMMETRY Interchangeable
CHECK_DEADLOCK FALSE

INVARIANTS
  TypeOK
  OneDefaultUnlessRaced
  HandledIsListed
