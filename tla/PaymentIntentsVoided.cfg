CONSTANTS
  u1 = u1
  k1 = k1
  k2 = k2
  r1 = r1
  r2 = r2
  r3 = r3
  Users = {u1}
  Keys = {k1, k2}
  Requests = {r1, r2, r3}
  KeyOf <- RepeatAndNext
  UserOf <- OneUser

SPECIFICATION Spec
CHECK_DEADLOCK FALSE

INVARIANT ReturnedIsNotVoided
