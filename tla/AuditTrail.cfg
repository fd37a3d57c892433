CONSTANTS
  e1 = e1
  d1 = d1
  d2 = d2
  Events = {e1}
  Deliveries = {d1, d2}
  EventOf <- Repeated
  MaxAttempts = 2
  MaxStalls = 1
  WorkerSlots = 2
  Types = {"payment_intent.succeeded"}

SPECIFICATION SpecT
CHECK_DEADLOCK FALSE

INVARIANT
  OneRecordPerEvent
