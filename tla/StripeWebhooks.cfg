CONSTANTS
  e1 = e1
  d1 = d1
  d2 = d2
  Events = {e1}
  Deliveries = {d1, d2}
  EventOf <- Repeated
  MaxAttempts = 2
  MaxStalls = 1
  WorkerSlots = 2

SPECIFICATION FairSpec
CHECK_DEADLOCK FALSE

INVARIANTS
  TypeOK
  ProcessedWasHandled
  AckedIsAccounted
  NeverForgotten
PROPERTIES
  ExhaustedGoesToDlq
  ImplementsInbox
