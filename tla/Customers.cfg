CONSTANTS
  c1 = c1
  c2 = c2
  Calls = {c1, c2}
  Plans <- Pairs
  MaxEdits = 1

SPECIFICATION CustomerFairSpec
CHECK_DEADLOCK FALSE

INVARIANTS
  CustomerTypeOK
  RowFollowsStripe
PROPERTY DeletionTakesHold
