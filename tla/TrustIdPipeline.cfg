CONSTANTS
  m1 = m1
  m2 = m2
  Messages = {m1, m2}
  MaxAttempts = 2
  MaxRetries = 1
  Spelling = "names"
SPECIFICATION PipelineFairSpec
INVARIANTS
  PipelineTypeOK
  VerdictHasReason
PROPERTY
  JobsSettle
CHECK_DEADLOCK FALSE
