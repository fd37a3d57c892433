CONSTANTS
  s1 = s1
  r1 = r1
  api = api
  webhooks = webhooks
  Subs = {s1}
  PlanOf <- MCPlanOf
  Requests = {r1}
  SubOf <- MCSubOf
  Workers = {api, webhooks}
  AppOf <- MCAppOf
  MaxAttempts = 2
  MaxMoves = 2
  MaxInvoices = 1
SPECIFICATION FairSpec
INVARIANT TypeOK
PROPERTY RowChangesHaveGrounds
PROPERTY SnapshotLeavesRow
PROPERTY CancellationIsRecorded
CHECK_DEADLOCK FALSE
