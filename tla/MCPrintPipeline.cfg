SPECIFICATION PipelineSpec
CONSTANTS
  Jobs = {j1}
  Workers = {w1}
  Agents = {a1}
  MaxAttempts = 3
  Batch = 1
  None = None
INVARIANTS PrintedMeansPaper SuccessIsDurable OnePaperPerAttempt
PROPERTIES LedgerStopsPaper ImplementsOutbox OutboxLifecycle
