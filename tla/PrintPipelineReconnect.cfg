SPECIFICATION FairPipelineSpec
CONSTANTS
  Jobs = {j1}
  Workers = {w1}
  Agents = {a1}
  MaxAttempts = 1
  Batch = 1
  None = None
PROPERTIES AgentReconnects
