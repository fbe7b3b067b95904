SPECIFICATION FairSpec
CONSTANTS
  Jobs = {j1}
  Workers = {w1, w2}
  MaxAttempts = 2
  Batch = 1
  None = None
INVARIANTS TypeOK AttemptHasOneDispatcher SupersededAttemptAudited PrintedByCurrentAttempt
PROPERTIES EveryJobSettles
