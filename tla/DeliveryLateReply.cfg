\* A reply that comes after the operator decided overwrites the decision.
SPECIFICATION Spec
CONSTANTS
  Candidate = {c1}
  Adapters = {"teams-workflow"}
  Key = {k1, k2}
  Worker = {w1, w2}
  Operator = {op}
  RetryDelay = 1
  MaxTime = 1
  ScanLimits = {1, 3}
  QueueLimits = {1}
  StaleAfter = 1
  Null = Null
  Nothing = Nothing
PROPERTIES
  ReconciledSuccessBlocksAttempts
