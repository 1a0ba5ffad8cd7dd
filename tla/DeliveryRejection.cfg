\* Resend accepts a message and answers without an id.
SPECIFICATION Spec
CONSTANTS
  Candidate = {c1}
  Adapters = {"resend-email"}
  Key = {k1, k2}
  Worker = {w1, w2}
  Operator = {}
  RetryDelay = 0
  MaxTime = 0
  ScanLimits = {1}
  QueueLimits = {1}
  StaleAfter = 1
  Null = Null
  Nothing = Nothing
INVARIANTS
  RejectionIsDefinitive
