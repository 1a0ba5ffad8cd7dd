\* Two threads deliver one candidate over Teams and by dry run, with keys they
\* may mix up, an operator reconciles, and a retry is due one unit of time after
\* a failure.
SPECIFICATION Spec
CONSTANTS
  Candidate = {c1}
  Adapters = {"teams-workflow", "dry-run"}
  Key = {k1, k2}
  Worker = {w1, w2}
  Operator = {op}
  RetryDelay = 1
  MaxTime = 1
  ScanLimits = {1, 3}
  QueueLimits = {1}
  StaleAfter = 1
  Null = Null
  Nothing = Nothing
SYMMETRY Symmetry
INVARIANTS
  TypeOK
  NoBlindRetry
  SendOnce
  LiveSendsMarked
  RetrySpacing
  DecisionAgreesWithClaim
  QueueOmitsNothing
PROPERTIES
  ImplementsContract
