\* Two threads claim for two candidates with keys they may mix up, while the
\* candidates are evaluated again and an operator reconciles.
SPECIFICATION PSpec
CONSTANTS
  Candidate = {c1, c2}
  Adapters = {"teams-workflow"}
  Key = {k1, k2}
  Worker = {w1, w2}
  Operator = {op}
  RetryDelay = 0
  MaxTime = 0
  Null = Null
  Nothing = Nothing
SYMMETRY Symmetry
VIEW AllButAccepted
INVARIANTS
  LocksBelongToClaims
  OneAttemptPerKey
PROPERTIES
  ImplementsContract
  ClaimsWhileEligible
