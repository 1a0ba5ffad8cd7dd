\* Two threads run due checks, promote and prune.
SPECIFICATION OSpec
CONSTANTS
  Checker = {}
  Scheduler = {t1, t2}
  Reviewer = {t1, t2}
  Evaluator = {}
  Editor = {t1, t2}
  Interval = 1
  Retention = 1
  PruneLimit = 2
  IncidentLimit = 10
  MaxObservations = 3
  MaxTime = 1
  Null = Null
  t1 = t1
  t2 = t2
  Definitions <- Keyed
  Results <- RowResults
SYMMETRY Symmetry
INVARIANTS
  RetentionBound
  CandidatesMatchHistory
  DueChecksSpaced
PROPERTIES
  GuardedPromotion
  PruneKeepsWindow
