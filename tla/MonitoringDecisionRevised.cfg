\* Counterexample: two evaluations overlap with an edit of the policy (service.py:193).
SPECIFICATION Spec
CONSTANTS
  Checker = {t1}
  Scheduler = {}
  Reviewer = {}
  Evaluator = {t1, t2}
  Editor = {t1}
  Interval = 1
  Retention = 1
  PruneLimit = 10
  IncidentLimit = 10
  MaxObservations = 2
  MaxTime = 0
  Windows = {1}
  MinimumHistory = 1
  MaximumHistory = 2
  Null = Null
  t1 = t1
  t2 = t2
  Definitions <- Policies
  Results <- HealthResults
PROPERTIES
  PolicyDecisionImmutable
