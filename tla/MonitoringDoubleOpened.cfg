\* Counterexample: two overlapping checks both raise Opened (service.py:503).
SPECIFICATION Spec
CONSTANTS
  Checker = {t1, t2}
  Scheduler = {}
  Reviewer = {}
  Evaluator = {}
  Editor = {t1}
  Interval = 1
  Retention = 1
  PruneLimit = 10
  IncidentLimit = 10
  MaxObservations = 3
  MaxTime = 0
  Windows = {1}
  MinimumHistory = 1
  MaximumHistory = 2
  Null = Null
  t1 = t1
  t2 = t2
  Definitions <- Policies
  Results <- HealthResults
INVARIANTS
  OneOpenedPerIncident
