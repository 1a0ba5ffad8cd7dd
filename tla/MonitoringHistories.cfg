\* One thread checks, edits and evaluates while another evaluates.
SPECIFICATION Spec
CONSTANTS
  Checker = {t1}
  Scheduler = {t1}
  Reviewer = {}
  Evaluator = {t1, t2}
  Editor = {t1}
  Interval = 1
  Retention = 1
  PruneLimit = 10
  IncidentLimit = 3
  MaxObservations = 4
  MaxTime = 3
  Windows = {1}
  MinimumHistory = 1
  MaximumHistory = 2
  Null = Null
  t1 = t1
  t2 = t2
  Definitions <- Revised
  Results <- HealthResults
VIEW View
INVARIANTS
  TypeOK
  ScorecardTellsIncidents
  IncidentWasAnnounced
PROPERTIES
  DecisionRevisedInFlight
