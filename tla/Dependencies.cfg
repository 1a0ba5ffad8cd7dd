CONSTANTS
  Guard = {sales, stock}
  Source = {s1, s2}
  Dataset = {model}
  Report = {r1, r2}
  sales = sales
  stock = stock
  s1 = s1
  s2 = s2
  model = model
  r1 = r1
  r2 = r2
  ReportsOf <- TheReports
  Configured <- TheDefinitions
  Monitored <- TheHealths
  UserEdges <- TheUserEdges
  Worker = {w1, w2}
  Null = Null
  MaxChecks = 2
  MaxEdits = 1
  MaxObservations = 1
SYMMETRY Workers
SPECIFICATION Spec
CHECK_DEADLOCK FALSE
INVARIANTS
  HealthyIsJustified
  BlastRadiusIsReachability
PROPERTIES
  DiscoveryIsComplete
