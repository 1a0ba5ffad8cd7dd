\* One job after the other, any of which may die, while the service writes.
SPECIFICATION Spec
CONSTANTS
  o1 = o1  o2 = o2  o3 = o3
  s1 = s1  s2 = s2  s3 = s3
  SourceId = {s1, s2, s3}
  Selected = {s1, s2}
  Observation = {o1, o2, o3}
  Job = {j1}
  MaxRuns = 3
  MaxWrites = 2
  Begun <- Stores
  None = None
  Blank = Blank
INVARIANTS
  TypeOK
  NoDanglingRows
  FinishedCopyIsWhole
  BaselineCarried
