\* Two workspaces, a thread each, over either kind of backend; they use the
\* same source ids but do not both add one at the same moment.
SPECIFICATION Spec
CONSTANTS
  w1 = w1  w2 = w2  t1 = t1  t2 = t2
  Workspace = {w1, w2}
  SourceId = {s1, s2}
  Observation = {o1, o2}
  Thread = {t1, t2}
  BoundTo <- TwoThreads
  Decisions = {"Eligible"}
  Outcomes = {"Failed"}
  SerialAdds = TRUE
  Shared = Shared
  None = None
SYMMETRY Symmetry
INVARIANTS
  TypeOK
PROPERTIES
  ImplementsPrivateStores
