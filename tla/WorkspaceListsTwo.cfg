\* One of two workspaces lists candidates, two at most, while both write.
SPECIFICATION LSpec
CONSTANTS
  w1 = w1  w2 = w2  t1 = t1  t2 = t2
  Workspace = {w1, w2}
  SourceId = {s1, s2}
  Observation = {o1, o2, o3}
  Thread = {t1, t2}
  BoundTo <- TwoThreads
  Decisions = {}
  Outcomes = {}
  Viewer = {w1}
  ListLimit = 2
  SerialAdds = TRUE
  Shared = Shared
  None = None
VIEW AllButValues
SYMMETRY Symmetry
INVARIANTS
  ListsTellOwn
