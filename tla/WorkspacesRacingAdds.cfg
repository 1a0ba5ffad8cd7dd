\* Two workspaces add sources to the one key space of the legacy backend.
SPECIFICATION Spec
CONSTANTS
  w1 = w1  w2 = w2  t1 = t1  t2 = t2
  Workspace = {w1, w2}
  SourceId = {s1}
  Observation = {o1}
  Thread = {t1, t2}
  BoundTo <- TwoThreads
  Decisions = {"Eligible"}
  Outcomes = {"Failed"}
  SerialAdds = FALSE
  Shared = Shared
  None = None
PROPERTIES
  SourcesKeepTheirWorkspace
