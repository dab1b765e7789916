CONSTANTS
  j1 = j1  j2 = j2  j3 = j3
  project = project  inner = inner  other = other
  codex = codex  s1 = s1  k1 = k1
  NoProvider = NoProvider  NoSession = NoSession  NoKey = NoKey  NoJob = NoJob
  Jobs = {j1, j2, j3}
  Directories = {project, inner, other}
  Providers = {codex}
  Sessions = {s1}
  Keys = {k1}
  Lineage <- MCLineage
  Rank <- MCRank
  Request <- RequestNested
  Stamps = {1}
  Outcomes = {"succeeded"}
  Cancellable = {}
  Failing = {}
  Polled = {j1}
  MaxFaults = 0
  StaleViews = FALSE
SPECIFICATION Spec
INVARIANT NestedNeverWaits
CHECK_DEADLOCK FALSE
