CONSTANTS
  j1 = j1  j2 = j2  j3 = j3
  project = project  inner = inner  other = other
  codex = codex  s1 = s1  k1 = k1
  NoProvider = NoProvider  NoSession = NoSession  NoKey = NoKey  NoJob = NoJob
  Jobs = {j1}
  Directories = {project, inner, other}
  Providers = {codex}
  Sessions = {s1}
  Keys = {k1}
  Lineage <- MCLineage
  Rank <- MCRank
  Request <- RequestOne
  Stamps = {1}
  Outcomes = {"succeeded"}
  Cancellable = {j1}
  Failing = {j1}
  Polled = {j1}
  MaxFaults = 3
  StaleViews = TRUE
SPECIFICATION PolledSpec
PROPERTIES CancelConverges
CHECK_DEADLOCK FALSE
