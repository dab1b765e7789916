CONSTANTS
  j1 = j1  j2 = j2  j3 = j3
  project = project  inner = inner  other = other
  codex = codex  s1 = s1  k1 = k1
  NoProvider = NoProvider  NoSession = NoSession  NoKey = NoKey  NoJob = NoJob
  Jobs = {j1, j2}
  Directories = {project, inner, other}
  Providers = {codex}
  Sessions = {s1}
  Keys = {k1}
  Lineage <- MCLineage
  Rank <- MCRank
  Request <- RequestPair
  Stamps = {1}
  Outcomes = {"succeeded"}
  Cancellable = {j1}
  Failing = {j1}
  Polled = {j1}
  MaxFaults = 2
  StaleViews = FALSE
SPECIFICATION Spec
INVARIANTS TypeOK RunningExclusive NativeExclusive RootsOwned ResultAgrees EnvironmentHeld
PROPERTIES TerminalFinal LiveJobsKept CancelledNeverLaunches
CHECK_DEADLOCK FALSE
