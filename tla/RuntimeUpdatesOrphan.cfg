SPECIFICATION Spec
CONSTANTS
  t1 = t1
  t2 = t2
  r1 = r1
  Tasks = {t1}
  Readers = {}
  NoTask = NoTask
  MaxHosts = 1
  MaxForeign = 0
  MaxCrashes = 1
  Orphans = TRUE
  Overlap = FALSE
INVARIANTS SettledAgrees
CHECK_DEADLOCK FALSE
