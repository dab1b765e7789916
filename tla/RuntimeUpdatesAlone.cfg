SPECIFICATION FairSpec
CONSTANTS
  t1 = t1
  t2 = t2
  r1 = r1
  Tasks = {t1}
  Readers = {r1}
  NoTask = NoTask
  MaxHosts = 2
  MaxForeign = 2
  MaxCrashes = 2
  Orphans = FALSE
  Overlap = FALSE
INVARIANTS NoPartialActivation SettledAgrees
PROPERTIES GateRefined RecoveryConverges
CHECK_DEADLOCK FALSE
