SPECIFICATION Spec
CONSTANTS
  t1 = t1
  t2 = t2
  r1 = r1
  Tasks = {t1, t2}
  Readers = {}
  NoTask = NoTask
  MaxHosts = 1
  MaxForeign = 0
  MaxCrashes = 1
  Orphans = FALSE
  Overlap = FALSE
PROPERTIES ReservationKept
CHECK_DEADLOCK FALSE
