CONSTANTS
  Size = 2
  Depends <- MCDepends
  CleanupRequired = TRUE
  Callers = {c1}
  MaxKills = 1
  MaxRefusals = 1
  MaxEdits = 1
  MaxRetries = 1
SPECIFICATION FairSpec
INVARIANTS
  TerminalClean
  PublishedEvidence
  NoticesTrue
PROPERTIES
  AttentionTrue
  NoticesArrive
  BatchSettles
CHECK_DEADLOCK FALSE
