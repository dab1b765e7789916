CONSTANTS
  Paths = {1, 2}
  Base <- MCBase
  Contents = {0, 1, 2}
  Starts <- MCStarts
  HasUpstream = FALSE
  MaxEdits = 1
  Runs = {1, 2}
  Configs <- MCConfigs
  Requests <- MCRequests
  PlanRequests <- MCPlanRequests
  Results <- MCResults
  MaxKills = 1
  Writers = {w1, w2}
  Checks = {1, 2}
  About <- MCAbout
  Decisions = {1}
  MaxRecords = 3
  MaxBytes = 4
  MaxOffers = 4
  MaxUnread = 1
  Hooks = {h1, h2}
  Sessions = {s1}
  Bucket <- MCBucket
  Modes = {"on"}
  MaxSessions = 1
  MaxEvents = 2
  MaxSubmitted = 3
  MaxRequests = 1
  MaxPackets = 2
  MaxCalls = 3
  MaxSourceEdits = 1
  Operators = {o1, o2}
  Users = {u1}
  ManagedFiles = {"hooks", "instructions"}
  MaxEnvironments = 4
  MaxLocks = 2
  MaxSkillBytes = 3
  Weights <- MCWeights
  DefaultBudget <- MCDefaultBudget
  StandardPack = "kmp"
  PageSize = 2
  MaxPages = 2
  MaxCandidates = 2
  Installers = {i1, i2}
  Catalogs <- MCCatalogs
  Documents = {"ra", "g"}
  MaxInstalls = 2
  MaxProfileEdits = 1
  MaxCatalogEdits = 1
  Units = {"p", "q"}
  Dispositions <- MCDispositions
  Images = {1, 2}
  MaxDispositions = 2
  MaxDays = 2
SPECIFICATION MCSpec
INVARIANTS
  EvidenceSafe
  PassedProven
  PlanSound
  OneSubject
  LogFaithful
  
  EnableRecovers
  PacketsComplete
  GraphsProven
  AdoptionsAuthorized
  RoutesGoverned
PROPERTIES
  EveryCheckEnds
  ReRecordingFree
  ScoresFit
  
  DecisionsKept
CHECK_DEADLOCK FALSE
