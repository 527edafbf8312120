SPECIFICATION ServicesSpec
CONSTANTS
  k1 = k1
  k2 = k2
  w1 = w1
  w2 = w2
  r1 = r1
  r2 = r2
  CacheKey = {k1, k2}
  SizeOfKey <- Sizes
  FileKey = {k2}
  CacheBuild = {1}
  KeysNaming <- KeysNamingOne
  CacheWorker = {w1, w2}
  MaxBytes = 2
  LowBytes = 1
  MaxStores = 2
  Trigger = {1, 2}
  Expression = {1, 2}
  BadCron = 3
  MinAgents = 1
  MaxAgents = 2
  ScaleUpThreshold = 1
  QueueThreshold = 2
  Operator = {1, 2}
  MostJobs = 3
  Form = {"mapping", "blank", "list"}
  StepShape <- Shapes
  MaxSteps = 2
  Plugins <- ThreePlugins
  Unkind = {"valid"}
  Meddlers = {"env"}
  Metrics = "metrics"
  Middlewares <- TwoMiddlewares
  MaxRuns = 2
  JobRun = {r1, r2}
  NoContainer = NoContainer
  Service = {"db"}
  SvcBuild = {1, 2}
  SecretName = {"s"}
  FernetKey = {"k1", "k2"}
  VaultSession = {1, 2}
  Fingerprint = {"", "f"}
  Group = {"g", "h"}
  MaxWrites = 3
  ArtifactBuild = {1, 2}
  Uploader = {1, 2}
  Cleaner = {1, 2}
  MaxUploads = 2
  Socket = {1, 2, 3}
  Broadcast = {1}
  NoSocket = NoSocket
  Tool = {"docker", "make"}
  CacheLife = 1
  LastHour = 2
  Account = {"u"}
  Rotation = {1, 2}
  AccessLife = 1
  RefreshLife = 2
  TokenLife = 2
  LastDay = 3
  MaxTokens = 3
INVARIANTS
  ServicesTypeOK
  TornEntryIsContested
  EvictionOverrun
  ScheduleFollowsRow
  GrowthStopsAtLimit
  RowsMirrorPipeline
  ReportedJobIsWrapped
  LeftoversAreLost
  OrphansWereExposed
  BroadcastIsNotItsOwnEnemy
  SkillsAreRecent
  OneTokenPerOrigin
PROPERTIES
  DeletedSecretStaysDeleted
SYMMETRY Symmetry
CHECK_DEADLOCK FALSE
