SPECIFICATION LandingSpec
CONSTANTS
  l1 = l1
  l2 = l2
  d1 = d1
  d2 = d2
  e = e
  e2 = e2
  Landing = {l1, l2}
  Change <- MCChange2
  File <- MCFile
  Scope <- MCScope
  Gate <- MCGate
  ScopesOf <- MCScopesOf
  FullFiles <- MCFullFiles
  When <- MCWhen
  LefthookGates <- MCLefthookGates
  Always = Always
  Unreadable = Unreadable
  InheritUnaffected = TRUE
  Ref <- MCRef
  Mode <- MCMode
  DryRun = {}
  SkipBootstrap = {}
  Others = {e, e2}
  FilesOf <- MCFilesOf2
  Defect <- MCDefect
  DepChange = {d2}
  NeedsDeps = {"test"}
  BootWhen = {"ts"}
  Absent = Absent
  MaxAttempts = 2
  ProceedWhenBusy = FALSE
  Flaky = FALSE
  GateName <- MCGateName
  Batch <- MCBatch
  Key <- MCKey
  BatchLane = "lefthook"
  Rank <- MCRank
  EarlyCheck = {"fork"}
  Check = {"secrets"}
  Retried = {"suite-a", "secrets"}
  Requiring = {"cov-rust", "scan"}
  Writer = {"suite-b", "secrets"}
  Limit = {0, 2, 3}
  t1 = t1
  t2 = t2
  b1 = b1
  b2 = b2
  db = db
  telemetry = telemetry
  Agents = {a1, a2}
  Trees = {t1, t2}
  Branches = {b1, b2}
  Number <- MCNumber
  Services = {db, telemetry}
  PortOf <- MCPortOf
  Included = {telemetry}
  Bugs = {bug}
  Broken = Broken
  Missing = Missing
  MaxStackSteps = 3
INVARIANTS
  ValidMeansGreen
  RedsReported
  GreenIsAccepted
  SuccessMeansLanded
  StacksApart
PROPERTIES
  LandingEnds
  LanesEndInTime
CHECK_DEADLOCK FALSE
