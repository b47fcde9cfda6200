SPECIFICATION ChecksSpec
CONSTANTS
  fan = fan
  cov = cov
  Null = Null
  Text = Text
  None = None
  NoFile = NoFile
  Metric = {fan, cov}
  Folder = {}
  Larger = {cov}
  Advisory = {}
  Observational = {}
  Value = {1, 2, 3}
  ValueOf <- MCValueOf
  Designed <- MCDesigned
  Mode = {"strict", "dev"}
  Required <- MCRequired
  Hard <- MCHard
  Policy <- MCPolicy
  Exempt = {}
  CarelessEdits = FALSE

  Scanners = {"deadcode"}
  Lanes = {"rust", "python"}
  RequiredIn <- MCAdapters
  Skips <- MCSkips
  Iterations = 2
  FloorMetrics = {"lines"}
  PerFile = TRUE
  MaxBad = 1

  Issues = {1, 2}
  Texts = {t1, t2}
  Shapes <- MCShapes
  MaxComments = 2
  MaxChanges = 3
INVARIANTS
  AcceptsOwnFiles
  GreenIsTrue
  CoverageIsContract
  ReportAgrees
  PreflightIsEnough
  
  RollbackRestores
PROPERTIES
  FloorsOnlyTighten
  RatchetOnlyTightens
  QualityRatchets
CHECK_DEADLOCK FALSE
