SPECIFICATION MainBranchSpec
CONSTANTS
  c1 = c1
  main = main
  feat = feat
  base = base
  code = code
  gone = gone
  amend = amend
  meta = meta
  src = src
  log = log
  Nothing = Nothing
  Ambient = Ambient
  Unsent = Unsent
  Clone = {c1}
  Ref = {main, feat}
  Main = main
  GitCommit = {base, code, gone, amend, meta}
  TreePath = {src, log}
  TreeOf <- MCTree
  History <- MCHistory
  Safe = {log}
  Gated = {code}
  Root = base
  Foreign = {meta}
  MaxMoves = 2
  MovingCheckout = FALSE
  FreshRemote = FALSE
  Prs = {p1}
  Jobs = {j1}
  Kinds = {"minor", "invalid"}
  Levels = {"auto", "patch", "minor"}
  MaxCommits = 4
  TitleEdits = TRUE
  Overlap = FALSE
INVARIANTS
  NoSilentSkip
  ReleasedOnce
  VersionsIncrease
  TagsTellTheTruth
  ChecksKeepMainReleasable
PROPERTY MainNeedsGate
CHECK_DEADLOCK FALSE
