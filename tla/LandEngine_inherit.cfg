SPECIFICATION Spec
CONSTANTS
  l1 = l1
  l2 = l2
  d1 = d1
  d2 = d2
  e = e
  e2 = e2
  Landing = {l1, l2}
  Change <- MCChange2
  File <- MCFile
  Scope <- MCScope
  Gate <- MCGate
  ScopesOf <- MCScopesOf
  FullFiles <- MCFullFiles
  When <- MCWhen
  LefthookGates <- MCLefthookGates
  Always = Always
  Unreadable = Unreadable
  InheritUnaffected = TRUE
  Ref <- MCRef
  Mode <- MCMode
  DryRun = {l1}
  SkipBootstrap = {l1}
  Others = {e, e2}
  FilesOf <- MCSkipFilesOf
  Defect <- MCSkipDefect
  DepChange = {d2, e}
  NeedsDeps = {"test"}
  BootWhen = {"ts"}
  Absent = Absent
  MaxAttempts = 2
  ProceedWhenBusy = FALSE
  Flaky = TRUE
INVARIANTS
  EvidenceSound
  SkippedJobsGreen
  FailureMeansNotLanded
PROPERTY ImplementsTarget
CHECK_DEADLOCK FALSE
