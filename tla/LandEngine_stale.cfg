SPECIFICATION Spec
CONSTANTS
  l1 = l1
  l2 = l2
  d1 = d1
  d2 = d2
  e = e
  e2 = e2
  Landing = {l1}
  Change = {d1, e}
  File <- MCFile
  Scope <- MCScope
  Gate <- MCSensorsGate
  ScopesOf <- MCScopesOf
  FullFiles <- MCFullFiles
  When <- MCSensorsWhen
  LefthookGates <- MCSensorsGate
  Always = Always
  Unreadable = Unreadable
  InheritUnaffected = FALSE
  Ref <- MCRef1
  Mode <- MCMode1
  DryRun = {}
  SkipBootstrap = {}
  Others = {e}
  FilesOf <- MCLockFilesOf
  Defect <- MCLockDefect
  DepChange = {e}
  NeedsDeps <- MCSensorsGate
  BootWhen = {"ts"}
  Absent = Absent
  MaxAttempts = 2
  ProceedWhenBusy = FALSE
  Flaky = FALSE
INVARIANT EvidenceSound
CHECK_DEADLOCK FALSE
