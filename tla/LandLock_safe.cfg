SPECIFICATION Spec
CONSTANTS
  Landing = {l1, l2, l3}
  None = None
  Torn = Torn
  MaxBoot = 0
  CrashInReap = FALSE
  LongPause = FALSE
SYMMETRY Symmetry
INVARIANTS
  MutualExclusion
  NoLockLeftBehind
PROPERTIES
  LiveLockKept
  ImplementsLease
CHECK_DEADLOCK FALSE
