SPECIFICATION Spec
CONSTANTS
  Landing = {l1, l2, l3}
  None = None
  Torn = Torn
  MaxBoot = 0
  CrashInReap = TRUE
  LongPause = FALSE
SYMMETRY Symmetry
INVARIANT MutualExclusion
CHECK_DEADLOCK FALSE
