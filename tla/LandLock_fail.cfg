SPECIFICATION Spec
CONSTANTS
  Landing = {l1, l2}
  None = None
  Torn = Torn
  MaxBoot = 0
  CrashInReap = FALSE
  LongPause = FALSE
SYMMETRY Symmetry
INVARIANT NoSpuriousFailure
CHECK_DEADLOCK FALSE
