SPECIFICATION FairSpec
CONSTANTS
  Landing = {l1, l2}
  None = None
  Torn = Torn
  MaxBoot = 0
  CrashInReap = TRUE
  LongPause = FALSE
PROPERTY EveryWaitEnds
CHECK_DEADLOCK FALSE
