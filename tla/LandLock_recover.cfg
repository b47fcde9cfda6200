SPECIFICATION FairSpec
CONSTANTS
  Landing = {l1, l2}
  None = None
  Torn = Torn
  MaxBoot = 1
  CrashInReap = TRUE
  LongPause = TRUE
PROPERTY EveryWaitEndsWithoutReuse
CHECK_DEADLOCK FALSE
