SPECIFICATION FairSpec
CONSTANTS
  From = 1
  To = 4
  Window = 3
  Step = 1
  Parallel = 2
  PrefetchChoices = {0, 1}
  MaySignal = TRUE
INVARIANTS
  AtMostParallel
  NothingKept
  PairsCovered
PROPERTY
  ProcessExits
CHECK_DEADLOCK FALSE
