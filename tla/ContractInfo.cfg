SPECIFICATION FairSpec
CONSTANTS
  Records = {"r1", "r2"}
  Contracts = {"open", "closed"}
  Nobody = "nobody"
  Invoked <- MC_Invoked
  Published = {"open"}
  Outages = TRUE
  Unreachable = TRUE
INVARIANTS
  SubscribersWait
  FlaggedOnDenial
PROPERTIES
  OneRequest
  GoroutinesEnd
CHECK_DEADLOCK FALSE
