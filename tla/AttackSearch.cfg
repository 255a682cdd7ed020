SPECIFICATION FairSpec
CONSTANTS
  N = 9
  BlockOf <- MC_BlockOf
  SenderOf <- MC_SenderOf
  Errored = {7}
  Pseudo = {3}
  Attackers <- MC_Attackers
  Dependent <- MC_Dependent
  Profitable <- MC_Profitable
  Unverified = {6}
  Breaks = {4}
  Matching <- MC_Matching
  From = 1
  To = 4
  Window = 3
  Step = 1
  Parallel = 2
  Workers = 2
  MayMiss = {4, 5}
  MayExpire = {2}
INVARIANTS
  NoRepeatedCheck
  GapsExplained
  SearchIsComplete
PROPERTY
  SearchEnds
CHECK_DEADLOCK FALSE
