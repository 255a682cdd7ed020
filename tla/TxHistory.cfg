SPECIFICATION FairSpec
CONSTANTS
  c1 = c1
  c2 = c2
  p1 = p1
  BlockNumbers = {1, 2}
  Records = {r1, r2, r3, r4, r5, r6}
  Callers = {c1, c2}
  Prefetchers = {c1}
  Pools = {p1}
  NoRecord = NoRecord
  NoPool = NoPool
  NoBlock = NoBlock
  MaxSize = 2
  Requests <- MC_Requests
  PoolsOf <- MC_PoolsOf
  Capacity <- MC_Capacity
  MayFail = {2}
  ForgetRanges <- MC_ForgetRanges
  Releasable = {p1}
  MaxForgets = 2
INVARIANTS
  NobodyStuck
  SingleFlight
  ResultsComplete
  OneFetchUntilForgotten
PROPERTY
  PublishedIsImmutable
  ImplementsSupply
  AcquireReturns
CHECK_DEADLOCK FALSE
