SPECIFICATION FairSpec
CONSTANTS
  c1 = c1
  c2 = c2
  c3 = c3
  Free = Free
  Tasks <- TwoTasks
  Lifetime = 4
  Buffer = 2
  FetchTime = 1
  CachedToken = TRUE
  MaxTime = 4
  MaxRevocations = 1
PROPERTIES
  EveryRequestAnswered
  KeepsPromise
CHECK_DEADLOCK FALSE
