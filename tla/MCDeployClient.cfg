SPECIFICATION Spec
CONSTANTS
  c1 = c1
  c2 = c2
  c3 = c3
  Free = Free
  Tasks <- ThreeTasks
  Lifetime = 4
  Buffer = 2
  FetchTime = 1
  CachedToken = FALSE
  MaxTime = 4
  MaxRevocations = 1
SYMMETRY Symmetry
INVARIANTS
  TypeOK
  ExecutedAtMostOnce
  RetryUsesAnotherToken
  TrustEndsBeforeExpiry
  ColdStartFetchesOnce
  LockHeldByFetcher
CHECK_DEADLOCK FALSE
