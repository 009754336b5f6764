SPECIFICATION MCFairSpec
CONSTANTS
  a1 = a1 a2 = a2 Pro = Pro Flash = Flash j1 = j1 j2 = j2
  Takers = {a1, a2, j1, j2}
  Asks = {a1, a2}
  Jobs = {j1, j2}
  Buckets = {Pro, Flash}
  WorkerBucket = Flash
  None = None
  Burst = 1
  Refill = 2
  LockTtl = 1
  LockAttempts = 2
  MaxWait = 1
  GatewayTimeout = 1
  LastStart = 1
  MaxTime = 2
  MaxRetries = 1
  Sentences <- MCSentences
  Articles = {n1, n2}
  MaxFetched = 2
  Titles = {u}
  BatchSize = 2
  LatestMax = 1
  MaxDeaths = 1
CHECK_DEADLOCK FALSE
INVARIANTS Screened NewsListedOnce StoredOnce
PROPERTIES KeepsBudget AlwaysAnswered
