SPECIFICATION FairSpec
CONSTANTS
  Parts = {"lock", "queue", "search", "upgrade"}
  \* AgreementLock
  LockWorkers = {w1, w2}
  Mutexes = {m1, m2}
  NoMutex = NoMutex
  Free = Free
  \* WorkQueue
  HighItems = {h1, h2}
  LowItems = {l1, l2}
  Senders = {s1}
  Workers = {w1}
  BufferSize = 1
  MayClose = TRUE
  NoWork = NoWork
  \* AgreementStore
  MaxStoreTime = 1
  MaxBusy = 1
  Threads = {"worker"}
  NoRecord = NoRecord
  \* NodeSearch
  Searchers = {a1, a2}
  Nodes = {n1}
  BatchSize = 1
  MaxToken = 3
  RestartBack = 1
  LookBack = 9
  MaxSearchTime = 2
  MaxRestart = 0
  MaxSearchPolicy = 0
  MaxSecret = 0
  MaxRetry = 0
  MaxError = 2
  FullRescan = FALSE
  NoSearcher = NoSearcher
  SearchDone = SearchDone
  \* SecretUpdates
  SecretPaths <- OnePath
  MaxVaultWrites = 2
  MaxOutages = 1
  SecretPolicies = {"pol"}
  SecretPatterns = {"pat"}
  Bound <- BothBind
  NodeLevel = {}
  SecretNode = "n"
  MaxAnnounced = 1
  \* HAUpgrade
  a1 = a1 a2 = a2 d1 = d1 d2 = d2 Nobody = Nobody
  Agbots = {a1, a2}
  Members = {d1, d2}
  Serves <- ServesTwo
  KeepUsage = FALSE
  MaxPolicy = 1 MaxFail = 0 MaxDeath = 0 MaxRead = 0 MaxMatch = 1
\* A closed queue that is empty rests.
CHECK_DEADLOCK FALSE
INVARIANT ExclusiveWhileOpen
PROPERTIES NotRevived WorkEnds FifoSpec HighReachesWorker SearchTakesEveryNode EveryMemberUpgraded
