SPECIFICATION Spec
CONSTANTS
  Parts = {"search"}
  \* AgreementLock
  LockWorkers = {w1, w2}
  Mutexes = {m1, m2}
  NoMutex = NoMutex
  Free = Free
  \* WorkQueue
  HighItems = {h1}
  LowItems = {l1, l2}
  Senders = {s1}
  Workers = {w1}
  BufferSize = 1
  MayClose = TRUE
  NoWork = NoWork
  \* AgreementStore
  MaxStoreTime = 2
  MaxBusy = 2
  Threads = {"worker", "governance", "api"}
  NoRecord = NoRecord
  \* NodeSearch
  Searchers = {a1}
  Nodes = {n1}
  BatchSize = 2
  MaxToken = 3
  RestartBack = 1
  LookBack = 9
  MaxSearchTime = 4
  MaxRestart = 0
  MaxSearchPolicy = 0
  MaxSecret = 1
  MaxRetry = 0
  MaxError = 0
  FullRescan = FALSE
  NoSearcher = NoSearcher
  SearchDone = SearchDone
  \* SecretUpdates
  SecretPaths <- OnePath
  MaxVaultWrites = 2
  MaxOutages = 1
  SecretPolicies = {"pol"}
  SecretPatterns = {"pat"}
  Bound <- BothBind
  NodeLevel = {}
  SecretNode = "n"
  MaxAnnounced = 1
  \* HAUpgrade
  a1 = a1 a2 = a2 d1 = d1 d2 = d2 Nobody = Nobody
  Agbots = {a1}
  Members = {d1, d2}
  Serves <- ServesOne
  KeepUsage = TRUE
  MaxPolicy = 1 MaxFail = 1 MaxDeath = 1 MaxRead = 1 MaxMatch = 0
CHECK_DEADLOCK FALSE
INVARIANT SecretSearchesAgain
