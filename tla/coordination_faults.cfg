SPECIFICATION Spec
CONSTANTS
  Parts = {"store", "search", "upgrade", "secrets"}
  \* AgreementLock
  LockWorkers = {w1, w2}
  Mutexes = {m1, m2}
  NoMutex = NoMutex
  Free = Free
  \* WorkQueue
  HighItems = {h1}
  LowItems = {l1, l2}
  Senders = {s1}
  Workers = {w1}
  BufferSize = 1
  MayClose = TRUE
  NoWork = NoWork
  \* AgreementStore
  MaxStoreTime = 2
  MaxBusy = 2
  Threads = {"worker", "governance", "api"}
  NoRecord = NoRecord
  \* NodeSearch
  Searchers = {a1}
  Nodes = {n1, n2}
  BatchSize = 3
  MaxToken = 3
  RestartBack = 1
  LookBack = 9
  MaxSearchTime = 3
  MaxRestart = 1
  MaxSearchPolicy = 1
  MaxSecret = 1
  MaxRetry = 1
  MaxError = 1
  FullRescan = TRUE
  NoSearcher = NoSearcher
  SearchDone = SearchDone
  \* SecretUpdates
  SecretPaths <- OnePath
  MaxVaultWrites = 2
  MaxOutages = 1
  SecretPolicies = {"pol"}
  SecretPatterns = {"pat"}
  Bound <- BothBind
  NodeLevel = {}
  SecretNode = "n"
  MaxAnnounced = 1
  \* HAUpgrade
  a1 = a1 a2 = a2 d1 = d1 d2 = d2 Nobody = Nobody
  Agbots = {a1}
  Members = {d1, d2}
  Serves <- ServesOne
  KeepUsage = TRUE
  MaxPolicy = 1 MaxFail = 1 MaxDeath = 1 MaxRead = 1 MaxMatch = 0
\* An archived record that is purged, a group that is upgraded, and secrets
\* without a deployment after the last write, rest.
CHECK_DEADLOCK FALSE
CONSTRAINT OneUpdateInPostgresql
INVARIANTS Durable PurgedForGood NoNodeMissed OneAtATime NoUpdateForgotten
PROPERTY Forward
