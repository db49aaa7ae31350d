SPECIFICATION Spec
CONSTANTS
  Parts = {"config", "policy", "input", "management", "feed"}
  \* NodeConfig
  Requests = {r1}
  Patterns = {"p1", "p2"}
  MaxDisturbances = 1
  \* NodeSync
  Deployments = {"a", "b"}
  Privileged = {"b"}
  Inputs = {"x"}
  Services = {"s"}
  MaxWrites = 2
  MaxQueued = 0
  MaxInputs = 2
  MaxStops = 1
  \* NodeManagement
  NMPs = {"p", "q"}
  ScheduledTime <- DueAtOnce
  ManifestVersion <- OldAndLatest
  AllowDowngrade = {"q"}
  MaxDownloadAttempts = 1
  Chunked = TRUE
  ResetActive = FALSE
  MaxVersion = 3
  MaxTime = 1
  MaxStarts = 2
  MaxResets = 1
  MaxFailures = 1
  \* ChangeFeed
  ChangeTypes = {"message", "node", "org", "other"}
  Configs <- FewConfigs
  FirstMin = 1
  FirstMax = 2
  FirstIncrement = 1
  DynamicPoll = TRUE
  MaxRecords = 2
  MaxFeedChanges = 2
  MaxFeedStops = 1
\* An agent that is up to date, or unregistered, rests.
CHECK_DEADLOCK FALSE
INVARIANTS  PolicyMarkerTruthful NoMessageOverlooked
 
