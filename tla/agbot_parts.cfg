SPECIFICATION Spec
CONSTANTS
  Parts = {"policies", "objects", "compatibility", "rollback", "vault", "cache", "partitions"}
  \* DeploymentPolicies
  Policies = {"p", "q"}
  Patterns = {"r"}
  BadVersions = {2}
  MaxPolicyVersion = 2
  MaxSvcVersion = 1
  MaxEdits = 2
  Goroutines = {1, 2}
  \* ModelObjects
  Objects = {"x"}
  ObjectNodes = {"n"}
  ObjectServices = {"s", "t"}
  MaxPublished = 2
  MaxMishaps = 1
  ObjectWorkers = {"w1"}
  \* WorkloadRollback
  Order <- ListedOutOfOrder
  RetryLimit <- TwoTriesOfFirst
  RetryDuration <- ShortTries
  MaxContent = 2
  MaxDeals = 3
  MaxClock = 2
  MaxPolicyEdits = 1
  \* Compatibility
  CheckVersions <- SomeVersions
  CheckRanges <- RangePairs
  CheckTrees <- SomeConstraints
  CheckProps <- SomeProperties
  CheckTokens <- SomeTokens
  DefaultNoData = 7
  CheckPolicies <- SomePolicies
  CheckServicePolicies <- SomeServicePolicies
  CheckNamespaces <- SomeNamespaces
  CheckNamespaceTrees <- SomeNamespaceTrees
  CheckRequests <- SomeRequests
  \* SecretsListing
  SecretPaths <- AllSecrets
  MaxVaultWrites = 2
  MaxOutages = 1
  Refused <- RefusedDirs
  \* ExchangeCache
  Singles = {"r"}
  ServiceOrg = "o"
  HomeOrg = "h"
  DefVersions = {1, 2}
  Callers = {"a"}
  MaxExchangeEdits = 1
  MaxFaults = 1
  \* AgbotPartitions
  Agbots = {"a", "b"}
  Records = {"x"}
  SameOrg = {}
  MaxPartitions = 3
  MaxAges = 2
\* An agbot with nothing to do, or that is gone, rests.
CHECK_DEADLOCK FALSE
INVARIANTS PolicyViewSettles DealOutlivesPolicyOnlyIfLate PublishedObjectArrives
           CompatibleVersionExists RangesMeetExactly ConstraintMeansWhatItSays
           RollbackIsEarned ListingIsExact StaleOnlyIfRaced NoRecordLost
