SPECIFICATION Spec
CONSTANTS
  Parts = {"networks"}
  \* AgentServices
  Agreements = {"a", "b"}
  DepServices = {"s", "t"}
  Requires <- SharedAndOwn
  Multiple = {"t"}
  AgreementLess = {"s"}
  ActiveUpgrade = FALSE
  Retries <- RetriesOfOne
  DefaultRetries = 1
  MaxServiceVersion = 2
  MaxInstances = 3
  MaxServiceFaults = 1
  MaxServiceStops = 1
  \* ContainerNetworks
  Workloads = {"v", "w"}
  DepInstances = {"c", "m"}
  Children <- ChainAndShare
  LaunchOrder <- LeafFirst
  BoxNames <- TwoForTheLeaf
  Sharing = {"v", "w"}
  SharedName = "singleton"
  NoParent = "none"
  MaxBoxStops = 1
  MaxDockerErrors = 0
  MaxWorkerStops = 1
  \* AgentSecrets
  SecretDeals = {"x", "y"}
  Instances = {"s"}
  Provides <- SharedSecret
  MaxSecretChanges = 1
  MaxAgentStops = 1
  \* KubeOperator
  KubeDeals = {"d", "e"}
  NodeSpace <- AgentSpaces
  ScopedAgents = {"g"}
  Places <- ThreePlaces
  Operators <- ThreeOperators
  MaxWaiting = 1
  MaxKubeFaults = 1
\* A node with no agreement left rests.
CHECK_DEADLOCK FALSE
INVARIANT RestartedIsReconnected
