---------------------------- MODULE AgentEvents ----------------------------
(***************************************************************************)
(* The routing table of the internal message bus: for every worker that    *)
(* main.go registers, the commands its NewEvent callback queues for an     *)
(* event (worker.go's eventHandler calls NewEvent of every registered      *)
(* worker, in turn, on the dispatcher's own thread).  Events are named by  *)
(* their EventId; an id that two message types share is prefixed with the  *)
(* launch context it is about (WL_ an agreement's workload, MS_ a service  *)
(* container).  Commands are named by their Go type.                       *)
(***************************************************************************)
EXTENDS Sequences, TLC

\* Workers of an agent (main.go, edge database configured).
EdgeWorkers == {"API", "Agreement", "Governance", "ExchangeMessages", "Container", "ImageFetch",
                "Kube", "Resource", "ExchangeChanges", "NodeManagement", "Download",
                "ClusterUpgrade"}

\* Workers of an agreement bot (main.go, agbot database configured).
AgbotWorkers == {"AgBot", "AgBot API", "AgBot Secure API", "AgBot ExchangeChanges"}

\* The failures an image fetch reports.
ImageFetchErrors == {"IMAGE_DATA_ERROR", "IMAGE_FETCH_ERROR", "IMAGE_FETCH_AUTH_ERROR",
                     "IMAGE_SIG_VERIF_ERROR"}

(***************************************************************************)
(* The message types of the bus, each with the events it carries (payloads *)
(* are left out).  The receivers tell messages apart by type and event id: *)
(* AGREEMENT_ENDED, for instance, is carried by four types that mean       *)
(* different things, which GOV_, INIT_, API_ and AB_ keep apart here.      *)
(***************************************************************************)
ContainerLaunchMessages == [LoadContainerMessage |-> {"LOAD_CONTAINER"}]

NodeChangeMessages ==
  [NodePolicyMessage    |-> {"UPDATE_NODE_POLICY", "DELETED_NODE_POLICY"},
   NodeUserInputMessage |-> {"UPDATE_NODE_USERINPUT"},
   NodePatternMessage   |-> {"NODE_PATTERN_CHANGE_SHUTDOWN", "NODE_PATTERN_CHANGE_REREG"},
   PolicyCreatedMessage |-> {"NEW_POLICY"},
   UpdatePolicyMessage  |-> {"UPDATE_POLICY"}]

PolicyMessages ==
  [PolicyChangedMessage |-> {"CHANGED_POLICY"}, PolicyDeletedMessage |-> {"DELETED_POLICY"},
   CacheServicePolicyMessage |-> {"CACHE_SERVICE_POLICY"}]

ServicePolicyMessages ==
  [ServicePolicyChangedMessage |-> {"SERVICE_POLICY_CHANGED"},
   ServicePolicyDeletedMessage |-> {"SERVICE_POLICY_DELETED"},
   NodePolicyChangedMessage    |-> {"NODE_POLICY_CHANGED"}]

\* The registration message carries the type of the node, which decides which workers stay.
RegistrationMessages ==
  [EdgeRegisteredExchangeMessage |-> {"NEW_DEVICE_REG", "NEW_CLUSTER_REG"},
   EdgeConfigCompleteMessage     |-> {"NEW_DEVICE_CONFIG_COMPLETE"},
   AgreementReachedMessage       |-> {"AGREEMENT_REACHED"}]

WorkloadMessages ==
  [ImageFetchMessage |-> {"IMAGE_FETCHED", "MS_IMAGE_FETCHED", "MS_IMAGE_FETCH_ERROR"} \cup ImageFetchErrors,
   GovernanceMaintenanceMessage |-> {"CONTAINER_MAINTAIN"},
   GovernanceWorkloadCancelationMessage |-> {"GOV_AGREEMENT_ENDED"},
   WorkloadMessage |-> {"WL_EXECUTION_BEGUN", "WL_EXECUTION_FAILED", "WL_IMAGE_LOAD_FAILED", "WORKLOAD_DESTROYED"}]

ContainerMessages ==
  [ContainerMessage |-> {"MS_EXECUTION_BEGUN", "MS_EXECUTION_FAILED", "MS_IMAGE_LOAD_FAILED"},
   ContainerStopMessage |-> {"CONTAINER_STOPPING"},
   ContainerShutdownMessage |-> {"BC_CONTAINER_DESTROYED"}]

CancelationMessages ==
  [ApiAgreementCancelationMessage |-> {"API_AGREEMENT_ENDED"},
   ABApiAgreementCancelationMessage |-> {"AB_AGREEMENT_ENDED"},
   ABApiWorkloadUpgradeMessage |-> {"WORKLOAD_UPGRADE"},
   InitAgreementCancelationMessage |-> {"INIT_AGREEMENT_ENDED"}]

\* The blockchain messages of the agreement protocols that used one; still routed.
BlockchainMessages ==
  [AccountFundedMessage |-> {"ACCOUNT_FUNDED"},
   BlockchainClientInitializedMessage |-> {"BC_CLIENT_INITIALIZED"},
   BlockchainClientStoppingMessage |-> {"BC_CLIENT_STOPPING"}]

ExchangeMessages ==
  [ReportNeededBlockchainsMessage |-> {"BC_NEEDED"}, EthBlockchainEventMessage |-> {"BC_EVENT"},
   ExchangeDeviceMessage |-> {"RECEIVED_EXCHANGE_DEV_MSG"}]

SyncedMessages ==
  [NewBCContainerMessage |-> {"NEW_BC_CLIENT"},
   DeviceAgreementsSyncedMessage |-> {"DEVICE_AGREEMENTS_SYNCED"},
   DeviceContainersSyncedMessage |-> {"DEVICE_CONTAINERS_SYNCED"}]

MicroserviceMessages ==
  [MicroserviceMaintenanceMessage |-> {"MS_CONTAINER_MAINTAIN"},
   MicroserviceCancellationMessage |-> {"CANCEL_MICROSERVICE", "CANCEL_MICROSERVICE_NETWORK"},
   MicroserviceContainersDestroyedMessage |-> {"CONTAINER_DESTROYED"}]

ShutdownMessages ==
  [NodeShutdownMessage |-> {"START_UNCONFIGURE", "START_AGBOT_QUIESCE"},
   NodeShutdownCompleteMessage |-> {"UNCONFIGURE_COMPLETE", "AGBOT_QUIESCE_COMPLETE"},
   SyncServiceCleanedUpMessage |-> {"ESS_UNCONFIG"}]

StopMessages ==
  [WorkerStopMessage |-> {"WORKER_STOP"}, AllBlockchainShutdownMessage |-> {"ALL_STOP"},
   ExchangeChangesShutdownMessage |-> {"MESSAGE_STOP"}]

NodeStateMessages ==
  [NodeHeartbeatStateChangeMessage |-> {"NODE_HEARTBEAT_FAILED", "NODE_HEARTBEAT_RESTORED"},
   ServiceConfigStateChangeMessage |-> {"SERVICE_CONFIG_STATE_CHANGED"},
   MMSObjectPolicyMessage |-> {"OBJECT_POLICY_EVENT"}, MMSObjectPoliciesMessage |-> {"OBJECT_POLICIES_CHANGED"}]

\* A message of the change feed, one event for each kind of resource that changed.
ChangeMessages ==
  [ExchangeChangeMessage |->
     {"CHANGE_MESSAGE_TYPE", "CHANGE_AGBOT_MESSAGE_TYPE", "CHANGE_NODE_TYPE", "CHANGE_NODE_POLICY_TYPE",
      "CHANGE_NODE_ERROR_TYPE", "CHANGE_SERVICE_CONFIGSTATE_TYPE", "CHANGE_SERVICE_TYPE",
      "CHANGE_SERVICE_POLICY_TYPE", "CHANGE_AGBOT_SERVED_POLICY", "CHANGE_AGBOT_SERVED_PATTERN",
      "CHANGE_AGBOT_PATTERN", "CHANGE_AGBOT_POLICY", "CHANGE_NMP_TYPE", "CHANGE_AGENT_FILE_VERSION",
      "CHANGE_NMP_STATUS", "CHANGE_HA_GROUP"},
   ProposalAcceptedMessage |-> {"PROPOSAL_ACCEPTED"}]

UpdateMessages ==
  [SecretUpdatesMessage |-> {"UPDATED_SECRETS"}, WorkloadUpdateMessage |-> {"UPDATE_SECRETS_IN_AGREEMENT"},
   NMPStartDownloadMessage |-> {"NMP_START_DOWNLOAD"}, NMPDownloadCompleteMessage |-> {"NMP_DOWNLOAD_COMPLETE"},
   AgentPackageDownloadedMessage |-> {"AGENT_PACKAGE_DOWNLOADED"}]

MessageTypes ==
  ContainerLaunchMessages @@ NodeChangeMessages @@ PolicyMessages @@ ServicePolicyMessages @@ RegistrationMessages
  @@ WorkloadMessages @@ ContainerMessages @@ CancelationMessages @@ BlockchainMessages @@ ExchangeMessages
  @@ SyncedMessages @@ MicroserviceMessages @@ ShutdownMessages @@ StopMessages @@ NodeStateMessages
  @@ ChangeMessages @@ UpdateMessages

Events == UNION {MessageTypes[t] : t \in DOMAIN MessageTypes}

\* Governance: what became of workloads and of the images they need.
GovernanceLaunchEvent(e) ==
  CASE e = "NEW_DEVICE_CONFIG_COMPLETE" -> <<"StartAgreementLessServices">>
    [] e = "WL_EXECUTION_BEGUN"   -> <<"StartGovernExecution", "ReportDeviceStatus">>
    [] e \in {"WL_EXECUTION_FAILED", "WL_IMAGE_LOAD_FAILED"}
                                  -> <<"CleanupExecution", "ReportDeviceStatus">>
    [] e = "WORKLOAD_DESTROYED"   -> <<"CleanupStatus", "ReportDeviceStatus">>
    [] e \in ImageFetchErrors     -> <<"CleanupExecution">>
    [] e = "MS_IMAGE_FETCH_ERROR" -> <<"UpdateMicroservice">>
    [] OTHER -> <<>>

\* Governance: cancellations, protocol messages and service containers.
GovernanceAgreementEvent(e) ==
  CASE e \in {"INIT_AGREEMENT_ENDED", "API_AGREEMENT_ENDED"} -> <<"CleanupExecution">>
    [] e = "BC_CLIENT_INITIALIZED" -> <<"BCInitialized">>
    [] e = "BC_CLIENT_STOPPING"   -> <<"BCStopping">>
    [] e = "ACCOUNT_FUNDED"       -> <<"BCWritable">>
    [] e = "BC_EVENT"             -> <<"BlockchainEvent">>
    [] e = "RECEIVED_EXCHANGE_DEV_MSG" -> <<"ExchangeMessage">>
    [] e \in {"MS_EXECUTION_BEGUN", "MS_EXECUTION_FAILED", "MS_IMAGE_LOAD_FAILED"}
                                  -> <<"UpdateMicroservice", "ReportDeviceStatus">>
    [] e = "CONTAINER_DESTROYED"  -> <<"UpdateMicroserviceGone", "ReportDeviceStatus">>
    [] OTHER -> <<>>

\* Governance: the node itself.
GovernanceNodeEvent(e) ==
  CASE e \in {"START_UNCONFIGURE", "START_AGBOT_QUIESCE"} -> <<"NodeShutdown">>
    [] e = "UNCONFIGURE_COMPLETE" -> <<"Terminate">>
    [] e = "NODE_HEARTBEAT_RESTORED" -> <<"NodeHeartbeatRestored", "ReportDeviceStatus",
                                          "NodeErrorChange", "ServiceChange">>
    [] e = "SERVICE_CONFIG_STATE_CHANGED" -> <<"ServiceSuspended", "ReportDeviceStatus">>
    [] e = "UPDATE_POLICY"        -> <<"UpdatePolicy">>
    [] e \in {"UPDATE_NODE_POLICY", "DELETED_NODE_POLICY"} -> <<"NodePolicyChanged">>
    [] e = "UPDATE_NODE_USERINPUT" -> <<"NodeUserInputChanged">>
    [] e \in {"NODE_PATTERN_CHANGE_SHUTDOWN", "NODE_PATTERN_CHANGE_REREG"} -> <<"NodePatternChanged">>
    [] e = "CHANGE_NODE_ERROR_TYPE" -> <<"NodeErrorChange">>
    [] e = "CHANGE_SERVICE_TYPE"  -> <<"ServiceChange">>
    [] OTHER -> <<>>

GovernanceNewEvent(e) == GovernanceLaunchEvent(e) \o GovernanceAgreementEvent(e) \o GovernanceNodeEvent(e)

\* Mutant: START_UNCONFIGURE does not reach the agreement worker's subworkers.
AgreementIgnoresUnconfigure(e) == IF e = "UNCONFIGURE_COMPLETE" THEN <<"Terminate">> ELSE <<>>

AgreementNewEvent(e) ==
  CASE e = "NEW_DEVICE_REG"       -> <<"DeviceRegistered">>
    [] e = "NEW_POLICY"           -> <<"AdvertisePolicy">>
    [] e = "BC_CLIENT_INITIALIZED" -> <<"BCInitialized">>
    [] e = "BC_CLIENT_STOPPING"   -> <<"BCStopping">>
    [] e = "ACCOUNT_FUNDED"       -> <<"BCWritable">>
    [] e = "RECEIVED_EXCHANGE_DEV_MSG" -> <<"ExchangeMessage">>
    [] e = "NEW_DEVICE_CONFIG_COMPLETE" -> <<"EdgeConfigComplete">>
    [] e = "START_UNCONFIGURE"    -> <<"BeginShutdown">>
    [] e = "UNCONFIGURE_COMPLETE" -> <<"Terminate">>
    [] e \in {"UPDATE_NODE_POLICY", "DELETED_NODE_POLICY"} -> <<"NodePolicyChanged">>
    [] e = "CHANGE_NODE_TYPE"     -> <<"NodeChange">>
    [] e = "CHANGE_NODE_POLICY_TYPE" -> <<"NodePolicyChange">>
    [] e = "CHANGE_SERVICE_CONFIGSTATE_TYPE" -> <<"NodeSvcConfigStateChange">>
    [] e = "NODE_HEARTBEAT_RESTORED" -> <<"NodeChange", "NodePolicyChange", "NodeSvcConfigStateChange">>
    [] OTHER -> <<>>

ContainerNewEvent(e) ==
  CASE e = "NEW_CLUSTER_REG"      -> <<"Terminate">>
    [] e = "IMAGE_FETCHED"        -> <<"WorkloadConfigure">>
    [] e = "MS_IMAGE_FETCHED"     -> <<"ContainerConfigure">>
    [] e = "CONTAINER_MAINTAIN"   -> <<"ContainerMaintenance">>
    [] e = "GOV_AGREEMENT_ENDED"  -> <<"WorkloadShutdown">>
    [] e = "CONTAINER_STOPPING"   -> <<"ContainerStop">>
    [] e = "MS_CONTAINER_MAINTAIN" -> <<"MaintainMicroservice">>
    [] e = "CANCEL_MICROSERVICE"  -> <<"ShutdownMicroservice">>
    [] e = "CANCEL_MICROSERVICE_NETWORK" -> <<"CancelMicroserviceNetwork">>
    [] e = "UNCONFIGURE_COMPLETE" -> <<"NodeUnconfig">>
    [] OTHER -> <<>>

ImageFetchNewEvent(e) ==
  CASE e = "NEW_CLUSTER_REG" -> <<"Terminate">>
    [] e \in {"AGREEMENT_REACHED", "LOAD_CONTAINER"} -> <<"Fetch">>
    [] e = "UNCONFIGURE_COMPLETE" -> <<"Terminate">>
    [] OTHER -> <<>>

KubeNewEvent(e) ==
  CASE e = "AGREEMENT_REACHED"    -> <<"Install">>
    [] e = "GOV_AGREEMENT_ENDED"  -> <<"UnInstall">>
    [] e = "CONTAINER_MAINTAIN"   -> <<"Maintenance">>
    [] e = "UPDATE_SECRETS_IN_AGREEMENT" -> <<"UpdateSecret">>
    [] e = "UNCONFIGURE_COMPLETE" -> <<"Terminate">>
    [] OTHER -> <<>>

ResourceNewEvent(e) ==
  CASE e \in {"NEW_DEVICE_REG", "NEW_CLUSTER_REG"} -> <<"NodeConfig">>
    [] e = "START_UNCONFIGURE" -> <<"NodeUnconfig">>
    [] OTHER -> <<>>

ExchangeMessagesNewEvent(e) ==
  CASE e = "UNCONFIGURE_COMPLETE" -> <<"Terminate">>
    [] e \in {"CHANGE_MESSAGE_TYPE", "NODE_HEARTBEAT_RESTORED"} -> <<"Message">>
    [] OTHER -> <<>>

ExchangeChangesNewEvent(e) ==
  CASE e \in {"NEW_DEVICE_REG", "NEW_CLUSTER_REG"} -> <<"DeviceRegistered">>
    [] e = "AGREEMENT_REACHED" -> <<"Agreement">>
    [] e \in {"PROPOSAL_ACCEPTED", "UPDATE_NODE_POLICY", "DELETED_NODE_POLICY",
              "UPDATE_NODE_USERINPUT", "GOV_AGREEMENT_ENDED"} -> <<"UpdateInterval">>
    [] e \in {"MESSAGE_STOP", "UNCONFIGURE_COMPLETE"} -> <<"Terminate">>
    [] OTHER -> <<>>

NodeManagementNewEvent(e) ==
  CASE e \in {"NEW_DEVICE_REG", "NEW_CLUSTER_REG"} -> <<"NodeRegistered">>
    [] e = "NEW_DEVICE_CONFIG_COMPLETE" -> <<"NodeConfigured">>
    [] e = "UNCONFIGURE_COMPLETE"  -> <<"Terminate">>
    [] e \in {"START_UNCONFIGURE", "START_AGBOT_QUIESCE"} -> <<"NodeShutdown">>
    [] e = "NMP_DOWNLOAD_COMPLETE" -> <<"NMPDownloadComplete">>
    [] e = "CHANGE_NMP_TYPE"       -> <<"NMPChange">>
    [] e = "CHANGE_NODE_POLICY_TYPE" -> <<"NodePolChange">>
    [] e = "CHANGE_AGENT_FILE_VERSION" -> <<"AgentFileVersionChange">>
    [] e = "CHANGE_NMP_STATUS"     -> <<"NmpStatusChange">>
    [] e \in {"IMAGE_FETCHED", "MS_IMAGE_FETCHED"} -> <<"ImageFetched">>
    [] OTHER -> <<>>

DownloadNewEvent(e) ==
  CASE e = "NMP_START_DOWNLOAD"   -> <<"StartDownload">>
    [] e = "UNCONFIGURE_COMPLETE" -> <<"Terminate">>
    [] e \in {"NEW_DEVICE_REG", "NEW_CLUSTER_REG"} -> <<"NodeRegistered">>
    [] OTHER -> <<>>

ClusterUpgradeNewEvent(e) ==
  CASE e = "AGENT_PACKAGE_DOWNLOADED" -> <<"ClusterUpgrade">>
    [] e \in {"NEW_DEVICE_REG", "NEW_CLUSTER_REG"} -> <<"NodeRegistered">>
    [] e = "UNCONFIGURE_COMPLETE" -> <<"Terminate">>
    [] OTHER -> <<>>

\* The agbot: policies, objects and changes in the exchange.
AgBotExchangeEvent(e) ==
  CASE e = "CACHE_SERVICE_POLICY"  -> <<"CacheServicePolicy">>
    [] e = "SERVICE_POLICY_CHANGED" -> <<"ServicePolicyChanged">>
    [] e = "SERVICE_POLICY_DELETED" -> <<"ServicePolicyDeleted">>
    [] e = "NODE_POLICY_CHANGED"   -> <<"NodePolicyChanged">>
    [] e = "OBJECT_POLICY_EVENT"   -> <<"MMSObjectPolicyEvent">>
    [] e = "OBJECT_POLICIES_CHANGED" -> <<"ObjectPoliciesChange">>
    [] e = "CHANGE_AGBOT_MESSAGE_TYPE" -> <<"Message">>
    [] e = "CHANGE_AGBOT_SERVED_PATTERN" -> <<"ServedPattern">>
    [] e = "CHANGE_AGBOT_SERVED_POLICY" -> <<"ServedPolicy">>
    [] e = "CHANGE_AGBOT_PATTERN"  -> <<"PatternChange">>
    [] e = "CHANGE_AGBOT_POLICY"   -> <<"PolicyChange">>
    [] e = "CHANGE_SERVICE_POLICY_TYPE" -> <<"ServicePolicyChange">>
    [] e = "CHANGE_HA_GROUP"       -> <<"HAGroupChanged">>
    [] OTHER -> <<>>

\* The agbot's own worker, once it is ready (the routes below the guards on w.ready).
AgBotNewEvent(e) ==
  CASE e = "ACCOUNT_FUNDED"        -> <<"AccountFunded">>
    [] e = "BC_CLIENT_INITIALIZED" -> <<"ClientInitialized">>
    [] e = "BC_CLIENT_STOPPING"    -> <<"ClientStopping">>
    [] e = "BC_EVENT"              -> <<"BlockchainEvent">>
    [] e = "AB_AGREEMENT_ENDED"    -> <<"AgreementTimeout">>
    [] e = "CHANGED_POLICY"        -> <<"PolicyChanged">>
    [] e = "DELETED_POLICY"        -> <<"PolicyDeleted">>
    [] e = "WORKLOAD_UPGRADE"      -> <<"WorkloadUpgrade">>
    [] e = "UNCONFIGURE_COMPLETE"  -> <<"BeginShutdown", "Terminate">>
    [] e = "AGBOT_QUIESCE_COMPLETE" -> <<"Terminate">>
    [] e = "START_AGBOT_QUIESCE"   -> <<"AgbotShutdown">>
    [] OTHER -> AgBotExchangeEvent(e)

\* The agbot's change feed stops with the agent it runs on, and only then.
AgBotChangesNewEvent(e) == IF e = "UNCONFIGURE_COMPLETE" THEN <<"Terminate">> ELSE <<>>

NewEvent(w, e) ==
  CASE w = "Governance"       -> GovernanceNewEvent(e)
    [] w = "Agreement"        -> AgreementNewEvent(e)
    [] w = "Container"        -> ContainerNewEvent(e)
    [] w = "ImageFetch"       -> ImageFetchNewEvent(e)
    [] w = "Kube"             -> KubeNewEvent(e)
    [] w = "Resource"         -> ResourceNewEvent(e)
    [] w = "ExchangeMessages" -> ExchangeMessagesNewEvent(e)
    [] w = "ExchangeChanges"  -> ExchangeChangesNewEvent(e)
    [] w = "NodeManagement"   -> NodeManagementNewEvent(e)
    [] w = "Download"         -> DownloadNewEvent(e)
    [] w = "ClusterUpgrade"   -> ClusterUpgradeNewEvent(e)
    [] w = "AgBot"            -> AgBotNewEvent(e)
    [] w = "AgBot ExchangeChanges" -> AgBotChangesNewEvent(e)
    [] OTHER -> <<>>     \* the API listeners have no command thread: see ApiStop

\* The API listeners answer these events by removing themselves from the registry, from a
\* goroutine of their own.
ApiStop(w, e) ==
  \/ w \in {"API", "AgBot API", "AgBot Secure API"} /\ e = "UNCONFIGURE_COMPLETE"
  \/ w \in {"AgBot API", "AgBot Secure API"} /\ e = "AGBOT_QUIESCE_COMPLETE"

(***************************************************************************)
(* What a command handler may put on the bus before it returns.  Only the  *)
(* handlers whose messages start further work are listed.                  *)
(***************************************************************************)
ImageFetchSends(c) == IF c = "Fetch" THEN {<<"IMAGE_FETCHED">>, <<"IMAGE_FETCH_ERROR">>} ELSE {<<>>}

ContainerSends(c) ==
  CASE c = "WorkloadConfigure"    -> {<<"WL_EXECUTION_BEGUN">>, <<"WL_EXECUTION_FAILED">>}
    [] c = "ContainerConfigure"   -> {<<"MS_EXECUTION_BEGUN">>, <<"MS_EXECUTION_FAILED">>}
    [] c = "ContainerMaintenance" -> {<<>>, <<"WL_EXECUTION_FAILED">>}
    [] c = "MaintainMicroservice" -> {<<>>, <<"MS_EXECUTION_FAILED">>}
    [] c = "WorkloadShutdown"     -> {<<"WORKLOAD_DESTROYED">>}
    [] c = "ShutdownMicroservice" -> {<<"CONTAINER_DESTROYED">>}
    [] OTHER -> {<<>>}

\* On a device the deployments are container deployments, which the Kubernetes worker skips.
KubeSends(type, c) ==
  CASE type = "device" -> {<<>>}
    [] c = "Install"   -> {<<"WL_EXECUTION_BEGUN">>, <<"WL_EXECUTION_FAILED">>}
    [] c = "UnInstall" -> {<<"WORKLOAD_DESTROYED">>}
    [] c \in {"Maintenance", "UpdateSecret"} -> {<<>>, <<"WL_EXECUTION_FAILED">>}
    [] OTHER -> {<<>>}

AgreementSends(c) ==
  CASE c = "NodeChange" -> {<<>>, <<"UPDATE_NODE_USERINPUT">>}
    [] c = "NodePolicyChange" -> {<<>>, <<"UPDATE_NODE_POLICY">>}
    [] c = "NodeSvcConfigStateChange" -> {<<>>, <<"SERVICE_CONFIG_STATE_CHANGED">>}
    [] c = "ExchangeMessage" -> {<<>>, <<"PROPOSAL_ACCEPTED">>}
    [] OTHER -> {<<>>}

Sends(type, w, c) ==
  CASE w = "ImageFetch" -> ImageFetchSends(c)
    [] w = "Container"  -> ContainerSends(c)
    [] w = "Kube"       -> KubeSends(type, c)
    [] w = "Agreement"  -> AgreementSends(c)
    [] w = "ExchangeMessages" /\ c = "Message" -> {<<>>, <<"RECEIVED_EXCHANGE_DEV_MSG">>}
    [] w = "Resource" /\ c = "NodeUnconfig" -> {<<"ESS_UNCONFIG">>}
    [] w = "Download" /\ c = "StartDownload" -> {<<"NMP_DOWNLOAD_COMPLETE">>}
    [] OTHER -> {<<>>}
============================================================================
