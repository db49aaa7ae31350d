--------------------------- MODULE NodeManagement ---------------------------
(***************************************************************************)
(* Node management policies (NMPs): the automatic upgrade of an agent.     *)
(*                                                                         *)
(* The node management worker keeps a status for every NMP that matches    *)
(* the node; its monitor picks the next NMP that is due, the download      *)
(* worker fetches the packages, and the upgrade is made by a job outside   *)
(* of the agent (a device) or by the cluster upgrade worker.  A node of an *)
(* HA group asks an agbot for its turn.  The monitor holds                 *)
(* statusUpdateLock; the handler of a finished download, the resets and    *)
(* the upgrade itself do not.                                              *)
(***************************************************************************)
EXTENDS Integers, Sequences, FiniteSets

CONSTANTS
  NMPs,
  ScheduledTime,      \* [NMPs -> Nat]: when an upgrade is due
  ManifestVersion,    \* [NMPs -> Nat]: version of the software, 0 stands for "latest"
  AllowDowngrade,     \* the NMPs that may go back to an older version
  MaxDownloadAttempts,\* 4 in the code
  Chunked,            \* objects are fetched in chunks
  ResetActive,        \* an administrator resets an upgrade that is under way
  MaxVersion, MaxTime, MaxStarts, MaxResets, MaxFailures   \* bounds

ASSUME ManagementAssumption ==
  /\ ScheduledTime \in [NMPs -> Nat] /\ ManifestVersion \in [NMPs -> Nat] /\ AllowDowngrade \subseteq NMPs
  /\ MaxDownloadAttempts \in Nat

VARIABLES
  kind,         \* [cluster, haGroup]: what the node is
  policies,     \* NMPs in the exchange: [NMPs -> {"none", "enabled", "disabled"}]
  status,       \* local statuses
  exStatus,     \* statuses in the exchange
  attempts,     \* DownloadAttempts
  upgraded,     \* UpgradedVersions.SoftwareVersion of a status
  picked,       \* the NMP the monitor is about to start
  downloads,    \* commands of the download worker
  completes,    \* NMP_DOWNLOAD_COMPLETE messages: [nmp, st, version]
  packages,     \* AGENT_PACKAGE_DOWNLOADED messages for the cluster upgrade worker
  upgrade,      \* the upgrade under way: [nmp, version, step, backup], with the version it saved
  file,         \* status.json of the upgrade: [st, need, done]
  k8s,          \* [config, image]: version of the cluster's resources
  agentVersion, latest, deferred,
  haTurn,       \* the row of the group in the agbots' database: "none", "node" or "other"
  clock, starts, resets, failures

managementVars == <<kind, policies, status, exStatus, attempts, upgraded, picked, downloads, completes, packages,
                    upgrade, file, k8s, agentVersion, latest, deferred, haTurn, clock, starts, resets, failures>>

NoNMP == "none"
Idle == [nmp |-> NoNMP, version |-> 0, step |-> "idle", backup |-> 0]
NoFile == [st |-> "none", need |-> {}, done |-> {}]

Active == {"download started", "downloaded", "initiated", "rollback started", "ha waiting"}
IsActiveStatus(st) == st \in Active

ManagementInit ==
  /\ kind \in [cluster : BOOLEAN, haGroup : BOOLEAN]
  /\ policies = [n \in NMPs |-> "none"] /\ status = [n \in NMPs |-> "none"] /\ exStatus = status
  /\ attempts = [n \in NMPs |-> 0] /\ upgraded = [n \in NMPs |-> 0]
  /\ picked = NoNMP /\ downloads = <<>> /\ completes = <<>> /\ packages = <<>>
  /\ upgrade = Idle /\ file = NoFile /\ k8s = [config |-> 2, image |-> 2]
  /\ agentVersion = 2 /\ latest = 1 /\ deferred = FALSE /\ haTurn = "none"
  /\ clock = 0 /\ starts = 0 /\ resets = 0 /\ failures = 0

-----------------------------------------------------------------------------
(* Statuses.                                                                 *)

FindNMPSWithStatuses(set) == {n \in NMPs : status[n] \in set}
FindWaitingNMPStatuses == FindNMPSWithStatuses({"waiting"})
FindHAWaitingNMPStatuses == FindNMPSWithStatuses({"ha waiting"})
\* FindNodeUpgradeStatusesWithTypeAfterTime, for software
UpgradedAfter(n) == {m \in NMPs : upgraded[m] # 0 /\ ScheduledTime[m] > ScheduledTime[n] /\ status[m] # "none"}

TimeToStart(n) == ScheduledTime[n] < clock

\* UpdateStatus saves the status and puts it in the exchange; the put may fail, and is not repeated.
UpdateStatus(n, st) ==
  /\ status' = [status EXCEPT ![n] = st]
  /\ exStatus' \in {exStatus, [exStatus EXCEPT ![n] = st]}

Fail == failures < MaxFailures /\ failures' = failures + 1
NoFault == UNCHANGED failures
Environment == <<kind, policies, latest, clock, starts, resets>>

\* ProcessAllNMPS: a status for every NMP that matches and is enabled, and for no other.
VerifyCompatible(n) == policies[n] # "none"
ProcessAllNMPS ==
  LET Keep(n) == VerifyCompatible(n) /\ policies[n] = "enabled" IN
  /\ picked = NoNMP
  /\ \E n \in NMPs : Keep(n) # (status[n] # "none")
  /\ status' = [n \in NMPs |-> IF ~Keep(n) THEN "none" ELSE IF status[n] = "none" THEN "waiting" ELSE status[n]]
  /\ exStatus' = [n \in NMPs |-> IF Keep(n) /\ status[n] # "none" THEN exStatus[n] ELSE status'[n]]
  /\ attempts' = [n \in NMPs |-> IF status[n] = "none" \/ ~Keep(n) THEN 0 ELSE attempts[n]]
  /\ upgraded' = [n \in NMPs |-> IF Keep(n) THEN upgraded[n] ELSE 0]
  /\ UNCHANGED <<Environment, picked, downloads, completes, packages, upgrade, file, k8s, agentVersion, deferred,
                 haTurn, failures>>

\* The monitor, on HA nodes: a waiting NMP goes on when the agbot grants the turn.
HANodeCanExecuteNMP == haTurn \in {"none", "node"}
CheckHAWaiting(n) ==
  /\ n \in FindHAWaitingNMPStatuses /\ picked = NoNMP
  /\ (~kind.haGroup \/ HANodeCanExecuteNMP)
  /\ haTurn' = IF kind.haGroup THEN "node" ELSE haTurn
  /\ UpdateStatus(n, "downloaded") /\ NoFault
  /\ UNCHANGED <<Environment, attempts, upgraded, picked, downloads, completes, packages, upgrade, file, k8s,
                 agentVersion, deferred>>

\* The monitor, when no upgrade is under way: of the NMPs that are due, the one scheduled last.
GetLatest(set) ==
  CHOOSE n \in set : \A m \in set : ScheduledTime[n] >= ScheduledTime[m]
CheckNMPTimeToRun ==
  LET due == {n \in FindWaitingNMPStatuses : TimeToStart(n)} IN
  /\ picked = NoNMP /\ FindHAWaitingNMPStatuses = {}
  /\ FindNMPSWithStatuses({"downloaded", "initiated", "download started", "ha waiting"}) = {}
  /\ due # {} /\ picked' = GetLatest(due) /\ NoFault
  /\ UNCHANGED <<Environment, status, exStatus, attempts, upgraded, downloads, completes, packages, upgrade, file, k8s,
                 agentVersion, deferred, haTurn>>

StartDownload ==
  /\ picked # NoNMP /\ UpdateStatus(picked, "download started")
  /\ downloads' = Append(downloads, picked) /\ picked' = NoNMP /\ NoFault
  /\ UNCHANGED <<Environment, attempts, upgraded, completes, packages, upgrade, file, k8s, agentVersion, deferred, haTurn>>

-----------------------------------------------------------------------------
(* The download worker.                                                      *)

\* findBestMatchingVersion: "latest" is the newest version the exchange offers.
FindBestMatchingVersion(n) == IF ManifestVersion[n] = 0 THEN latest ELSE ManifestVersion[n]

\* Mutant: any other version is fetched.
ResolveAnyVersion(n) == LET v == FindBestMatchingVersion(n) IN IF v # agentVersion THEN v ELSE 0

\* ResolveUpgradeVersions: an older version is fetched only where a downgrade is allowed and no
\* NMP scheduled later has upgraded the software; 0: there is nothing to fetch.
ResolveUpgradeVersions(n) ==
  LET v == FindBestMatchingVersion(n) IN
  IF v > agentVersion \/ (v < agentVersion /\ n \in AllowDowngrade /\ UpgradedAfter(n) = {}) THEN v ELSE 0

Completed(n, st) == [nmp |-> n, st |-> st, version |-> IF st \in {"downloaded", "no action"} THEN FindBestMatchingVersion(n) ELSE 0]

downloadVars == <<Environment, status, exStatus, attempts, upgraded, picked, packages, upgrade, file, k8s, agentVersion,
                  deferred, haTurn>>

DownloadAgentUpgradePackages ==
  /\ downloads # <<>> /\ downloads' = Tail(downloads) /\ NoFault
  /\ completes' = Append(completes, Completed(Head(downloads),
                    IF ResolveUpgradeVersions(Head(downloads)) = 0 THEN "no action" ELSE "downloaded"))
  /\ UNCHANGED downloadVars

DownloadPrecheckFails ==
  /\ downloads # <<>> /\ downloads' = Tail(downloads) /\ Fail
  /\ completes' = Append(completes, Completed(Head(downloads), "precheck failed"))
  /\ UNCHANGED downloadVars

\* DownloadCSSObject: an object that is not fetched in chunks announces the failure itself, and
\* the caller does it again.
DownloadCSSObjectFails ==
  /\ downloads # <<>> /\ downloads' = Tail(downloads) /\ Fail
  /\ LET c == Completed(Head(downloads), "download failed") IN
     completes' = IF Chunked THEN Append(completes, c) ELSE completes \o <<c, c>>
  /\ UNCHANGED downloadVars

\* DownloadComplete: a failed download is tried again, at most so many times.  A package that is
\* there is announced even if the node has to wait for its turn.
DownloadComplete ==
  /\ completes # <<>> /\ completes' = Tail(completes)
  /\ LET c == Head(completes)
         new == CASE c.st = "no action" -> "no action"
                  [] c.st = "downloaded" -> IF kind.haGroup THEN "ha waiting" ELSE "downloaded"
                  [] c.st = "precheck failed" -> "precheck failed"
                  [] OTHER -> IF attempts[c.nmp] < MaxDownloadAttempts THEN "waiting" ELSE "download failed" IN
     IF status[c.nmp] = "none" THEN UNCHANGED <<status, exStatus, attempts, upgraded, packages>>
     ELSE /\ UpdateStatus(c.nmp, new)
          /\ attempts' = IF c.st = "download failed" /\ new = "waiting" THEN [attempts EXCEPT ![c.nmp] = @ + 1] ELSE attempts
          /\ upgraded' = IF c.version # 0 THEN [upgraded EXCEPT ![c.nmp] = c.version] ELSE upgraded
          /\ packages' = IF c.st = "downloaded" THEN Append(packages, c) ELSE packages
  /\ NoFault
  /\ UNCHANGED <<Environment, picked, downloads, upgrade, file, k8s, agentVersion, deferred, haTurn>>

\* ... which needs the node from the exchange: without it the message is dropped.
DownloadCompleteDropped ==
  /\ completes # <<>> /\ Head(completes).st = "downloaded" /\ status[Head(completes).nmp] # "none"
  /\ completes' = Tail(completes) /\ Fail
  /\ UNCHANGED <<Environment, status, exStatus, attempts, upgraded, picked, downloads, packages, upgrade, file, k8s,
                 agentVersion, deferred, haTurn>>

-----------------------------------------------------------------------------
(* The upgrade of a device: the job asks for the next NMP and reports.       *)

upgradeVars == <<Environment, attempts, upgraded, picked, downloads, completes, deferred, haTurn>>

\* FindManagementNextJobForOutput: of the NMPs that are ready, the one scheduled first.
NextJob == {n \in FindNMPSWithStatuses({"downloaded"}) :
              \A m \in FindNMPSWithStatuses({"downloaded"}) : ScheduledTime[n] <= ScheduledTime[m]}

\* SetNodeManagementPolicyStatus
SetNodeManagementPolicyStatus(n, st) ==
  /\ UpdateStatus(n, st)

\* The job saves what is installed and begins.
UpdateManagementStatusInitiated(n) ==
  /\ ~kind.cluster /\ upgrade = Idle /\ n \in NextJob
  /\ SetNodeManagementPolicyStatus(n, "initiated")
  /\ upgrade' = [nmp |-> n, version |-> upgraded[n], step |-> "install", backup |-> agentVersion]
  /\ NoFault /\ UNCHANGED <<upgradeVars, packages, file, k8s, agentVersion>>

\* agent-install.sh installs a newer version, and an older one only with the flag -f.
InstallPkgs(v, overwrite) == IF v > agentVersion \/ (v < agentVersion /\ overwrite) THEN v ELSE agentVersion

\* agent-auto-upgrade.sh gives the flag for an NMP that allows a downgrade.
JobVersion == InstallPkgs(upgrade.version, upgrade.nmp \in AllowDowngrade)

Step(s) == upgrade' = [upgrade EXCEPT !.step = s]
jobVars == <<upgradeVars, packages, file, k8s>>
JobStep(step) == ~kind.cluster /\ upgrade.step = step
JobSets(st) == IF status[upgrade.nmp] = "none" THEN UNCHANGED <<status, exStatus>> ELSE SetNodeManagementPolicyStatus(upgrade.nmp, st)

JobInstalls ==
  /\ JobStep("install") /\ Step("report") /\ agentVersion' = JobVersion
  /\ NoFault /\ UNCHANGED <<jobVars, status, exStatus>>

\* The checks of agent-install.sh fail: nothing was installed.
JobPrecheckFails ==
  /\ JobStep("install") /\ Fail /\ Step("precheck")
  /\ UNCHANGED <<jobVars, status, exStatus, agentVersion>>

\* It fails later, with the new version in place or not.
JobFails ==
  /\ JobStep("install") /\ Fail /\ agentVersion' \in {agentVersion, JobVersion}
  /\ JobSets("failed") /\ Step("rollback") /\ UNCHANGED jobVars

\* Then the job puts the saved version back, if it could save it at the start.
JobRollbackStarts ==
  /\ JobStep("rollback") /\ NoFault
  /\ \/ JobSets("rollback started") /\ Step("restore")
     \/ JobSets("rollback failed") /\ upgrade' = Idle
  /\ UNCHANGED <<jobVars, agentVersion>>

JobRollsBack ==
  /\ JobStep("restore") /\ NoFault
  /\ \/ agentVersion' = upgrade.backup /\ Step("restored")
     \/ agentVersion' \in {agentVersion, upgrade.backup} /\ Step("broken")
  /\ UNCHANGED <<jobVars, status, exStatus>>

\* The last report of the job.
JobOutcome == [report |-> "successful", precheck |-> "precheck failed",
               restored |-> "rollback successful", broken |-> "rollback failed"]
UpdateManagementStatusEnded ==
  /\ ~kind.cluster /\ upgrade.step \in DOMAIN JobOutcome
  /\ JobSets(JobOutcome[upgrade.step])
  /\ upgrade' = Idle /\ NoFault /\ UNCHANGED <<jobVars, agentVersion>>

-----------------------------------------------------------------------------
(* The cluster upgrade worker.                                               *)

CreateNMPStatusFile(st) == file' = [NoFile EXCEPT !.st = st]
SetNMPStatusInStatusFile(st) == file' = [file EXCEPT !.st = st]
SetResourceNeedChange(need) == file' = [file EXCEPT !.need = need]
SetResourceUpdated(r) == file' = [file EXCEPT !.done = @ \cup {r}]

\* collectStatus copies the status of the file to the database and to the exchange.
CollectStatus(n, st) == IF status[n] = "none" THEN UNCHANGED <<status, exStatus>> ELSE SetNodeManagementPolicyStatus(n, st)
SetStatusInDBAndFile(n, st) == SetNMPStatusInStatusFile(st) /\ CollectStatus(n, st)

clusterVars == <<upgradeVars, agentVersion>>

\* HandleClusterUpgrade, when no agreement is being made any more.
HandleClusterUpgrade ==
  /\ kind.cluster /\ upgrade = Idle /\ packages # <<>> /\ packages' = Tail(packages)
  /\ CreateNMPStatusFile("initiated") /\ CollectStatus(Head(packages).nmp, "initiated")
  /\ upgrade' = [nmp |-> Head(packages).nmp, version |-> Head(packages).version, step |-> "check", backup |-> agentVersion]
  /\ NoFault /\ UNCHANGED <<clusterVars, k8s>>

\* checkAgentConfig, checkAgentCert, checkAgentImage: which resources differ from the package.
CheckResources(v) == (IF k8s.config # v THEN {"config"} ELSE {}) \cup (IF agentVersion # v THEN {"image"} ELSE {})

ClusterCheck ==
  /\ upgrade.step = "check"
  /\ SetResourceNeedChange(CheckResources(upgrade.version))
  /\ Step(IF CheckResources(upgrade.version) = {} THEN "done" ELSE "config")
  /\ NoFault /\ UNCHANGED <<clusterVars, packages, status, exStatus, k8s>>

\* A check or an update that fails ends the upgrade.
ClusterFails ==
  /\ kind.cluster /\ upgrade.step \in {"check", "config", "image"} /\ Fail
  /\ SetStatusInDBAndFile(upgrade.nmp, IF upgrade.step = "check" THEN "precheck failed" ELSE "failed")
  /\ upgrade' = Idle /\ UNCHANGED <<clusterVars, packages, k8s>>

\* Without the architecture of the cluster the handler only returns: the NMP stays initiated.
ClusterArchUnknown ==
  /\ kind.cluster /\ upgrade.step = "check" /\ Fail /\ Step("wait")
  /\ SetResourceNeedChange(CheckResources(upgrade.version) \ {"image"})
  /\ UNCHANGED <<clusterVars, packages, status, exStatus, k8s>>

\* The config map (and the secret) with a backup of the old one.
UpdateAgentConfigmap ==
  /\ upgrade.step = "config" /\ Step("image") /\ NoFault
  /\ IF "config" \in file.need THEN k8s' = [k8s EXCEPT !.config = upgrade.version] /\ SetResourceUpdated("config")
     ELSE UNCHANGED <<k8s, file>>
  /\ UNCHANGED <<clusterVars, packages, status, exStatus>>

\* The deployment gets the new image, and Kubernetes will replace this pod.
UpdateAgentDeploymentImage ==
  /\ upgrade.step = "image" /\ NoFault
  /\ IF "image" \in file.need THEN k8s' = [k8s EXCEPT !.image = upgrade.version] /\ Step("wait") ELSE Step("done") /\ UNCHANGED k8s
  /\ UNCHANGED <<clusterVars, packages, status, exStatus, file>>

ClusterDone ==
  /\ upgrade.step = "done" /\ SetStatusInDBAndFile(upgrade.nmp, "successful") /\ upgrade' = Idle
  /\ NoFault /\ UNCHANGED <<clusterVars, packages, k8s>>

\* checkDeploymentStatus after a restart: what needed a change must be there.
CheckDeploymentStatus ==
  IF file.st \in {"rollback started", "rollback successful", "rollback failed"} THEN file.st
  ELSE IF /\ "config" \in file.need => k8s.config = upgrade.version
          /\ "image" \in file.need => agentVersion' = upgrade.version
       THEN file.st ELSE "failed"

\* syncOnInit
ClusterStatusOnInit ==
  CASE CheckDeploymentStatus = "rollback started" -> "rollback successful"
    [] CheckDeploymentStatus = "initiated" -> "successful"
    [] OTHER -> CheckDeploymentStatus

-----------------------------------------------------------------------------
(* New versions, resets, the agbots and the process.                         *)

environmentVars == <<kind, attempts, upgraded, picked, downloads, completes, packages, upgrade, file, k8s, agentVersion,
                     failures>>

\* An NMP is created, changed or deleted in the exchange.
PolicyChange(n, p) ==
  /\ policies[n] # p /\ starts < MaxStarts /\ starts' = starts + 1 /\ policies' = [policies EXCEPT ![n] = p]
  /\ UNCHANGED <<environmentVars, status, exStatus, latest, clock, resets, deferred, haTurn>>

Tick ==
  /\ clock < MaxTime /\ clock' = clock + 1
  /\ UNCHANGED <<environmentVars, policies, status, exStatus, latest, starts, resets, deferred, haTurn>>

\* A new version of the agent files is published.
PublishVersion ==
  /\ latest < MaxVersion /\ latest' = latest + 1 /\ deferred' = TRUE
  /\ UNCHANGED <<environmentVars, policies, status, exStatus, clock, starts, resets, haTurn>>

\* IsLatestVersionHandled and IsAgentUpToDate
LatestHandled(n) == upgraded[n] = latest
AgentUpToDate == agentVersion = latest

\* HandleAgentFilesVersionChange: NMPs that ask for "latest" are run again; while one of them is
\* under way the command is deferred.
HandleAgentFilesVersionChange ==
  LET asking == {n \in NMPs : ManifestVersion[n] = 0 /\ status[n] # "none" /\ upgraded[n] # 0}
      again == {n \in asking : IF status[n] \in {"download failed", "failed", "precheck failed"} THEN ~LatestHandled(n)
                                ELSE status[n] # "waiting" /\ ~IsActiveStatus(status[n]) /\ ~AgentUpToDate} IN
  /\ deferred /\ deferred' = (\E n \in asking : IsActiveStatus(status[n]))
  /\ again # {} \/ ~deferred'
  /\ status' = [n \in NMPs |-> IF n \in again THEN "waiting" ELSE status[n]]
  /\ exStatus' = [n \in NMPs |-> IF n \in again THEN "waiting" ELSE exStatus[n]]
  /\ UNCHANGED <<environmentVars, policies, latest, clock, starts, resets, haTurn>>

\* A reset, by the API of the agent or through the exchange: the NMP is evaluated again.
ResetManagementStatus(n) ==
  /\ resets < MaxResets /\ resets' = resets + 1
  /\ status[n] \notin {"none", "waiting"} /\ (ResetActive \/ ~IsActiveStatus(status[n]))
  /\ UpdateStatus(n, "waiting") /\ attempts' = [attempts EXCEPT ![n] = 0]
  /\ UNCHANGED <<kind, policies, upgraded, picked, downloads, completes, packages, upgrade, file, k8s, agentVersion,
                 latest, deferred, haTurn, clock, starts, failures>>

\* monitorHAGroupNMPUpdates of an agbot: the turn of a node whose upgrade is not active ends.
MonitorHAGroupNMPUpdates ==
  /\ haTurn = "node" /\ ~(\E n \in NMPs : IsActiveStatus(exStatus[n])) /\ haTurn' = "none"
  /\ UNCHANGED <<environmentVars, policies, status, exStatus, latest, deferred, clock, starts, resets>>
\* The other node of the group takes its turn, and ends it.
OtherTurn ==
  /\ kind.haGroup /\ haTurn # "node" /\ haTurn' = IF haTurn = "none" THEN "other" ELSE "none"
  /\ UNCHANGED <<environmentVars, policies, status, exStatus, latest, deferred, clock, starts, resets>>

\* HandleUnregister deletes all NMPs and statuses.
HandleUnregister ==
  /\ starts < MaxStarts /\ starts' = starts + 1 /\ picked = NoNMP
  /\ policies' = [n \in NMPs |-> "none"] /\ status' = [n \in NMPs |-> "none"] /\ exStatus' = [n \in NMPs |-> "none"]
  /\ attempts' = [n \in NMPs |-> 0] /\ upgraded' = [n \in NMPs |-> 0]
  /\ UNCHANGED <<kind, picked, downloads, completes, packages, upgrade, file, k8s, agentVersion, latest, deferred, haTurn,
                 clock, resets, failures>>

\* The agent stops, or is replaced by the new image: its queues are lost.  On start downloads
\* begin again and an initiated upgrade of the cluster is judged.
ManagementRestart ==
  /\ starts < MaxStarts /\ starts' = starts + 1
  /\ agentVersion' = IF kind.cluster THEN k8s.image ELSE agentVersion
  /\ LET judged == kind.cluster /\ upgrade.nmp # NoNMP /\ status[upgrade.nmp] = "initiated" IN
     /\ status' = [n \in NMPs |-> IF status[n] = "download started" THEN "waiting"
                                  ELSE IF judged /\ n = upgrade.nmp THEN ClusterStatusOnInit ELSE status[n]]
     /\ file' = IF judged THEN [file EXCEPT !.st = ClusterStatusOnInit] ELSE file
  /\ exStatus' = status' /\ deferred' = TRUE
  /\ picked' = NoNMP /\ downloads' = <<>> /\ completes' = <<>> /\ packages' = <<>>
  /\ upgrade' = IF kind.cluster THEN Idle ELSE upgrade
  /\ UNCHANGED <<kind, policies, attempts, upgraded, k8s, latest, haTurn, clock, resets, failures>>

ManagementNext ==
  \/ ProcessAllNMPS \/ CheckNMPTimeToRun \/ StartDownload \/ \E n \in NMPs : CheckHAWaiting(n)
  \/ DownloadAgentUpgradePackages \/ DownloadPrecheckFails \/ DownloadCSSObjectFails
  \/ DownloadComplete \/ DownloadCompleteDropped
  \/ JobInstalls \/ JobPrecheckFails \/ JobFails \/ JobRollbackStarts \/ JobRollsBack
  \/ UpdateManagementStatusEnded
  \/ \E n \in NMPs : UpdateManagementStatusInitiated(n) \/ ResetManagementStatus(n)
  \/ HandleClusterUpgrade \/ ClusterCheck \/ ClusterFails \/ ClusterArchUnknown
  \/ UpdateAgentConfigmap \/ UpdateAgentDeploymentImage \/ ClusterDone
  \/ \E n \in NMPs : \E p \in {"none", "enabled", "disabled"} : PolicyChange(n, p)
  \/ Tick \/ PublishVersion \/ HandleAgentFilesVersionChange \/ MonitorHAGroupNMPUpdates \/ OtherTurn
  \/ HandleUnregister \/ ManagementRestart

ManagementSpec == ManagementInit /\ [][ManagementNext]_managementVars

-----------------------------------------------------------------------------
(* Properties.                                                               *)

\* The software goes back to an older version only for an NMP that allows it, however NMPs are
\* due, downloads fail and are repeated, versions are published, and the agent is restarted in
\* between: what ResolveUpgradeVersions compared with is still the version when the upgrade runs.
\* The one other way back is the rollback of an upgrade that failed, to the version the same
\* upgrade began from (agent-auto-upgrade.sh; docs/node_management_status.md:62-64).
VersionFallsOnlyIfAllowed ==
  [][agentVersion' < agentVersion =>
       \/ upgrade.nmp \in AllowDowngrade
       \/ upgrade.step = "restore" /\ agentVersion' = upgrade.backup]_managementVars

\* An upgrade of a cluster that ended well did what it was for: docs/node_management_status.md.
SuccessIsReal ==
  [][\A n \in NMPs : status[n] = "initiated" /\ status'[n] = "successful" /\ kind.cluster
       => agentVersion' = upgrade.version /\ k8s'.config = upgrade.version]_managementVars
=============================================================================
