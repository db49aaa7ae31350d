---------------------------- MODULE KubeOperator ----------------------------
(* The Kubernetes worker of an agent: the objects of a service's operator in a
   cluster (kube_operator/kubeworker.go, client.go, api_objects.go).

   The agreements of this module run the same operator, which has one object of
   each kind.  A worker executes its commands one after the other; the calls of
   the Kubernetes API that one command makes interleave with those of the other
   agents of the cluster.  Some objects belong to the cluster and are shared:
   the cluster role, its binding, which has one subject per namespace, and the
   definition of the custom resource.

   The cluster (external) is modelled from how the worker uses it: an update of
   a copy that is no longer current is refused, a deletion is not; a namespace
   takes its objects with it and a definition its custom resources; a custom
   resource with a finalizer, and the pods of a deployment, outlive the call
   that deletes them. *)
EXTENDS Integers, FiniteSets, SequencesExt

CONSTANTS
  KubeDeals,        \* agreements for the operator
  NodeSpace,        \* the namespace of every agent
  ScopedAgents,     \* the agents restricted to their own namespace
  Places,           \* for every agreement, the agent that executes it and the namespace it
                    \* asks for, or NoSpace
  Operators,        \* operators: the namespace in their metadata, their namespace object,
                    \* their secret and their deployment, and that of the subject of their
                    \* binding, each a namespace or NoSpace; whether their files can be read
                    \* and name every object, whether their object of another kind belongs to
                    \* the cluster, and whether they have secrets and a volume
  MaxWaiting,       \* commands of a worker, the one it executes included, for the agent
                    \* to send it no check
  MaxKubeFaults     \* calls that fail and restarts of an agent

VARIABLES
  operator,     \* the operator of the agreements
  place,        \* their agents and namespaces
  objects,      \* the objects in the cluster: <<kind, namespace or agreement>>
  subjects,     \* the namespaces in the cluster role binding; the binding is gone when there are none
  crs,          \* the custom resource of a namespace: "none", "there" or "ending"
  pods,         \* the namespaces with pods that are not terminating
  kubeOp,       \* the command an agent executes
  kubeQueue,    \* the commands of an agent's worker
  kubeRecord,   \* the agreement in the agent's database
  raced,        \* history: agreements that were uninstalled while another agent was busy,
                \* those it was busy with, and those of a namespace where another agreement
                \* is deployed or uninstalled while they are not ended
  spoilt,       \* history: agreements of which a deletion failed, whose record could not be
                \* read at the installation, or whose config map was not made again
  kubeFaults

kubeVars == <<operator, place, objects, subjects, crs, pods, kubeOp, kubeQueue, kubeRecord,
              raced, spoilt, kubeFaults>>

NoSpace == "-"
Agents == DOMAIN NodeSpace
AgentOf(d) == place[d].agent
IdleOp == [mode |-> "idle"]

\* sortAPIObjects: the namespaces in the metadata and in the objects that may name one.
Declared == {operator.meta, operator.namespace, operator.secretSpace, operator.deploySpace} \ {NoSpace}
OpSpace == IF Declared = {} THEN NoSpace ELSE CHOOSE s \in Declared : TRUE

\* getYamlFromTarGz and getK8sObjectFromYaml: the files can be read.
Readable == operator.wellFormed

\* ProcessDeployment: an operator that names two namespaces cannot be processed.
Processed == Readable /\ Cardinality(Declared) <= 1

\* getFinalNamespace
Space(d) ==
  LET asked == IF place[d].space # NoSpace THEN place[d].space ELSE OpSpace
  IN  IF asked # NoSpace THEN asked ELSE NodeSpace[AgentOf(d)]

Spaces == {Space(d) : d \in KubeDeals}
Scoped(d) == AgentOf(d) \in ScopedAgents
Abroad(d) == Space(d) # NodeSpace[AgentOf(d)]

\* getBaseK8sKinds; the custom resource follows its definition, and the objects
\* of other kinds come last.
InstallOrder == <<"Namespace", "ClusterRole", "ClusterRoleBinding", "Role", "RoleBinding",
                  "ServiceAccount", "Secret", "CRD", "CR", "Deployment", "Other">>

\* Whether a namespace object is made up for the uninstallation.
MadeUp(d) == operator.namespace = NoSpace /\ Abroad(d) /\ ~Scoped(d)

\* The network policy is deleted only when no namespace object is made up.  Of an
\* operator that cannot be processed nothing is deleted.
UninstallOrder(d) ==
  IF ~Processed THEN <<>>
  ELSE <<"CR", "CRD", "Other">>
         \o (IF Abroad(d) /\ ~MadeUp(d) THEN <<"NetworkPolicy">> ELSE <<>>)
         \o <<"Deployment", "CR", "CRD", "Secret", "ServiceAccount", "RoleBinding", "Role",
               "ClusterRoleBinding", "ClusterRole">>
         \o (IF operator.namespace # NoSpace \/ MadeUp(d) THEN <<"Namespace">> ELSE <<>>)

\* The objects of a deployment that are named after the agreement, in the order they are made.
ConfigMap(d) == <<<<"ConfigMap", d>>>>
EssSecrets(d) == <<<<"EssAuth", d>>, <<"EssCert", d>>>>
Volume(d) == IF operator.volume THEN <<<<"Volume", d>>>> ELSE <<>>
ServiceSecrets(d) == IF operator.secrets THEN <<<<"ServiceSecrets", d>>>> ELSE <<>>
EnvOrder(d) == ConfigMap(d) \o EssSecrets(d) \o Volume(d) \o ServiceSecrets(d)
EnvObjects(d) == Range(EnvOrder(d))

\* The namespace of the subject, as it is put into the binding and as it is looked for.
SubjectAtInstall(d) ==
  IF (Scoped(d) /\ operator.subject # NoSpace) \/ (~Scoped(d) /\ operator.subject = NoSpace)
  THEN Space(d) ELSE operator.subject
SubjectAtUninstall(d) == IF Scoped(d) /\ operator.subject # NoSpace THEN Space(d) ELSE operator.subject

KubeInit ==
  /\ operator \in Operators /\ place \in Places
  /\ objects = {<<"Namespace", NodeSpace[g]>> : g \in Agents}
  /\ subjects = {} /\ pods = {}
  /\ crs = [s \in Spaces |-> "none"]
  /\ kubeOp = [g \in Agents |-> IdleOp]
  /\ kubeQueue = [g \in Agents |-> <<>>]
  /\ kubeRecord = [d \in KubeDeals |-> [reached |-> FALSE, deployed |-> FALSE,
                                        terminated |-> FALSE, told |-> "none"]]
  /\ raced = {} /\ spoilt = {}
  /\ kubeFaults = 0

-----------------------------------------------------------------------------
(* The commands: NewEvent *)

cluster == <<operator, place, objects, subjects, crs, pods>>
bounds == <<spoilt, kubeFaults>>

Enqueue(d, cmd) ==
  kubeQueue' = [kubeQueue EXCEPT ![AgentOf(d)] = Append(@, [cmd |-> cmd, deal |-> d])]

\* AgreementReachedMessage
Reach(d) ==
  /\ ~kubeRecord[d].reached
  /\ kubeRecord' = [kubeRecord EXCEPT ![d].reached = TRUE]
  /\ Enqueue(d, "install")
  /\ UNCHANGED <<cluster, kubeOp, raced, bounds>>

\* cancelAgreement and the GovernanceWorkloadCancelationMessage, which carries
\* the deployment that is in the record: without one the worker ignores it.
CancelDeal(d) ==
  /\ kubeRecord[d].reached /\ ~kubeRecord[d].terminated
  /\ kubeRecord' = [kubeRecord EXCEPT ![d].terminated = TRUE]
  /\ IF kubeRecord[d].deployed THEN Enqueue(d, "uninstall") ELSE UNCHANGED kubeQueue
  /\ UNCHANGED <<cluster, kubeOp, raced, bounds>>

\* The checks, which the agent sends from time to time.
Send(d, cmd) ==
  /\ Len(kubeQueue[AgentOf(d)]) + (IF kubeOp[AgentOf(d)] = IdleOp THEN 0 ELSE 1) < MaxWaiting
  /\ Enqueue(d, cmd)
  /\ UNCHANGED <<cluster, kubeOp, kubeRecord, raced, bounds>>

\* governContainers: of every agreement that executes.
GovernContainers(d) ==
  kubeRecord[d].told = "begun" /\ ~kubeRecord[d].terminated /\ Send(d, "maintain")

\* The WorkloadUpdateMessage for an update of secrets; without a deployment in the
\* record the worker ignores it.
SendSecrets(d) == operator.secrets /\ kubeRecord[d].deployed /\ Send(d, "secrets")

\* CleanupStatusCommand: an agreement that was ended is archived some time after
\* WORKLOAD_DESTROYED or, when it was ended because it did not start in time,
\* without waiting for it.
MayBeArchived(d) == kubeRecord[d].terminated /\ kubeRecord[d].told # "begun"

-----------------------------------------------------------------------------
(* CommandHandler *)

HeadIs(g, cmd) == kubeOp[g] = IdleOp /\ kubeQueue[g] # <<>> /\ Head(kubeQueue[g]).cmd = cmd
NextDeal(g) == Head(kubeQueue[g]).deal

\* The agreements other agents install or uninstall at this time.
BusyElsewhere(g, modes) == {kubeOp[h].deal : h \in {a \in Agents \ {g} : kubeOp[a].mode \in modes}}

\* Other agreements that are deployed in the namespace and not ended.
NotEndedBeside(d) ==
  {e \in KubeDeals \ {d} : Space(e) = Space(d) /\ kubeRecord[e].deployed /\ ~kubeRecord[e].terminated}

Take(g, mode, todo) ==
  /\ kubeQueue' = [kubeQueue EXCEPT ![g] = Tail(@)]
  /\ kubeOp' = [kubeOp EXCEPT ![g] = [mode |-> mode, deal |-> NextDeal(g), todo |-> todo,
                                      read |-> FALSE, inUse |-> FALSE, seen |-> {}, stale |-> FALSE]]

\* The deployment is recorded (AgreementDeploymentStarted) before the record is looked at.
TakeInstall(g) ==
  /\ HeadIs(g, "install")
  /\ kubeRecord' = [kubeRecord EXCEPT ![NextDeal(g)].deployed = TRUE]
  /\ Take(g, "check", <<>>)
  /\ UNCHANGED <<cluster, raced, bounds>>

\* The secrets or the start of the deployment cannot be stored; only the second
\* error is reported.
TakeInstallFails(g, told) ==
  /\ HeadIs(g, "install")
  /\ kubeFaults < MaxKubeFaults
  /\ kubeFaults' = kubeFaults + 1
  /\ kubeQueue' = [kubeQueue EXCEPT ![g] = Tail(@)]
  /\ told \in {kubeRecord[NextDeal(g)].told, "failed"}
  /\ kubeRecord' = [kubeRecord EXCEPT ![NextDeal(g)].told = told]
  /\ UNCHANGED <<cluster, kubeOp, raced, spoilt>>

\* The start of Install: a scoped agent refuses another namespace.
Refused(d) == ~Processed \/ (Abroad(d) /\ Scoped(d))

\* processKubeOperator: an agreement that was ended or executes is left alone, as
\* if it had begun.  Install makes the network policy, if it can.
StartInstall(g) ==
  /\ kubeOp[g].mode = "check"
  /\ LET d == kubeOp[g].deal
         ignored == kubeRecord[d].terminated \/ kubeRecord[d].told = "begun"
     IN  IF ignored \/ Refused(d)
         THEN /\ kubeRecord' = [kubeRecord EXCEPT ![d].told = IF ignored THEN "begun" ELSE "failed"]
              /\ kubeOp' = [kubeOp EXCEPT ![g] = IdleOp]
              /\ UNCHANGED <<objects, raced>>
         ELSE /\ \E made \in SUBSET {<<"NetworkPolicy", d>>} :
                   (Abroad(d) \/ made = {}) /\ objects' = objects \cup made
              /\ kubeOp' = [kubeOp EXCEPT ![g].mode = "install", ![g].todo = InstallOrder]
              /\ LET busy == BusyElsewhere(g, {"uninstall"})
                 IN  raced' = raced \cup NotEndedBeside(d) \cup (IF busy = {} THEN {} ELSE busy \cup {d})
              /\ UNCHANGED kubeRecord
  /\ UNCHANGED <<operator, place, subjects, crs, pods, kubeQueue, bounds>>

\* processKubeOperator: an error of the credentials or of the client ends it; a
\* record that cannot be read is only logged and counts as begun.
StartInstallFails(g, unread) ==
  /\ kubeOp[g].mode = "check"
  /\ kubeFaults < MaxKubeFaults
  /\ kubeFaults' = kubeFaults + 1
  /\ spoilt' = IF unread THEN spoilt \cup {kubeOp[g].deal} ELSE spoilt
  /\ kubeRecord' = [kubeRecord EXCEPT ![kubeOp[g].deal].told = IF unread THEN "begun" ELSE "failed"]
  /\ kubeOp' = [kubeOp EXCEPT ![g] = IdleOp]
  /\ UNCHANGED <<cluster, kubeQueue, raced>>

TakeUninstall(g) ==
  /\ HeadIs(g, "uninstall")
  /\ Take(g, "uninstall", UninstallOrder(NextDeal(g)))
  /\ LET d == NextDeal(g)
         busy == BusyElsewhere(g, {"install", "uninstall"})
     IN  raced' = raced \cup NotEndedBeside(d) \cup (IF busy = {} THEN {} ELSE busy \cup {d})
  /\ UNCHANGED <<cluster, kubeRecord, bounds>>

\* uninstallKubeOperator: without a client nothing is deleted, and the workload
\* counts as destroyed all the same.
TakeUninstallFails(g) ==
  /\ HeadIs(g, "uninstall")
  /\ kubeFaults < MaxKubeFaults
  /\ kubeFaults' = kubeFaults + 1
  /\ spoilt' = spoilt \cup {NextDeal(g)}
  /\ kubeRecord' = [kubeRecord EXCEPT ![NextDeal(g)].told = "destroyed"]
  /\ kubeQueue' = [kubeQueue EXCEPT ![g] = Tail(@)]
  /\ UNCHANGED <<cluster, kubeOp, raced>>

\* A command that changes nothing in the cluster; when it fails, so has the workload.
TakeCheck(g, cmd, fault, failed) ==
  /\ HeadIs(g, cmd)
  /\ fault => kubeFaults < MaxKubeFaults
  /\ kubeFaults' = IF fault THEN kubeFaults + 1 ELSE kubeFaults
  /\ kubeRecord' = [kubeRecord EXCEPT ![NextDeal(g)].told = IF fault \/ failed THEN "failed" ELSE @]
  /\ kubeQueue' = [kubeQueue EXCEPT ![g] = Tail(@)]
  /\ UNCHANGED <<cluster, kubeOp, raced, spoilt>>

\* operatorStatus: a container that does not run is an error, and so is a call that
\* fails; without pods there is none.
TakeMaintain(g, unhealthy) == TakeCheck(g, "maintain", unhealthy, FALSE)

\* updateKubeOperatorSecrets: the secret object must be there.
TakeSecrets(g, fault) ==
  TakeCheck(g, "secrets", fault, ServiceSecrets(NextDeal(g)) # <<>>
                                   /\ <<"ServiceSecrets", NextDeal(g)>> \notin objects)

-----------------------------------------------------------------------------
(* The calls of Install *)

Doing(g, mode, kinds) ==
  kubeOp[g].mode = mode /\ kubeOp[g].todo # <<>> /\ Head(kubeOp[g].todo) \in kinds

Replaced == {"Role", "RoleBinding", "ServiceAccount", "Secret"}
InSpace == Replaced \cup {"CR", "Deployment"} \cup (IF operator.wide THEN {} ELSE {"Other"})

\* An object is made in the namespace of the agreement, whatever its own is.
Obj(k, d) == <<k, IF k \in {"ClusterRole", "CRD"} \/ (k = "Other" /\ operator.wide) THEN "cluster"
                  ELSE IF k = "NetworkPolicy" THEN d ELSE Space(d)>>

Advanced(g) == [kubeOp[g] EXCEPT !.todo = Tail(@), !.read = FALSE, !.inUse = FALSE,
                                 !.seen = {}, !.stale = FALSE]
Advance(g) == kubeOp' = [kubeOp EXCEPT ![g] = Advanced(g)]

\* A write of the binding makes the copies of other agents stale.
WriteBinding(g, s) ==
  /\ subjects' = s
  /\ kubeOp' = [h \in Agents |->
       IF h = g THEN Advanced(g)
       ELSE IF kubeOp[h] # IdleOp /\ kubeOp[h].read THEN [kubeOp[h] EXCEPT !.stale = TRUE]
       ELSE kubeOp[h]]

\* What the cluster refuses: an object in a namespace that is not there, an
\* object of another kind that exists (only those of the base kinds are
\* replaced), a subject without a namespace, an old copy of the binding, a
\* custom resource without its definition or while an older one is ending.
Blocked(g) ==
  LET o == kubeOp[g]
      d == o.deal
      k == Head(o.todo)
  IN  \/ k \in InSpace /\ <<"Namespace", Space(d)>> \notin objects
      \/ k = "Other" /\ Obj(k, d) \in objects
      \/ k = "ClusterRoleBinding" /\ SubjectAtInstall(d) = NoSpace
      \/ k = "ClusterRoleBinding" /\ o.read /\ (IF o.seen # {} THEN o.stale ELSE subjects # {})
      \/ k = "CR" /\ (crs[Space(d)] # "none" \/ <<"CRD", "cluster">> \notin objects)

InstallObject(g, kinds) ==
  /\ Doing(g, "install", kinds)
  /\ ~Blocked(g)
  /\ objects' = objects \cup {Obj(Head(kubeOp[g].todo), kubeOp[g].deal)}
  /\ Advance(g)
  /\ UNCHANGED <<operator, place, subjects, crs, pods, kubeQueue, kubeRecord, raced, bounds>>

\* NamespaceCoreV1.Install: no error of the creation is one of the installation.
InstallNamespace(g) == InstallObject(g, {"Namespace"})

\* The namespace could not be created; one that exists serves as well.
NamespaceNotCreated(g) ==
  /\ Doing(g, "install", {"Namespace"})
  /\ kubeFaults < MaxKubeFaults
  /\ kubeFaults' = kubeFaults + 1
  /\ Advance(g)
  /\ UNCHANGED <<cluster, kubeQueue, kubeRecord, raced, spoilt>>

\* ClusterRoleRbacV1.Install: a role that exists is kept.
InstallClusterRole(g) == InstallObject(g, {"ClusterRole"})

\* The start of CustomResourceV1.Install: a definition that exists is kept.
InstallDefinition(g) == InstallObject(g, {"CRD"})

\* RoleRbacV1.Install and those like it: an object that exists is deleted and created again.
InstallReplaced(g) == InstallObject(g, Replaced \ {"Secret"})

\* SecretCoreV1.Install: so is the secret; here Uninstall is given the secret's name.
InstallSecret(g) == InstallObject(g, {"Secret"})

\* OtherObject.Install: an object that exists is an error.
InstallOther(g) == InstallObject(g, {"Other"})

\* ClusterRolebindingRbacV1.Install: the binding is read, and written with the subject added.
ReadBinding(g) ==
  /\ Doing(g, "install", {"ClusterRoleBinding"}) \/ Doing(g, "uninstall", {"ClusterRoleBinding"})
  /\ ~kubeOp[g].read
  /\ kubeOp' = [kubeOp EXCEPT ![g].read = TRUE, ![g].seen = subjects]
  /\ UNCHANGED <<cluster, kubeQueue, kubeRecord, raced, bounds>>

InstallBinding(g) ==
  /\ Doing(g, "install", {"ClusterRoleBinding"})
  /\ kubeOp[g].read /\ ~Blocked(g)
  /\ WriteBinding(g, kubeOp[g].seen \cup {SubjectAtInstall(kubeOp[g].deal)})
  /\ UNCHANGED <<operator, place, objects, crs, pods, kubeQueue, kubeRecord, raced, bounds>>

\* CustomResourceV1.Install: tried again until the cluster knows the definition.
InstallCR(g) ==
  /\ Doing(g, "install", {"CR"})
  /\ ~Blocked(g)
  /\ crs' = [crs EXCEPT ![Space(kubeOp[g].deal)] = "there"]
  /\ Advance(g)
  /\ UNCHANGED <<operator, place, objects, subjects, pods, kubeQueue, kubeRecord, raced, bounds>>

\* DeploymentAppsV1.Install: the objects named after the agreement come first.  A
\* deployment that exists is uninstalled, which takes them away again, and only
\* the config map is made a second time; an error of that is ignored.
InstallDeployment(g, unmapped) ==
  /\ Doing(g, "install", {"Deployment"})
  /\ ~Blocked(g)
  /\ LET d == kubeOp[g].deal
         again == Obj("Deployment", d) \in objects
     IN  /\ unmapped => again /\ kubeFaults < MaxKubeFaults
         /\ kubeFaults' = IF unmapped THEN kubeFaults + 1 ELSE kubeFaults
         /\ spoilt' = IF unmapped THEN spoilt \cup {d} ELSE spoilt
         /\ objects' = IF again
                       THEN (objects \ EnvObjects(d)) \cup (IF unmapped THEN {} ELSE Range(ConfigMap(d)))
                       ELSE objects \cup EnvObjects(d) \cup {Obj("Deployment", d)}
         /\ pods' = pods \cup {Space(d)}
  /\ Advance(g)
  /\ UNCHANGED <<operator, place, subjects, crs, kubeQueue, kubeRecord, raced>>

Report(g, message) ==
  /\ kubeRecord' = [kubeRecord EXCEPT ![kubeOp[g].deal].told = message]
  /\ kubeOp' = [kubeOp EXCEPT ![g] = IdleOp]

FinishInstall(g) ==
  /\ kubeOp[g].mode = "install" /\ kubeOp[g].todo = <<>>
  /\ Report(g, "begun")
  /\ UNCHANGED <<cluster, kubeQueue, raced, bounds>>

\* The objects after a call failed: an object that was to be replaced is gone, of those
\* of a deployment the first n are there.  When the deployment was to be replaced they
\* are gone, and perhaps the deployment, and perhaps the config map is there again.
ObjectsAfterFailure(k, d) ==
  LET obj == Obj(k, d)
  IN  IF k \in Replaced THEN {objects, objects \ {obj}}
      ELSE IF k # "Deployment" THEN {objects}
      ELSE {objects \cup Range(SubSeq(EnvOrder(d), 1, n)) : n \in 0..Len(EnvOrder(d))}
             \cup (IF obj \in objects
                   THEN {(objects \ EnvObjects(d)) \ {obj},
                         ((objects \ EnvObjects(d)) \ {obj}) \cup Range(ConfigMap(d)),
                         (objects \ EnvObjects(d)) \cup Range(ConfigMap(d))}
                   ELSE {})

\* The first error ends Install; what was installed stays.
InstallFails(g) ==
  /\ kubeOp[g].mode = "install" /\ kubeOp[g].todo # <<>>
  /\ IF Blocked(g)
     THEN UNCHANGED <<objects, kubeFaults>>
     ELSE /\ kubeFaults < MaxKubeFaults /\ Head(kubeOp[g].todo) # "Namespace"
          /\ kubeFaults' = kubeFaults + 1
          /\ objects' \in ObjectsAfterFailure(Head(kubeOp[g].todo), kubeOp[g].deal)
  /\ Report(g, "failed")
  /\ UNCHANGED <<operator, place, subjects, crs, pods, kubeQueue, raced, spoilt>>

-----------------------------------------------------------------------------
(* The calls of Uninstall *)

UninstallObject(g, kinds) ==
  /\ Doing(g, "uninstall", kinds)
  /\ objects' = objects \ {Obj(Head(kubeOp[g].todo), kubeOp[g].deal)}
  /\ Advance(g)
  /\ UNCHANGED <<operator, place, subjects, crs, pods, kubeQueue, kubeRecord, raced, bounds>>

\* RoleRbacV1.Uninstall and those like it.
UninstallReplaced(g) == UninstallObject(g, Replaced \ {"Secret"})

\* OtherObject.Uninstall: an object of the cluster goes with the first agreement that ends.
UninstallOther(g) == UninstallObject(g, {"Other"})

\* KubeClient.Uninstall
UninstallNetworkPolicy(g) == UninstallObject(g, {"NetworkPolicy"})

\* SecretCoreV1.Uninstall: it gets the namespace for the name, so the operator's secret stays.
UninstallSecret(g) ==
  /\ Doing(g, "uninstall", {"Secret"})
  /\ Advance(g)
  /\ UNCHANGED <<cluster, kubeQueue, kubeRecord, raced, bounds>>

\* DeploymentAppsV1.Uninstall, with the objects named after the agreement.
UninstallDeployment(g) ==
  /\ Doing(g, "uninstall", {"Deployment"})
  /\ objects' = objects \ (EnvObjects(kubeOp[g].deal) \cup {Obj("Deployment", kubeOp[g].deal)})
  /\ Advance(g)
  /\ UNCHANGED <<operator, place, subjects, crs, pods, kubeQueue, kubeRecord, raced, bounds>>

\* CustomResourceV1.Uninstall: the custom resource is deleted and waited for.
DeleteCR(g) ==
  /\ Doing(g, "uninstall", {"CR"})
  /\ ~kubeOp[g].read
  /\ LET s == Space(kubeOp[g].deal)
     IN  IF crs[s] = "none"
         THEN Advance(g) /\ UNCHANGED crs
         ELSE kubeOp' = [kubeOp EXCEPT ![g].read = TRUE] /\ crs' = [crs EXCEPT ![s] = "ending"]
  /\ UNCHANGED <<operator, place, objects, subjects, pods, kubeQueue, kubeRecord, raced, bounds>>

\* waitForCRUninstall: a resource without a status, or one that takes too long, is not waited for.
WaitForCRUninstall(g, late) ==
  /\ Doing(g, "uninstall", {"CR"})
  /\ kubeOp[g].read
  /\ IF late THEN kubeFaults < MaxKubeFaults ELSE crs[Space(kubeOp[g].deal)] = "none"
  /\ kubeFaults' = IF late THEN kubeFaults + 1 ELSE kubeFaults
  /\ Advance(g)
  /\ UNCHANGED <<cluster, kubeQueue, kubeRecord, raced, spoilt>>

\* Mutant: only the agreement's own namespace is searched.
CrdInUseHere(d) == crs[Space(d)] # "none"

\* checkCRDInUse: custom resources in other namespaces.
CrdInUse(d) == \E s \in Spaces \ {Space(d)} : crs[s] # "none"

\* The look at the users of a shared object, and its deletion when there are none.
LookForUsers(g, k, used) ==
  /\ Doing(g, "uninstall", {k})
  /\ ~kubeOp[g].read
  /\ kubeOp' = [kubeOp EXCEPT ![g].read = TRUE, ![g].inUse = used]
  /\ UNCHANGED <<cluster, kubeQueue, kubeRecord, raced, bounds>>

DeleteUnused(g, k, left) ==
  /\ Doing(g, "uninstall", {k})
  /\ kubeOp[g].read
  /\ IF kubeOp[g].inUse
     THEN UNCHANGED <<objects, crs>>
     ELSE objects' = objects \ {<<k, "cluster">>} /\ crs' = left
  /\ Advance(g)
  /\ UNCHANGED <<operator, place, subjects, pods, kubeQueue, kubeRecord, raced, bounds>>

\* CustomResourceV1.Uninstall: a definition takes the custom resources with it.
LookForCRs(g) == kubeOp[g].mode = "uninstall" /\ LookForUsers(g, "CRD", CrdInUse(kubeOp[g].deal))
DeleteDefinition(g) == DeleteUnused(g, "CRD", [s \in Spaces |-> "none"])

\* ClusterRoleRbacV1.Uninstall
LookForBindings(g) == LookForUsers(g, "ClusterRole", subjects # {})
DeleteClusterRole(g) == DeleteUnused(g, "ClusterRole", crs)

\* ClusterRolebindingRbacV1.Uninstall: without a subject left the binding is
\* deleted, which needs no current copy; an update of an old copy is refused.
UninstallBinding(g) ==
  /\ Doing(g, "uninstall", {"ClusterRoleBinding"})
  /\ kubeOp[g].read
  /\ LET remain == kubeOp[g].seen \ {SubjectAtUninstall(kubeOp[g].deal)}
     IN  IF kubeOp[g].seen = {} \/ (remain # {} /\ kubeOp[g].stale)
         THEN Advance(g) /\ UNCHANGED subjects
         ELSE WriteBinding(g, remain)
  /\ UNCHANGED <<operator, place, objects, crs, pods, kubeQueue, kubeRecord, raced, bounds>>

\* NamespaceCoreV1.Uninstall: the agent's own namespace, and one with pods, are kept.
\* When the pods cannot be listed there are none for it.
UninstallNamespace(g, blind) ==
  /\ Doing(g, "uninstall", {"Namespace"})
  /\ blind => kubeFaults < MaxKubeFaults
  /\ kubeFaults' = IF blind THEN kubeFaults + 1 ELSE kubeFaults
  /\ LET d == kubeOp[g].deal
         s == Space(d)
         inside == {o \in objects : o[2] = s \/ (\E e \in KubeDeals : Space(e) = s /\ o \in EnvObjects(e))}
     IN  IF ~Abroad(d) \/ (s \in pods /\ ~blind)
         THEN UNCHANGED <<objects, crs>>
         ELSE objects' = objects \ inside /\ crs' = [crs EXCEPT ![s] = "none"]
  /\ Advance(g)
  /\ UNCHANGED <<operator, place, subjects, pods, kubeQueue, kubeRecord, raced, spoilt>>

\* A deletion that fails is logged, and Uninstall goes on, with the other objects of
\* a deployment too; without a client for custom resources their definition stays too.
DeletionFails(g, both) ==
  /\ kubeOp[g].mode = "uninstall" /\ kubeOp[g].todo # <<>>
  /\ both => Head(kubeOp[g].todo) = "CR"
  /\ kubeFaults < MaxKubeFaults
  /\ kubeFaults' = kubeFaults + 1
  /\ spoilt' = spoilt \cup {kubeOp[g].deal}
  /\ LET d == kubeOp[g].deal
         all == EnvObjects(d) \cup {Obj("Deployment", d)}
     IN  IF Head(kubeOp[g].todo) = "Deployment"
         THEN \E kept \in all : objects' = objects \ (all \ {kept})
         ELSE UNCHANGED objects
  /\ kubeOp' = [kubeOp EXCEPT ![g] = IF both THEN [Advanced(g) EXCEPT !.todo = Tail(@)] ELSE Advanced(g)]
  /\ UNCHANGED <<operator, place, subjects, crs, pods, kubeQueue, kubeRecord, raced>>

FinishUninstall(g) ==
  /\ kubeOp[g].mode = "uninstall" /\ kubeOp[g].todo = <<>>
  /\ Report(g, "destroyed")
  /\ UNCHANGED <<cluster, kubeQueue, raced, bounds>>

-----------------------------------------------------------------------------
(* The cluster, and a restart of an agent *)

CRGone(s) ==
  /\ crs[s] = "ending"
  /\ crs' = [crs EXCEPT ![s] = "none"]
  /\ UNCHANGED <<operator, place, objects, subjects, pods, kubeOp, kubeQueue, kubeRecord, raced, bounds>>

PodsGone(s) ==
  /\ s \in pods /\ <<"Deployment", s>> \notin objects
  /\ pods' = pods \ {s}
  /\ UNCHANGED <<operator, place, objects, subjects, crs, kubeOp, kubeQueue, kubeRecord, raced, bounds>>

\* The commands are lost; syncOnInit announces the end of the agreements that
\* were terminated and not archived once more.
RestartKube(g, archived) ==
  /\ kubeFaults < MaxKubeFaults
  /\ \A d \in archived : AgentOf(d) = g /\ MayBeArchived(d)
  /\ kubeFaults' = kubeFaults + 1
  /\ kubeOp' = [kubeOp EXCEPT ![g] = IdleOp]
  /\ LET again == {d \in KubeDeals \ archived :
                     AgentOf(d) = g /\ kubeRecord[d].deployed /\ kubeRecord[d].terminated}
     IN  kubeQueue' = [kubeQueue EXCEPT ![g] =
                        SetToSeq({[cmd |-> "uninstall", deal |-> d] : d \in again})]
  /\ UNCHANGED <<cluster, kubeRecord, raced, spoilt>>

KubeNext ==
  \/ \E d \in KubeDeals : Reach(d) \/ CancelDeal(d) \/ GovernContainers(d) \/ SendSecrets(d)
  \/ \E g \in Agents :
       \/ TakeInstall(g) \/ StartInstall(g) \/ TakeUninstall(g) \/ TakeUninstallFails(g)
       \/ \E told \in {"none", "begun", "failed"} : TakeInstallFails(g, told)
       \/ \E b \in BOOLEAN : \/ StartInstallFails(g, b) \/ TakeMaintain(g, b) \/ TakeSecrets(g, b)
                             \/ InstallDeployment(g, b) \/ WaitForCRUninstall(g, b)
                             \/ UninstallNamespace(g, b) \/ DeletionFails(g, b)
       \/ InstallNamespace(g) \/ NamespaceNotCreated(g) \/ InstallClusterRole(g)
       \/ InstallDefinition(g) \/ InstallReplaced(g) \/ InstallSecret(g) \/ InstallOther(g)
       \/ ReadBinding(g) \/ InstallBinding(g) \/ InstallCR(g) \/ FinishInstall(g) \/ InstallFails(g)
       \/ UninstallReplaced(g) \/ UninstallOther(g) \/ UninstallNetworkPolicy(g) \/ UninstallSecret(g)
       \/ UninstallDeployment(g) \/ DeleteCR(g) \/ LookForCRs(g) \/ DeleteDefinition(g)
       \/ LookForBindings(g) \/ DeleteClusterRole(g) \/ UninstallBinding(g) \/ FinishUninstall(g)
       \/ \E archived \in SUBSET {d \in KubeDeals : kubeRecord[d].deployed} : RestartKube(g, archived)
  \/ \E s \in Spaces : CRGone(s) \/ PodsGone(s)

-----------------------------------------------------------------------------
(* Properties *)

\* The subject of the binding is the agreement's own, as it is not when an
\* unscoped agent deploys an operator that names the subject's namespace twice.
OwnSubject(d) ==
  \A e \in KubeDeals \ {d} : SubjectAtInstall(e) = SubjectAtInstall(d) => Space(e) = Space(d)

\* A service that executes keeps the objects it needs, those it shares with the
\* services of other agreements too, but for an object of another kind that
\* belongs to the cluster.
KeptWhileRunning ==
  \A d \in KubeDeals \ (raced \cup spoilt) :
    kubeRecord[d].told = "begun" /\ ~kubeRecord[d].terminated /\ OwnSubject(d) =>
      /\ {Obj(k, d) : k \in {"Namespace", "ClusterRole", "CRD"} \cup (InSpace \ {"CR"})} \subseteq objects
      /\ <<"ConfigMap", d>> \in objects
      /\ SubjectAtInstall(d) \in subjects
      /\ crs[Space(d)] = "there"

\* What Uninstall is known to leave: the operator's secret in a namespace that
\* stays, the network policy next to a namespace object that was made up, and a
\* subject whose namespace was filled in, with its cluster role.
KnownLeft(d) ==
  {Obj("Secret", d)} \cup (IF MadeUp(d) THEN {<<"NetworkPolicy", d>>} ELSE {})
    \cup (IF SubjectAtInstall(d) # SubjectAtUninstall(d) THEN {<<"ClusterRole", "cluster">>} ELSE {})

Gone(d) == kubeRecord[d].told = "destroyed" \/ ~kubeRecord[d].deployed

\* When the last service of the operator is destroyed, nothing of it is left
\* but what Uninstall is known to leave.
EndsClean ==
  (\A d \in KubeDeals : Gone(d) /\ d \notin raced \cup spoilt) /\ (\A g \in Agents : kubeOp[g] = IdleOp) =>
    \A o \in objects : o[1] = "Namespace" \/ (\E d \in KubeDeals : kubeRecord[d].deployed /\ o \in KnownLeft(d))

\* The objects of an operator in the cluster follow its agreements, whatever
\* calls fail and however the agents of a cluster and their restarts
\* interleave: none is taken from a service that executes (ClusterRoleRbacV1 and
\* CustomResourceV1.Uninstall look for other users first) and none but the
\* known ones is left (Uninstall takes what Install made).  Excepted are agreements
\* that were uninstalled while another agent was busy and those it was busy with,
\* those whose record could not be read and that count as begun, those deployed
\* in a namespace before an older agreement is uninstalled there, and those
\* that share a subject of the binding across namespaces.
OperatorFollowsAgreements == KeptWhileRunning /\ EndsClean
=============================================================================
