--------------------------- MODULE AgentServices ---------------------------
(***************************************************************************)
(* Dependent services on a node: the governance worker keeps a definition  *)
(* and instances for each service that agreements require, shares an       *)
(* instance between agreements, retries one that fails, goes back to an    *)
(* older version, and upgrades.  Images are fetched by a worker of its own *)
(* before the container worker starts the containers, but an instance is   *)
(* cancelled by a message straight to the container worker.                *)
(*                                                                         *)
(* Every handler of the governance worker is a function of the record      *)
(* `node` (its database and the messages it sends), as the handlers call   *)
(* each other.                                                             *)
(***************************************************************************)
EXTENDS Integers, Sequences, FiniteSets, FiniteSetsExt, SequencesExt

CONSTANTS
  Agreements, DepServices,
  Requires,          \* [Agreements -> Seq(DepServices)]: in the order of processDependencies
  Multiple,          \* the services with sharing mode "multiple"
  AgreementLess,     \* the services a pattern starts without an agreement
  ActiveUpgrade,     \* upgrades end the agreements that use the service
  Retries,           \* [Agreements -> Nat]: retries of the top level service
  DefaultRetries, MaxServiceVersion,
  MaxInstances, MaxServiceFaults, MaxServiceStops   \* bounds

ASSUME ServicesAssumption ==
  /\ Requires \in [Agreements -> Seq(DepServices)] /\ Retries \in [Agreements -> Nat]
  /\ Multiple \subseteq DepServices /\ AgreementLess \subseteq DepServices

VARIABLES
  usePattern,  \* the node has a pattern
  node,        \* [ag, defs, insts, fetch, cont, cmds]; an agreement is "none", "active", "cancelled"
               \* (without a word to the container worker) or "ended"
  running,     \* instances whose containers run
  executing,   \* agreements whose workload runs
  newest,      \* version of the services in the exchange
  registered,  \* services registered in the exchange: [svc, ver]
  reported,    \* [local, exchange]: instances last reported as running
  faults, stops

serviceVars == <<usePattern, node, running, executing, newest, registered, reported, faults, stops>>

ServicesInit ==
  /\ usePattern \in BOOLEAN
  /\ node = [ag |-> [g \in Agreements |-> "none"], defs |-> <<>>, insts |-> <<>>, fetch |-> <<>>, cont |-> <<>>, cmds |-> <<>>]
  /\ running = {} /\ executing = {} /\ newest = 1 /\ registered = {}
  /\ reported = [local |-> {}, exchange |-> {}] /\ faults = 0 /\ stops = 0

-----------------------------------------------------------------------------
(* Records.                                                                  *)

NewDef(s, v) == [svc |-> s, ver |-> v, archived |-> FALSE, next |-> 0, upgrade |-> "none"]
NewMicroserviceInstance(d, g) ==
  [def |-> d, ags |-> {}, less |-> FALSE, started |-> FALSE, cleanup |-> FALSE, archived |-> FALSE,
   retrying |-> FALSE, retry |-> 1, maxRetries |-> 0]

Defs(n) == DOMAIN n.defs
Insts(n) == DOMAIN n.insts
UnarchivedDefs(n, s) == {d \in Defs(n) : n.defs[d].svc = s /\ ~n.defs[d].archived}
UnarchivedInsts(n) == {i \in Insts(n) : ~n.insts[i].archived}
InstsOfDef(n, d) == {i \in UnarchivedInsts(n) : n.insts[i].def = d}
Service(n, i) == n.defs[n.insts[i].def].svc

\* ArchiveMicroserviceInstAndDef: on a node without a pattern the last instance takes the definition along.
ArchiveMicroserviceInstAndDef(n, i) ==
  LET a == [n EXCEPT !.insts[i].archived = TRUE]
      d == n.insts[i].def IN
  IF ~usePattern /\ InstsOfDef(a, d) = {} THEN [a EXCEPT !.defs[d].archived = TRUE] ELSE a

Fetch(n, c) == [n EXCEPT !.fetch = Append(@, c)]
Tell(n, c) == [n EXCEPT !.cont = Append(@, c)]
Command(n, c) == [n EXCEPT !.cmds = Append(@, c)]
Launch(i, ags, retry) == [kind |-> "configure", inst |-> i, ags |-> ags, retry |-> retry]
Cancel(i) == [kind |-> "shutdown", inst |-> i]
Result(i, r) == [kind |-> r, inst |-> i]

-----------------------------------------------------------------------------
(* The end of an agreement, of an instance and of a version.                 *)

\* Mutant: the instance is cancelled whatever else uses it.
InstForAgEndedAlways(n, i, g) ==
  ArchiveMicroserviceInstAndDef(Tell([n EXCEPT !.insts[i].cleanup = TRUE], Cancel(i)), i)

\* handleMicroserviceInstForAgEnded: an instance that nothing else uses is cancelled.
InstForAgEnded(n, i, g) ==
  IF (Service(n, i) \in Multiple \/ Cardinality(n.insts[i].ags) < 2) /\ ~n.insts[i].less
  THEN ArchiveMicroserviceInstAndDef(Tell([n EXCEPT !.insts[i].cleanup = TRUE], Cancel(i)), i)
  ELSE [n EXCEPT !.insts[i].ags = @ \ {g}]

HandleMicroserviceInstForAgEnded(n, g, skipUpgrade) ==
  LET used == {i \in UnarchivedInsts(n) : g \in n.insts[i].ags}
      End(i, m) == LET e == InstForAgEnded(m, i, g) IN
                   IF ~skipUpgrade /\ usePattern /\ ~ActiveUpgrade
                   THEN Command(e, [kind |-> "upgrade", inst |-> n.insts[i].def]) ELSE e IN
  FoldSet(End, n, used)

\* cancelAgreement, and AGREEMENT_ENDED for the container worker
CancelAgreement(n, g) == Tell([n EXCEPT !.ag[g] = "ended"], [kind |-> "end", inst |-> g])

\* CleanupMicroservice: the agreements that use the instance end with it.
CleanupMicroservice(n, i) ==
  LET EndOne(g, m) == HandleMicroserviceInstForAgEnded(CancelAgreement(m, g), g, TRUE)
      c == FoldSet(EndOne, [n EXCEPT !.insts[i].cleanup = TRUE], {g \in n.insts[i].ags : n.ag[g] # "ended"}) IN
  ArchiveMicroserviceInstAndDef(Tell(c, Cancel(i)), i)

\* UpgradeMicroservice, to a newer or an older version
UpgradeMicroservice(n, d, ver, unregistered) ==
  LET new == Len(n.defs) + 1
      a == [n EXCEPT !.defs = Append([@ EXCEPT ![d].archived = TRUE, ![d].next = new],
                                     [NewDef(n.defs[d].svc, ver) EXCEPT !.upgrade = IF unregistered THEN "done" ELSE "failed"])]
      Clean(i, m) == IF m.insts[i].archived THEN m ELSE CleanupMicroservice(m, i) IN
  FoldSet(Clean, a, InstsOfDef(n, d))

\* GetRollbackMicroserviceDef, RollbackMicroservice: 0 is "no more to try"
GetRollbackVersion(n, d) == n.defs[d].ver - 1
CanRollback(n, d) == GetRollbackVersion(n, d) >= 1
RollbackMicroservice(n, d) == IF CanRollback(n, d) THEN UpgradeMicroservice(n, d, GetRollbackVersion(n, d), TRUE) ELSE n

-----------------------------------------------------------------------------
(* Starting services.                                                        *)

\* FindOrCreateMicroserviceDef: one version of a service unless it may be started many times.
FindOrCreateMicroserviceDef(n, s) ==
  LET found == UnarchivedDefs(n, s)
      best == CHOOSE d \in found : \A e \in found : n.defs[e].ver <= n.defs[d].ver IN
  IF found # {} /\ (usePattern \/ s \notin Multiple \/ n.defs[best].ver >= newest) THEN [node |-> n, def |-> best]
  ELSE [node |-> [n EXCEPT !.defs = Append(@, NewDef(s, newest))], def |-> Len(n.defs) + 1]

\* StartMicroservice: the containers of a new instance, or of a given one again
StartMicroservice(n, d, g) ==
  LET i == Len(n.insts) + 1 IN
  Fetch([n EXCEPT !.insts = Append(@, NewMicroserviceInstance(d, g))], Launch(i, IF g = "" THEN {} ELSE {g}, FALSE))

\* startMicroserviceInstForAgreement; the last argument says that the start fails, which cancels the
\* agreement (cancelAgreement alone) and goes back to an older version
StartMicroserviceInstForAgreement(n, d, g, fails) ==
  LET shared == {i \in InstsOfDef(n, d) : ~n.insts[i].cleanup}
      new == n.defs[d].svc \in Multiple \/ shared = {}
      m == IF new THEN StartMicroservice(n, d, g) ELSE n
      i == IF new THEN Len(m.insts) ELSE CHOOSE j \in shared : \A k \in shared : j <= k IN
  IF new /\ fails THEN RollbackMicroservice(IF g = "" THEN n ELSE [n EXCEPT !.ag[g] = "cancelled"], d)
  ELSE IF g = "" THEN [m EXCEPT !.insts[i].less = TRUE] ELSE [m EXCEPT !.insts[i].ags = @ \cup {g}]

\* startDependentService for one service of the list
StartDependentService(n, s, g, fails) ==
  LET f == FindOrCreateMicroserviceDef(n, s) IN StartMicroserviceInstForAgreement(f.node, f.def, g, fails)

\* processDependencies for the first `last` services of the list; it goes on when the start of the
\* service at place `failing` (0 for none) fails.
ProcessDependencies(n, g, last, failing) ==
  LET step[k \in 0..last] == IF k = 0 THEN n ELSE StartDependentService(step[k - 1], Requires[g][k], g, k = failing) IN
  step[last]

Room(n) == Len(n.insts) + Len(n.defs) < MaxInstances
ServiceFault == faults < MaxServiceFaults /\ faults' = faults + 1

\* RecordReply, from the dependencies on.  AGREEMENT_REACHED starts the workload even if a service
\* failed to start; when the definition of a service is not found there is none, and the agreement
\* stays until it is ended because it was not executed in time.
Accepted(g) == [node EXCEPT !.ag[g] = "active"]
Workload(g) == [kind |-> "workload", inst |-> g]
RecordReply(g) ==
  /\ node.ag[g] = "none" /\ Room(node)
  /\ node' = Fetch(ProcessDependencies(Accepted(g), g, Len(Requires[g]), 0), Workload(g))
  /\ UNCHANGED <<running, executing, newest, registered, reported, faults, stops>>
RecordReplyStartFails(g, failing) ==
  /\ node.ag[g] = "none" /\ Room(node) /\ ServiceFault
  /\ node' = Fetch(ProcessDependencies(Accepted(g), g, Len(Requires[g]), failing), Workload(g))
  /\ UNCHANGED <<running, executing, newest, registered, reported, stops>>
RecordReplyFails(g, failing) ==
  /\ node.ag[g] = "none" /\ Room(node) /\ ServiceFault
  /\ node' = ProcessDependencies(Accepted(g), g, failing - 1, 0)
  /\ UNCHANGED <<running, executing, newest, registered, reported, stops>>

StartAgreementLessServices(s) ==
  /\ usePattern /\ s \in AgreementLess /\ Room(node)
  /\ ~\E i \in UnarchivedInsts(node) : node.insts[i].less /\ Service(node, i) = s
  /\ node' = StartDependentService(node, s, "", FALSE)
  /\ UNCHANGED <<running, executing, newest, registered, reported, faults, stops>>

\* An agreement is cancelled, on either side or because one of its services is suspended.
EndAgreement(g) ==
  /\ node.ag[g] = "active" /\ node' = HandleMicroserviceInstForAgEnded(CancelAgreement(node, g), g, FALSE)
  /\ UNCHANGED <<running, executing, newest, registered, reported, faults, stops>>
HandleServiceSuspended(s) ==
  LET hit == {g \in Agreements : node.ag[g] = "active" /\
                \E i \in UnarchivedInsts(node) : Service(node, i) = s /\ g \in node.insts[i].ags}
      EndOne(g, m) == HandleMicroserviceInstForAgEnded(CancelAgreement(m, g), g, TRUE) IN
  /\ hit # {} /\ node' = FoldSet(EndOne, node, hit)
  /\ UNCHANGED <<running, executing, newest, registered, reported, faults, stops>>

-----------------------------------------------------------------------------
(* Commands of the governance worker.                                        *)

\* getMicroserviceRetryCount: the average of the retries that are not 0, rounded up
GetMicroserviceRetryCount(ags) ==
  LET counts == {g \in ags : Retries[g] # 0 /\ node.ag[g] # "none"}
      Add(g, t) == t + Retries[g]
      total == FoldSet(Add, 0, counts) IN
  IF counts = {} THEN DefaultRetries ELSE (total + Cardinality(counts) - 1) \div Cardinality(counts)

\* UpdateMSInstanceRetryState, UpdateMSInstanceCurrentRetryCount and ResetMsInstanceExecutionStatus
RetryMicroservice(n, i, new) ==
  LET r == [n.insts[i] EXCEPT !.retrying = TRUE, !.started = FALSE, !.cleanup = FALSE,
                              !.maxRetries = IF new THEN GetMicroserviceRetryCount(n.insts[i].ags) ELSE @,
                              !.retry = IF new THEN 2 ELSE @ + 1] IN
  Fetch([n EXCEPT !.insts[i] = r], Launch(i, r.ags, TRUE))

\* handleMicroserviceExecFailure: a retry, an older version, or the end.  The time of a round of
\* retries may be over, which begins a new round.
HandleMicroserviceExecFailure(n, i, over) ==
  LET new == ~n.insts[i].retrying \/ over
      d == n.insts[i].def IN
  IF new \/ n.insts[i].retry < n.insts[i].maxRetries THEN RetryMicroservice(n, i, new)
  ELSE IF CanRollback(n, d) THEN RollbackMicroservice(n, d) ELSE CleanupMicroservice(n, i)

NextCommand(kind) == node.cmds # <<>> /\ Head(node.cmds).kind = kind
commandVars == <<running, executing, newest, registered, reported, stops>>

\* CleanupExecutionCommand for an agreement that was cancelled before the restart
CleanupExecution ==
  LET g == Head(node.cmds).inst
      n == [node EXCEPT !.cmds = Tail(@)] IN
  /\ NextCommand("cleanup")
  /\ node' = IF n.ag[g] = "cancelled" THEN HandleMicroserviceInstForAgEnded(CancelAgreement(n, g), g, FALSE) ELSE n
  /\ UNCHANGED <<commandVars, faults>>

\* UpdateMicroserviceCommand: containers began to run, failed, or were destroyed
UpdateMicroserviceStarted ==
  /\ NextCommand("started")
  /\ node' = [node EXCEPT !.cmds = Tail(@), !.insts[Head(node.cmds).inst].started = TRUE]
  /\ UNCHANGED <<commandVars, faults>>
UpdateMicroserviceFailed(over) ==
  LET i == Head(node.cmds).inst
      n == [node EXCEPT !.cmds = Tail(@)] IN
  /\ NextCommand("failed") /\ (over => node.insts[i].retrying)
  /\ (Room(node) \/ ~CanRollback(node, node.insts[i].def))
  /\ node' = IF n.insts[i].cleanup THEN n ELSE HandleMicroserviceExecFailure(n, i, over)
  /\ UNCHANGED <<commandVars, faults>>
UpdateMicroserviceDestroyed ==
  /\ NextCommand("destroyed")
  /\ node' = [node EXCEPT !.cmds = Tail(@), !.insts[Head(node.cmds).inst].archived = TRUE]
  /\ UNCHANGED <<commandVars, faults>>

\* MicroserviceReadyForUpgrade and GetUpgradeMicroserviceDef: a version that was given up is not tried again.
MicroserviceReadyForUpgrade(n, d) ==
  /\ ~n.defs[d].archived /\ n.defs[d].upgrade # "started"
  /\ \A i \in InstsOfDef(n, d) : ~n.insts[i].less /\ (ActiveUpgrade \/ n.insts[i].cleanup \/ n.insts[i].ags = {})
HasUpgrade(n, d) ==
  /\ newest > n.defs[d].ver
  /\ ~\E e \in Defs(n) : n.defs[e].svc = n.defs[d].svc /\ n.defs[e].ver = newest /\ n.defs[e].next # 0
HandleMicroserviceUpgrade ==
  LET d == Head(node.cmds).inst
      n == [node EXCEPT !.cmds = Tail(@)] IN
  /\ NextCommand("upgrade")
  /\ IF MicroserviceReadyForUpgrade(n, d) /\ HasUpgrade(n, d)
     THEN /\ Room(n)
          /\ \/ node' = UpgradeMicroservice(n, d, newest, TRUE) /\ registered' = {r \in registered : r.svc # n.defs[d].svc} /\ UNCHANGED faults
             \/ node' = UpgradeMicroservice(n, d, newest, FALSE) /\ ServiceFault /\ UNCHANGED registered
     ELSE node' = n /\ UNCHANGED <<registered, faults>>
  /\ UNCHANGED <<running, executing, newest, reported, stops>>

\* A service change in the exchange: governMicroserviceVersions asks for every definition.
GovernMicroserviceVersions ==
  /\ newest < MaxServiceVersion /\ newest' = newest + 1
  /\ node' = [node EXCEPT !.cmds = @ \o SetToSeq({[kind |-> "upgrade", inst |-> d] : d \in {e \in Defs(node) : ~node.defs[e].archived}})]
  /\ UNCHANGED <<running, executing, registered, reported, faults, stops>>

\* governMicroservices asks the container worker about every instance that runs.
GovernMicroservices(i) ==
  /\ i \in UnarchivedInsts(node) /\ node.insts[i].started /\ ~node.insts[i].cleanup /\ i \notin running
  /\ ~\E k \in DOMAIN node.cont : node.cont[k] = Result(i, "maintain")
  /\ ~\E k \in DOMAIN node.cmds : node.cmds[k] = Result(i, "failed")
  /\ node' = Tell(node, Result(i, "maintain"))
  /\ UNCHANGED <<running, executing, newest, registered, reported, faults, stops>>

\* Bound: what is only reported to the exchange is reported when nothing is under way.
Quiet == node.fetch = <<>> /\ node.cont = <<>> /\ node.cmds = <<>>

\* UpdateRegisteredServicesWithAgreement: registered services follow the definitions (policy case).
ComposeNewRegisteredServices(n) == {[svc |-> n.defs[d].svc, ver |-> n.defs[d].ver] : d \in {e \in Defs(n) : ~n.defs[e].archived}}
UpdateRegisteredServicesWithAgreement ==
  /\ Quiet /\ ~usePattern /\ registered # ComposeNewRegisteredServices(node) /\ registered' = ComposeNewRegisteredServices(node)
  /\ UNCHANGED <<node, running, executing, newest, reported, faults, stops>>

\* reportDeviceStatus: the local copy is saved whether or not the exchange took the report.
GetServiceStatus == {i \in UnarchivedInsts(node) : i \in running}
ReportDeviceStatus ==
  /\ Quiet /\ reported.local # GetServiceStatus
  /\ \/ reported' = [local |-> GetServiceStatus, exchange |-> GetServiceStatus] /\ UNCHANGED faults
     \/ ServiceFault /\ reported' = [reported EXCEPT !.local = GetServiceStatus]
  /\ UNCHANGED <<node, running, executing, newest, registered, stops>>

-----------------------------------------------------------------------------
(* The image fetch worker and the container worker.                          *)

ImageFetched ==
  /\ node.fetch # <<>> /\ node' = [node EXCEPT !.fetch = Tail(@), !.cont = Append(@, Head(node.fetch))]
  /\ UNCHANGED <<running, executing, newest, registered, reported, faults, stops>>
ImageFetchFails ==
  /\ node.fetch # <<>> /\ Head(node.fetch).kind = "configure" /\ ServiceFault
  /\ node' = [node EXCEPT !.fetch = Tail(@), !.cmds = Append(@, Result(Head(node.fetch).inst, "failed"))]
  /\ UNCHANGED <<running, executing, newest, registered, reported, stops>>

NextContainer(kind) == node.cont # <<>> /\ Head(node.cont).kind = kind
Handled(results) == node' = [node EXCEPT !.cont = Tail(@), !.cmds = @ \o results]
containerVars == <<newest, registered, reported, stops>>

\* Mutant: it is not looked whether the agreements have ended.
StillActiveAlways(c) == TRUE

\* ContainerConfigureCommand: ignored when an agreement it was sent for has ended.
StillActive(c) == \A g \in c.ags : node.ag[g] = "active"
ContainerConfigure ==
  LET c == Head(node.cont) IN
  /\ NextContainer("configure")
  /\ IF StillActive(c) THEN running' = running \cup {c.inst} /\ Handled(<<Result(c.inst, "started")>>)
     ELSE running' = running /\ Handled(<<>>)
  /\ UNCHANGED <<executing, containerVars, faults>>
ContainerConfigureFails ==
  /\ NextContainer("configure") /\ StillActive(Head(node.cont)) /\ ServiceFault
  /\ running' = IF Head(node.cont).retry THEN running \ {Head(node.cont).inst} ELSE running
  /\ Handled(<<Result(Head(node.cont).inst, "failed")>>)
  /\ UNCHANGED <<executing, containerVars>>

\* findDependencyContainersForService: the instances must exist, not their containers.
FindDependencyContainersForService(g) ==
  \A k \in DOMAIN Requires[g] : \E i \in UnarchivedInsts(node) : Service(node, i) = Requires[g][k] /\ g \in node.insts[i].ags
WorkloadConfigure ==
  LET g == Head(node.cont).inst IN
  /\ NextContainer("workload")
  /\ \/ node.ag[g] # "active" /\ Handled(<<>>) /\ UNCHANGED executing
     \/ node.ag[g] = "active" /\ FindDependencyContainersForService(g) /\ executing' = executing \cup {g} /\ Handled(<<>>)
     \/ /\ node.ag[g] = "active" /\ ~FindDependencyContainersForService(g) /\ UNCHANGED executing   \* deferred
        /\ Len(node.cont) > 1 /\ node' = [node EXCEPT !.cont = Append(Tail(@), Head(@))]
  /\ UNCHANGED <<running, containerVars, faults>>
WorkloadShutdown ==
  /\ NextContainer("end") /\ executing' = executing \ {Head(node.cont).inst} /\ Handled(<<>>)
  /\ UNCHANGED <<running, containerVars, faults>>

ShutdownMicroservice ==
  /\ NextContainer("shutdown") /\ running' = running \ {Head(node.cont).inst}
  /\ Handled(<<Result(Head(node.cont).inst, "destroyed")>>)
  /\ UNCHANGED <<executing, containerVars, faults>>
MaintainMicroservice ==
  /\ NextContainer("maintain")
  /\ Handled(IF Head(node.cont).inst \in running THEN <<>> ELSE <<Result(Head(node.cont).inst, "failed")>>)
  /\ UNCHANGED <<running, executing, containerVars, faults>>

ServiceContainerDies(i) ==
  /\ i \in running /\ ServiceFault /\ running' = running \ {i}
  /\ UNCHANGED <<node, executing, newest, registered, reported, stops>>

\* The agent stops and starts.  Queues are lost; syncupResources removes the workloads of
\* agreements that are gone, and leaves the containers of services alone; syncOnInit ends what was
\* cancelled once more.
ServicesRestart ==
  /\ stops < MaxServiceStops /\ stops' = stops + 1
  /\ node' = [node EXCEPT !.fetch = <<>>, !.cont = <<>>,
                           !.cmds = SetToSeq({[kind |-> "cleanup", inst |-> g] : g \in {h \in Agreements : node.ag[h] = "cancelled"}})]
  /\ executing' = {g \in executing : node.ag[g] = "active"}
  /\ registered' = IF usePattern THEN registered ELSE ComposeNewRegisteredServices(node)
  /\ UNCHANGED <<running, newest, reported, faults>>

ServicesStep ==
  \/ \E g \in Agreements : \/ RecordReply(g) \/ EndAgreement(g)
                           \/ \E k \in DOMAIN Requires[g] : RecordReplyStartFails(g, k) \/ RecordReplyFails(g, k)
  \/ \E s \in DepServices : StartAgreementLessServices(s) \/ HandleServiceSuspended(s)
  \/ CleanupExecution \/ UpdateMicroserviceStarted \/ UpdateMicroserviceDestroyed \/ \E over \in BOOLEAN : UpdateMicroserviceFailed(over)
  \/ HandleMicroserviceUpgrade \/ GovernMicroserviceVersions \/ \E i \in Insts(node) : GovernMicroservices(i) \/ ServiceContainerDies(i)
  \/ UpdateRegisteredServicesWithAgreement \/ ReportDeviceStatus
  \/ ImageFetched \/ ImageFetchFails \/ ContainerConfigure \/ ContainerConfigureFails
  \/ WorkloadConfigure \/ WorkloadShutdown \/ ShutdownMicroservice \/ MaintainMicroservice \/ ServicesRestart

ServicesNext == ServicesStep /\ UNCHANGED usePattern

ServicesSpec == ServicesInit /\ [][ServicesNext]_serviceVars

-----------------------------------------------------------------------------
(* Properties.                                                               *)

\* An instance is not cancelled under an agreement that goes on: while a workload executes, every
\* service it requires has an instance that belongs to the agreement and is not being removed,
\* however other agreements that share the instance end, and services fail, are retried or upgraded.
ServiceKeptWhileUsed ==
  \A g \in executing : node.ag[g] = "active" =>
    \A k \in DOMAIN Requires[g] : \E i \in UnarchivedInsts(node) :
      Service(node, i) = Requires[g][k] /\ g \in node.insts[i].ags /\ ~node.insts[i].cleanup

\* Containers of an instance that was given up do not stay: a cancellation for them is on its way,
\* although it can overtake the launch.  A restart of the agent loses the cancellation.
NoOrphanService ==
  stops = 0 => \A i \in running : node.insts[i].archived => \E k \in DOMAIN node.cont : node.cont[k] = Cancel(i)

\* A service that failed and whose retry was sent is brought up again, or fails again: an instance
\* that an executing agreement uses is running, or something about it is still to be handled.
RetryIsHandled ==
  \A i \in UnarchivedInsts(node) :
    \/ node.insts[i].started \/ node.insts[i].ags \cap executing = {} \/ ~node.insts[i].retrying
    \/ \E c \in ToSet(node.fetch) \cup ToSet(node.cont) : c.kind = "configure" /\ c.inst = i
    \/ \E c \in ToSet(node.cmds) \cup ToSet(node.cont) : c \in {Result(i, "started"), Result(i, "failed"), Result(i, "maintain")}

\* A service is there for somebody: an instance that is not archived is used by an agreement that is
\* not over, or by none because a pattern starts it.
NoIdleService ==
  \A i \in UnarchivedInsts(node) : node.insts[i].less \/ \E g \in node.insts[i].ags : node.ag[g] = "active"
=============================================================================
