------------------------- MODULE ContainerNetworks -------------------------
(***************************************************************************)
(* The Docker networks through which a service reaches the services it     *)
(* requires (container/container.go).  A deployment is started in a        *)
(* network of its own name.  When a parent is started, a network that only *)
(* the parent and the dependency use is made for each dependency, and the  *)
(* dependency leaves the network it was started in.  Networks go with the  *)
(* parent, with the dependency, or when the last parent left; they are     *)
(* made again when a dependency is restarted.                              *)
(*                                                                         *)
(* The container worker handles one command at a time, so each command is  *)
(* a step.  Containers stop and are restarted by Docker between commands,  *)
(* and governance ends agreements while launches wait for their images.    *)
(***************************************************************************)
EXTENDS Integers, Sequences, FiniteSets, FiniteSetsExt, SequencesExt

CONSTANTS
  Workloads,       \* agreement ids, which name the top level services
  DepInstances,    \* keys of the instances of dependent services
  Children,        \* [Workloads \cup DepInstances -> SUBSET DepInstances]
  LaunchOrder,     \* the instances, a service after the services it requires
  BoxNames,        \* [Workloads \cup DepInstances -> SUBSET STRING]: containers of the deployment
  Sharing,         \* the workloads whose deployment has the shared ("singleton") container
  SharedName, NoParent,
  MaxBoxStops, MaxDockerErrors, MaxWorkerStops   \* bounds

Owners == Workloads \cup DepInstances

ASSUME NetworksAssumption ==
  /\ Children \in [Owners -> SUBSET DepInstances] /\ Sharing \subseteq Workloads
  /\ ToSet(LaunchOrder) = DepInstances /\ IsInjective(LaunchOrder)
  /\ Workloads \cap DepInstances = {} /\ SharedName \notin Owners /\ NoParent \notin Owners

VARIABLES
  deal,        \* [Workloads -> "none", "active", "over" (terminated), "gone" (archived)]
  inst,        \* [DepInstances -> [state: "none", "live", "archived"; ags; begun]]
  fetching,    \* launches that wait for their images
  orders,      \* commands of the container worker
  docker,      \* [up, down, nets, att]: running and stopped containers, networks, what is attached to what
  missed,      \* <<parent, dependency>> not connected: a call failed, or a container was not running
  restarted,   \* the instance that was just reported as begun after a retry, or none
  boxStops, dockerErrors, workerStops

networkVars == <<deal, inst, fetching, orders, docker, missed, restarted, boxStops, dockerErrors, workerStops>>

Boxes(id) == {<<id, n>> : n \in BoxNames[id]}
SharedBox == <<SharedName, SharedName>>
BaseNetwork(id) == <<id, NoParent>>
ParentNetwork(d, p) == <<d, p>>

NetworksInit ==
  /\ deal = [w \in Workloads |-> "none"] /\ inst = [d \in DepInstances |-> [state |-> "none", ags |-> {}, begun |-> FALSE]]
  /\ fetching = <<>> /\ orders = <<>> /\ docker = [up |-> {}, down |-> {}, nets |-> {}, att |-> {}]
  /\ missed = {} /\ restarted = NoParent /\ boxStops = 0 /\ dockerErrors = 0 /\ workerStops = 0

-----------------------------------------------------------------------------
(* Docker.  Only running containers are endpoints of a network, and a        *)
(* network with endpoints is not removed.                                    *)

Endpoints(k, n) == {c \in k.up : <<c, n>> \in k.att}
MakeBridge(k, n) == [k EXCEPT !.nets = @ \cup {n}]
ConnectContainerToNetwork(k, c, n) == [k EXCEPT !.att = @ \cup {<<c, n>>}]
DisconnectNetwork(k, boxes, n) == [k EXCEPT !.att = @ \ (boxes \X {n})]
RemoveNetwork(k, n) == IF Endpoints(k, n) = {} THEN [k EXCEPT !.nets = @ \ {n}] ELSE k
Free(k, n) == RemoveNetwork(DisconnectNetwork(k, Endpoints(k, n), n), n)

\* serviceStart: the container is in the networks of its deployment, then connected to the others.
ServiceStart(k, c, networks) == [k EXCEPT !.up = @ \cup {c}, !.att = @ \cup ({c} \X networks)]
ServiceDestroy(k, boxes) ==
  [k EXCEPT !.up = @ \ boxes, !.down = @ \ boxes, !.att = {a \in @ : a[1] \notin boxes}]

-----------------------------------------------------------------------------
(* Making and removing the resources of a deployment.                        *)

\* A network name contains the id; FilteredListNetworks finds a name by a part of it.
Mentions(n, id) == n[1] = id \/ n[2] = id
FilteredListNetworks(k, id) == {n \in k.nets : Mentions(n, id)}

\* ResourcesRemove for the agreements or instances `ids`.  The shared container goes unless one with
\* another id is on its network; with several ids it matters whether it is listed before the others.
UsersOfShared(k) == Endpoints(k, BaseNetwork(SharedName)) \ {SharedBox}
FreesShared(k, ids, listedFirst) ==
  /\ SharedBox \in k.up \cup k.down
  /\ \E id \in ids : \A c \in UsersOfShared(k) : c[1] = id \/ (~listedFirst /\ c[1] \in ids)
ResourcesRemove(k, ids, listedFirst) ==
  LET shared == IF FreesShared(k, ids, listedFirst) THEN {SharedBox} ELSE {}
      gone == ServiceDestroy(k, (UNION {Boxes(id) : id \in ids}) \cup shared)
      nets == {n \in gone.nets : \E id \in ids : Mentions(n, id)} \cup (IF shared = {} THEN {} ELSE {BaseNetwork(SharedName)})
      FreeOne(n, j) == Free(j, n) IN
  FoldSet(FreeOne, gone, nets)

\* existingShared and the start of a shared container: a stopped one is replaced, its network is kept.
StartShared(k, networks) ==
  LET n == BaseNetwork(SharedName)
      j == MakeBridge(ServiceDestroy(k, {SharedBox} \cap k.down), n) IN
  IF SharedBox \in j.up THEN j ELSE ServiceStart(j, SharedBox, {n} \cup networks)

\* ResourcesCreate: "none" for no failure, "early" for the errors that return without cleaning up,
\* "late" for those that remove the deployment again.
ResourcesCreate(k, id, networks, failure) ==
  LET s == IF id \in Sharing THEN StartShared(k, networks) ELSE k
      own == {BaseNetwork(id)} \cup networks \cup (IF id \in Sharing THEN {BaseNetwork(SharedName)} ELSE {})
      StartOne(c, j) == ServiceStart(j, c, own)
      all == FoldSet(StartOne, MakeBridge(s, BaseNetwork(id)), Boxes(id) \ (s.up \cup s.down)) IN
  CASE failure = "none" -> all [] failure = "early" -> s [] failure = "late" -> ResourcesRemove(all, {id}, TRUE)

-----------------------------------------------------------------------------
(* The networks between parents and dependencies.                            *)

Live(id) == IF id \in Workloads THEN deal[id] = "active" ELSE inst[id].state = "live"
AgreementsOf(id) == IF id \in Workloads THEN {id} ELSE inst[id].ags

\* findDependencyContainersForService: every required instance is there; stopped containers are not listed.
DependenciesExist(id, ags) == \A d \in Children[id] : Live(d) /\ inst[d].ags \cap ags # {}
FindDependencyContainersForParent(k, id) == {c \in k.up : c[1] \in Children[id]}

\* findParentContainersForService
Parents(d) == {p \in Owners : d \in Children[p] /\ Live(p) /\ AgreementsOf(p) \cap inst[d].ags # {}}
FindParentContainersForService(k, d) == {c \in k.up : c[1] \in Parents(d)}

\* GatherAndCreateDependencyNetworks; `skip` are the containers that cannot be connected.
GatherAndCreateDependencyNetworks(k, id, skip) ==
  LET Move(c, j) ==
        LET n == ParentNetwork(c[1], id)
            base == BaseNetwork(c[1])
            made == MakeBridge(j, n) IN
        IF <<c, n>> \in j.att THEN j
        ELSE IF c \in skip THEN made
        ELSE IF <<c, base>> \notin j.att THEN ConnectContainerToNetwork(made, c, n)
        ELSE RemoveNetwork(DisconnectNetwork(ConnectContainerToNetwork(made, c, n), {c}, base), base) IN
  FoldSet(Move, k, FindDependencyContainersForParent(k, id))
DependencyNetworks(k, id) == {n \in k.nets : n[1] \in Children[id] /\ n[2] = id /\ Endpoints(k, n) # {}}

\* restoreDependencyServiceNetworks: an error leaves what was done for the parents before.
RestoreDependencyServiceNetworks(k, d, skip) ==
  LET base == BaseNetwork(d)
      service == Endpoints(k, base)
      parents == FindParentContainersForService(k, d)
      Join(p, j) == LET n == ParentNetwork(d, p[1])
                        Connect(c, i) == ConnectContainerToNetwork(i, c, n) IN
                    FoldSet(Connect, MakeBridge(j, n), {p} \cup service) IN
  IF FilteredListNetworks(k, d) # {base} THEN [docker |-> k, ok |-> FALSE]
  ELSE IF parents \cap skip # {} THEN [docker |-> FoldSet(Join, k, parents \ skip), ok |-> FALSE]
  ELSE [docker |-> Free(FoldSet(Join, k, parents), base), ok |-> TRUE]

\* Mutant: it is not looked who is on the network.
NetworkNeverInUse(k, n, d) == FALSE

\* CancelMicroserviceNetworkCommand: networks of the instance on which only its own containers are left
NetworkStillInUse(k, n, d) == \E c \in Endpoints(k, n) : c[1] # d
CancelNetworks(k, d) ==
  LET unused == {n \in k.nets : n[1] = d /\ ~NetworkStillInUse(k, n, d)}
      FreeOne(n, j) == Free(j, n) IN
  FoldSet(FreeOne, k, unused)

-----------------------------------------------------------------------------
(* Governance, as far as the container worker hears of it.                   *)

LaunchService(d, ags, retry) == [kind |-> "configure", id |-> d, ags |-> ags, retry |-> retry]
LaunchWorkload(w) == [kind |-> "workload", id |-> w, ags |-> {w}, retry |-> FALSE]
Order(kind, id) == [kind |-> kind, id |-> id, ags |-> {}, retry |-> FALSE]

Descendants(w) ==
  LET grow[k \in 0..Cardinality(DepInstances)] ==
        IF k = 0 THEN Children[w] ELSE grow[k - 1] \cup UNION {Children[d] : d \in grow[k - 1]} IN
  grow[Cardinality(DepInstances)]
InOrder(S) == SelectSeq(LaunchOrder, LAMBDA d : d \in S)

\* The services of an agreement are started after the services they require, then its workload.
\* An instance that was archived has no successor here: the names of its networks are never used again.
ReachAgreement(w) ==
  LET needs == Descendants(w)
      new == InOrder({d \in needs : inst[d].state = "none"}) IN
  /\ deal[w] = "none" /\ \A d \in needs : inst[d].state # "archived"
  /\ deal' = [deal EXCEPT ![w] = "active"]
  /\ inst' = [d \in DepInstances |-> IF d \in needs THEN [inst[d] EXCEPT !.state = "live", !.ags = @ \cup {w}] ELSE inst[d]]
  /\ fetching' = fetching \o [k \in DOMAIN new |-> LaunchService(new[k], {w}, FALSE)] \o <<LaunchWorkload(w)>>
  /\ restarted' = NoParent /\ UNCHANGED <<orders, docker, missed, boxStops, dockerErrors, workerStops>>

\* AGREEMENT_ENDED, then CANCEL_MICROSERVICE for an instance that nobody else uses and
\* CANCEL_MICROSERVICE_NETWORK for the others
EndDeal(w) ==
  LET used == InOrder({d \in DepInstances : inst[d].state = "live" /\ w \in inst[d].ags})
      last(d) == inst[d].ags = {w} IN
  /\ deal[w] = "active" /\ deal' = [deal EXCEPT ![w] = "over"]
  /\ inst' = [d \in DepInstances |-> IF d \notin ToSet(used) THEN inst[d]
                                     ELSE [inst[d] EXCEPT !.state = IF last(d) THEN "archived" ELSE "live", !.ags = @ \ {w}]]
  /\ orders' = orders \o <<Order("end", w)>>
                 \o [k \in DOMAIN used |-> Order(IF last(used[k]) THEN "shutdown" ELSE "cancelNetwork", used[k])]
  /\ restarted' = NoParent /\ UNCHANGED <<fetching, docker, missed, boxStops, dockerErrors, workerStops>>

\* MaintainMicroserviceCommand finds that a container of a service that began does not run; governance
\* launches it again.
MaintainInstance(d) ==
  /\ inst[d].state = "live" /\ inst[d].begun /\ ~(Boxes(d) \subseteq docker.up)
  /\ inst' = [inst EXCEPT ![d].begun = FALSE]
  /\ fetching' = Append(fetching, LaunchService(d, inst[d].ags, TRUE))
  /\ restarted' = NoParent /\ UNCHANGED <<deal, orders, docker, missed, boxStops, dockerErrors, workerStops>>

LaunchFetched ==
  /\ fetching # <<>> /\ fetching' = Tail(fetching) /\ orders' = Append(orders, Head(fetching))
  /\ restarted' = NoParent /\ UNCHANGED <<deal, inst, docker, missed, boxStops, dockerErrors, workerStops>>

-----------------------------------------------------------------------------
(* Commands of the container worker.                                         *)

NextOrder(kinds) == orders # <<>> /\ Head(orders).kind \in kinds
Done == orders' = Tail(orders) /\ restarted' = NoParent
DockerError == dockerErrors < MaxDockerErrors /\ dockerErrors' = dockerErrors + 1

\* The links that a launch does not make: to a dependency, or after a retry to a parent, a container
\* of which is stopped or cannot be connected.
Apart(k, id, skip) == ~(Boxes(id) \subseteq k.up \ skip)
Unlinked(k, c, skip, restored) ==
  {<<c.id, d>> : d \in {e \in Children[c.id] : Apart(k, e, skip)}}
    \cup {<<p, c.id>> : p \in {q \in Parents(c.id) : c.retry /\ (Apart(k, q, skip) \/ ~restored)}}
Relaunched(c) == {l \in missed : l[1] = c.id \/ (c.retry /\ l[2] = c.id)}

\* WorkloadConfigureCommand, and ContainerConfigureCommand for the first start of a service
Ignored(c) == \E g \in c.ags : deal[g] # "active"
ConfigureIgnored ==
  /\ NextOrder({"workload", "configure"}) /\ Ignored(Head(orders)) /\ Done
  /\ UNCHANGED <<deal, inst, fetching, docker, missed, boxStops, dockerErrors, workerStops>>
\* Put back for later: a required instance is missing, one of its containers is being restarted, or
\* the containers cannot be listed.  What is in the queue overtakes the launch.
ConfigureDeferred ==
  LET c == Head(orders) IN
  /\ NextOrder({"workload", "configure"}) /\ ~Ignored(c)
  /\ \/ (~DependenciesExist(c.id, c.ags) \/ \E b \in docker.down : b[1] \in Children[c.id]) /\ UNCHANGED dockerErrors
     \/ Children[c.id] # {} /\ DockerError
  /\ docker' = IF c.retry THEN ResourcesRemove(docker, {c.id}, TRUE) ELSE docker
  /\ orders' = Append(Tail(orders), c) /\ restarted' = NoParent
  /\ UNCHANGED <<deal, inst, fetching, missed, boxStops, workerStops>>

\* The launch itself: `skip` are containers that Docker does not connect, `failure` is that of
\* ResourcesCreate.  After a retry the parents are connected again; its failure is only logged.
Configure(skip, failure) ==
  LET c == Head(orders)
      clean == IF c.retry THEN ResourcesRemove(docker, {c.id}, TRUE) ELSE docker
      linked == GatherAndCreateDependencyNetworks(clean, c.id, skip)
      made == ResourcesCreate(linked, c.id, DependencyNetworks(linked, c.id), failure)
      back == IF c.retry /\ failure = "none" THEN RestoreDependencyServiceNetworks(made, c.id, skip)
              ELSE [docker |-> made, ok |-> TRUE] IN
  /\ NextOrder({"workload", "configure"}) /\ ~Ignored(c) /\ DependenciesExist(c.id, c.ags)
  /\ skip # {} \/ failure # "none" => DockerError
  /\ skip = {} /\ failure = "none" => UNCHANGED dockerErrors
  /\ docker' = back.docker /\ orders' = Tail(orders)
  /\ restarted' = IF c.retry /\ failure = "none" THEN c.id ELSE NoParent
  /\ missed' = (missed \ Relaunched(c)) \cup Unlinked(clean, c, skip, back.ok)
  /\ inst' = IF c.kind = "configure" /\ failure = "none" THEN [inst EXCEPT ![c.id].begun = TRUE] ELSE inst
  /\ fetching' = IF c.kind = "configure" /\ failure # "none"
                 THEN Append(fetching, LaunchService(c.id, inst[c.id].ags, TRUE)) ELSE fetching
  /\ UNCHANGED <<deal, boxStops, workerStops>>
Reaches == FindDependencyContainersForParent(docker, Head(orders).id)
             \cup (IF Head(orders).retry THEN FindParentContainersForService(docker, Head(orders).id) ELSE {})

\* WorkloadShutdownCommand and ShutdownMicroserviceCommand.  Nothing is removed when the networks
\* cannot be listed.
Shutdown(listed) ==
  LET id == Head(orders).id IN
  /\ NextOrder({"end", "shutdown"}) /\ Done
  /\ IF listed THEN docker' = ResourcesRemove(docker, {id}, TRUE) /\ UNCHANGED dockerErrors
     ELSE UNCHANGED docker /\ DockerError
  /\ deal' = IF id \in Workloads THEN [deal EXCEPT ![id] = "gone"] ELSE deal
  /\ UNCHANGED <<inst, fetching, missed, boxStops, workerStops>>

CancelMicroserviceNetwork ==
  /\ NextOrder({"cancelNetwork"}) /\ Done /\ docker' = CancelNetworks(docker, Head(orders).id)
  /\ UNCHANGED <<deal, inst, fetching, missed, boxStops, dockerErrors, workerStops>>

-----------------------------------------------------------------------------
\* A container stops.  Docker restarts it (RestartPolicy always) unless one of its networks is gone.
BoxStops(c) ==
  /\ c \in docker.up /\ boxStops < MaxBoxStops /\ boxStops' = boxStops + 1
  /\ docker' = [docker EXCEPT !.up = @ \ {c}, !.down = @ \cup {c}]
  /\ restarted' = NoParent /\ UNCHANGED <<deal, inst, fetching, orders, missed, dockerErrors, workerStops>>
BoxRestarts(c) ==
  /\ c \in docker.down /\ \A a \in docker.att : a[1] = c => a[2] \in docker.nets
  /\ docker' = [docker EXCEPT !.up = @ \cup {c}, !.down = @ \ {c}]
  /\ restarted' = NoParent /\ UNCHANGED <<deal, inst, fetching, orders, missed, boxStops, dockerErrors, workerStops>>

\* The agent stops and starts: syncupResources removes what is left of agreements that are archived,
\* except what is marked as infrastructure or shared; an unused shared network goes too.  Governance
\* cleans up once more after the agreements that were terminated.
Leftover(k) == {w \in Workloads : deal[w] = "gone" /\ (Boxes(w) \cap (k.up \cup k.down) # {} \/ BaseNetwork(w) \in k.nets)}
WorkerRestart(listedFirst) ==
  LET free == IF BaseNetwork(SharedName) \in docker.nets /\ Endpoints(docker, BaseNetwork(SharedName)) = {}
              THEN RemoveNetwork(docker, BaseNetwork(SharedName)) ELSE docker IN
  /\ workerStops < MaxWorkerStops /\ workerStops' = workerStops + 1
  /\ docker' = IF Leftover(free) = {} THEN free ELSE ResourcesRemove(free, Leftover(free), listedFirst)
  /\ fetching' = <<>> /\ orders' = SetToSeq({Order("end", w) : w \in {v \in Workloads : deal[v] = "over"}})
  /\ restarted' = NoParent /\ UNCHANGED <<deal, inst, missed, boxStops, dockerErrors>>

NetworksNext ==
  \/ \E w \in Workloads : ReachAgreement(w) \/ EndDeal(w)
  \/ \E d \in DepInstances : MaintainInstance(d)
  \/ LaunchFetched \/ ConfigureIgnored \/ ConfigureDeferred \/ CancelMicroserviceNetwork
  \/ Configure({}, "none")
  \/ orders # <<>> /\ \E skip \in (SUBSET Reaches) \ {{}} : Configure(skip, "none")
  \/ \E failure \in {"early", "late"} : Configure({}, failure)
  \/ \E listed \in BOOLEAN : Shutdown(listed)
  \/ \E c \in docker.up : BoxStops(c)
  \/ \E c \in docker.down : BoxRestarts(c)
  \/ \E listedFirst \in BOOLEAN : WorkerRestart(listedFirst)

NetworksSpec == NetworksInit /\ [][NetworksNext]_networkVars

-----------------------------------------------------------------------------
(* Properties.                                                               *)

Linked(p, d) == \A b \in Boxes(p) \cap docker.up, c \in Boxes(d) \cap docker.up :
                  {<<b, ParentNetwork(d, p)>>, <<c, ParentNetwork(d, p)>>} \subseteq docker.att

\* A service reaches the services it requires: while the containers of a parent and of a dependency
\* of the same agreement run, they are on the network of the two, however other agreements that share
\* the dependency begin and end, and parents and dependencies are restarted.  The exceptions are those
\* of the code: a call of Docker failed, or a container of one did not run when the other was launched.
DependencyReachable ==
  \A d \in DepInstances : inst[d].state = "live" =>
    \A p \in Parents(d) : <<p, d>> \in missed \/ Linked(p, d)

\* "When a service fails and is restarted, the networks that connect it to its parents and
\* dependencies have to be recreated, and all the containers have to be re-connected"
\* (container.go:2309).
RestartedIsReconnected == restarted # NoParent => \A p \in Parents(restarted) : Linked(p, restarted)
=============================================================================
