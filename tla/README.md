# TLA+ specifications of Open Horizon anax

anax is two programs in one binary. The *agent* runs on an edge node and keeps the
node's services running. The *agreement bot* (*agbot*) looks for nodes that fit a
deployment policy and makes an *agreement* with each of them. They never talk to
each other directly: both poll mailboxes and records kept by a third server, the
*exchange* (not part of the repository). This directory holds TLA+ modules of
both programs, TLC configurations that check them on small instances, and TLAPS
proofs that hold for every value of the constants.

`PROJECT.json` is the index: the components, the runs, for every definition the
source lines it models, the mutants that show each property can fail, the findings,
the hazards and the theorems.

    tlc -workers 2 -config agreement_pair.cfg MCAgreementProtocol    # one run
    tlapm AgreementProofs.tla                                        # one proof module

## 1. Inventory

### The parts of the system

| Component | State | Operations | Hard behaviour | Correct when | Module |
|---|---|---|---|---|---|
| Agreement protocol, agbot side (`agreementbot/agreementworker.go`, `basic_agreement_worker.go`, `governance.go`) | one record per agreement: attempt, proposed, replied, finalized; timed out; archived | initiate, handle reply / cancel / verify, govern, cancel, purge, restart | a worker pool, messages out of order, restart with queued cancels in memory | whatever is timed out is cancelled, and the node is told | `AgreementProtocol` |
| Agreement protocol, agent side (`agreement/`, `producer/`, `governance/`, `container/`) | one record per agreement, its entry in the exchange, containers, command queues | decide on a proposal, handle ack / cancel / verify, finalize, govern, clean up, restart | three worker threads and goroutines, deferred commands, redelivered messages | one live agreement per policy; the exchange shows only what the node has; cancels complete | `AgreementProtocol`, `PolicySlot` |
| Lock of an agreement id (`lock_manager.go`) | a map of mutexes | get, lock, unlock, delete | deletion while others wait | exclusion while the agreement is open | `AgreementLock` |
| Prioritized work queue (`prioritized_workqueue.go`) | two channels, two buffers | send, buffer, dispatch, close | choice made before a blocking select; senders that check and then send | FIFO per priority, high first, bounded | `WorkQueue`, `PriorityFifo` |
| Agreement records (`persistence/agreement.go`, `bolt/`, `postgresql/`) | one record, merged field by field | update, archive, purge | several writers; read and write not atomic in PostgreSQL | no update is lost, no field moves back, purged is purged | `AgreementStore` |
| Partitions of the agbots' database (`postgresql/partition.go`) | an owner and a heartbeat per partition, tables per partition | create, beat, quiesce, claim, copy, drop | two agbots claim one partition; a late owner writes on | a record is in one partition that somebody owns | `AgbotPartitions` |
| Node search (`node_search.go`, `search_session.go`) | a shared row per policy: token, changedSince, ended, restart time | obtain a session, fetch a page, end it, queue attempts, retry | several agbots, clocks of one second, restarts, errors between pages | no node that changed is missed | `NodeSearch` |
| HA groups (`ha_group_workload.go`, `governance.go`, `consumer_protocol_handler.go`) | a shared row: whose turn it is; workload usages with a pending mark | policy change, take / use / give up the turn | two threads on each of several agbots, partial failures | one member at a time, and every member in the end | `HAUpgrade` |
| Workload usage and rollback (`workload_usage.go`, `policy/workload.go`) | priority, retries used, time of the first try | choose, count, roll back, delete | three workers that meet in the database only | a lower priority is used only when the higher ones were tried | `WorkloadRollback` |
| Deployment policies, patterns, service policies (`businesspol_manager.go`, `pattern_manager.go`) | two managers, policy files and the watcher of the files | follow the exchange, announce, cancel | goroutines that overtake each other, events handled after direct updates | all views agree in the end, no agreement outlives its policy unnoticed | `DeploymentPolicies` |
| Model objects (`object_manager.go`, `policy.go`) | cache of object policies, destination lists in the sync service | poll, place on reply / policy change / node change | evaluation on a list that changes | an object reaches the nodes that are entitled to it | `ModelObjects` |
| Secrets of the agbot (`secrets/vault/`, `secure_api.go`, `secret_updater.go`) | the vault, a token, a row per deployment and secret, pending announcements | list, read, write, delete, poll, announce, send, ack | outages, times of one second, one announcement at a time | a written secret reaches its agreements; listings are exact | `SecretsVault`, `SecretsListing`, `SecretUpdates` |
| Exchange client (`exchange/`, `cache/`) | cached resources and service definitions | get, put, invalidate | a read that is stored after the invalidation | a cached value is current unless raced | `ExchangeCache` |
| Compatibility check (`compcheck/`, `externalpolicy/`, `semanticversion/`) | none | compare policies, privileges, user input, secret bindings | precedence, open ends, several versions | it says yes exactly when one version passes everything | `Compatibility`, `PolicyTerms`, `VersionRanges` |
| Worker framework (`worker/`, `events/`) | registry, command channels, deferred commands, subworkers | dispatch, send, handle, terminate, unconfigure | blocking sends in circles, two shutdowns at once | every worker leaves the registry; nothing is left behind | `AgentBus`, `AgentEvents` |
| Registration (`api/path_node*.go`, `governance/shutdown.go`, `governance/node.go`) | device record, policies, inputs, files; the node in the exchange | register, configure, unregister, change the pattern | whole records written back from old copies, stops in the middle | what is unregistered is clean | `NodeConfig` |
| Node policy and user input (`exchangesync/`) | local copies and markers | copy, patch, put, delete | three writers, one of them without the lock | a marker never hides a change | `NodeSync` |
| Change feed (`changes/`, `exchange/message_worker.go`) | position, interval, heartbeat state | poll, announce, fetch | outages, restarts | no message is overlooked | `ChangeFeed` |
| Services on the node (`governance/microservice.go`, `container/`) | definitions, instances, containers | start, share, retry, roll back, upgrade, remove | cancellations that overtake launches | no service is taken from its users, none is left | `AgentServices` |
| Containers and networks (`container/container.go`) | the containers of services, their networks, what is attached to which | configure, restart, shut down, cancel networks, clean up at the start | a failed container that Docker restarts, deferred commands, shared services | a running service reaches the services it requires | `ContainerNetworks` |
| Secrets on the node (`resource/`) | records, files | accept, update, remove, serve | stop between record and file | the file follows the record | `AgentSecrets` |
| Node management (`nodemanagement/`, `download/`, `clusterupgrade/`) | a status per policy, the upgrade under way | pick, download, upgrade, reset | two due policies, retries, restarts | no downgrade that was not allowed | `NodeManagement` |
| Kubernetes operators (`kube_operator/`) | objects in a cluster several agents share | install, update, uninstall | look-then-delete, stale updates, restarts | objects follow their agreements | `KubeOperator` |
| Embedded sync service, metering, event log, configuration, CLI | - | - | I/O, text, settings | - | not modelled |

`PROJECT.json` lists all 31 components with their sources and the reason for what is
left out.

### How they interact

* **Messages.** proposal, reply, reply ack, cancel, verify and verify reply go through
  mailboxes in the exchange. A message stays until its receiver deletes it or its TTL
  runs out: it can be lost, handled twice and handled out of order.
* **Commands.** In the agent, each worker has a command channel and one thread; workers
  talk through events (`AGREEMENT_ENDED`, `WORKLOAD_DESTROYED`, ...) that become commands
  of other workers. In the agbot, one main thread and the governance and search
  sub-workers feed a prioritized queue that a pool of agreement workers drains.
* **Shared state.** The agent's workers share a bolt database. The workers of an agbot share
  bolt or PostgreSQL; several agbots share PostgreSQL: search sessions, HA rows,
  and records in partitions.
* **Callbacks.** Cancelling starts goroutines that report back with commands
  (`externalTermination`); failing commands are deferred and tried again.
* **The exchange as shared memory.** Policies, node records and secrets are read by polling and
  cached; every reader has a marker (a change id, a time, a hash) that says how far it has read.

### What is hard

The list of hazards in `PROJECT.json` names 40 places. They fall into six groups: order of
events between workers; crashes between storing a decision and acting on
it; check-then-act across threads, agbots or agents (locks, sessions, turns, partitions, shared
cluster objects); copies that are written back stale; errors in one
of several steps; and values at a boundary whose meaning changes (a time of zero, a second, the end
of a version range).

## 2. Modules and the code

Each module models one component for one *unit*: one node and one policy in
`AgreementProtocol`, one agreement id in `AgreementLock` and `AgreementStore`, one
policy in `NodeSearch`, one group and policy in `HAUpgrade`, one node and policy in
`WorkloadRollback`, one operator in `KubeOperator`. The units do not
interact in the modelled code. Names follow the source.

### AgreementProtocol (with PolicySlot)

Variables: the agbot's database `ab`, its INITIATE items `initiating`, workers between
two critical sections `posting`, queued cancels `cancelQ`; the mailboxes `net` and the
node's agreements `exNode`; the agent's database `ea`, the answer sent and not stored
`deciding`, the negative ack half handled `declining`, goroutines `terminating`, the command
queues of governance and containers `gcmds` and `cont`, and the containers `running`.
Queues are sets: the agent defers commands and the agbot has a pool, so no order is
guaranteed. Records are abstracted to the times the code compares with zero.

One action per handler. The two places where a handler lets others see it half done
are two actions: the agent sends its reply before it stores the agreement
(`AcceptProposal`, `PersistProposal`), and for a negative ack it announces the end
before it cancels (`HandleNegativeAck`, `DeclineAgreement`). On the agbot side the reply is two
critical sections (`HandleAcceptance`, `AgreementFinalized`). `PolicySlot` is the
abstract promise: a slot per policy, filled only when empty, and emptied before it is
filled again. `SlotSpec` says the protocol implements it with `slot <- Live`.

*Timing assumption.* `GovernArchivedAgreements` deletes a record hours after it was
archived; the model lets it happen only when nothing about the id is outstanding
(`Quiet`).

### AgreementLock

The map, the mutexes as identities, and workers with the six kinds of work. A worker
fetches the mutex and locks it in two steps, which is where deletion bites. Writes to the
database and the exchange are separate steps inside the critical section. Updates for a cancel
may fail, which the history variable `failed` records. A reply that was acked is finalized in a second critical section, which
looks at nothing after its wait (`LateFinalize`).

### AgreementStore

One record with the fields that matter and threads that read it, change a copy and
write it back through `ValidateStateTransition`. `db` says which database the agbot
uses: with bolt an update is one transaction (`PersistAtomically`); with PostgreSQL, at its default
isolation level, other transactions may commit between its `Select` and its `Update`. The variable
`saved` is a history variable: what the updates that returned have stored.

### WorkQueue (with PriorityFifo)

`run()` is the loop that prepares an offer and then selects between receiving and
offering: `Prepare`, `ReceiveHigh`, `ReceiveLow`, `Dispatch`. Senders look at the
depth, wait, and send. `PriorityFifo` is the abstract queue: two sequences. The
refinement maps channel and buffer together to one sequence.

### NodeSearch

The shared row, the exchange's own session, and a search thread per agbot with the
database call, the exchange call, the end of the session and the queueing of attempts as separate
steps. The clock is in seconds of the code's resolution. The exchange is modelled from how
`node_search.go` uses it: a session with a token, pages, and the answer "out of sync".

*Timing assumption.* `LookBack` is larger than `MaxTime` in the runs: the retry window (an
hour by default) covers the node's last change.

### HAUpgrade

Two threads for each agbot (`main`: HandlePolicyChanged; `gov`: governHAPartners), each database access
a step, since another agbot may act in between; members that make, run and lose agreements; the turn.
`Serves` is the partition of the records. `down` is a history variable: the members stopped
for an upgrade that do not run again yet.

*Timing assumption.* `AtWork`: no agreement with a member gets made between two database
accesses of one thread for that same member; these are milliseconds apart and
making an agreement takes a search and three messages.

### AgbotPartitions

The partition rows with owner and age of the heartbeat, how many of a partition's tables exist, and their
records. A take-over is the steps of `MovePartition`: claim, copy, drop; starting up is claiming, then creating the
tables one after the other. A partition that was claimed and has no tables, or cannot be verified, is discarded (`DiscardPartition`). `late` and `selfTaken` are
history variables for the two ways in which the code loses
records, and `unverified` has the partitions that were discarded with their records (see section 3).

### DeploymentPolicies, WorkloadRollback, ModelObjects

`DeploymentPolicies` has the goroutines that read the exchange and then update the `BusinessPolicyManager`
as two steps, the pattern files with their watcher, the command queue of the AgreementBotWorker, and
agreements by policy. A policy is the number of its version. What the manager does to one policy is a record
(its new entry, the version the policy manager gets, the event that is sent), and the loops over Go maps send
their events in any order (`InAnyOrder`). Reads of the exchange fail (`FetchFails`, `ReadServed`): an organization
that cannot be read is taken for one without policies, and what is served for nothing. An attempt at an agreement may be given up. Failed
reads and abandoned attempts count, with the administrator's changes, against `MaxEdits`.
`WorkloadRollback` keeps the workload usage record with the code's comparisons of priorities, retries and
times; making an agreement is several steps (choose, send, reply, record), since the policy handler and the cancels work on the
same record in between. The history variables `tries` and `offered` are, for the life of a record, how often a priority was tried and
which priorities each agreement made under it was offered.
`ModelObjects` has a step for what a worker evaluates and another for what it posts. A poll may report an object again, since its time is taken in whole
seconds (`again`); the policy or status of a node, the destinations of an object and every call that adds or removes a destination may fail. Where such a
failure loses a placement the pair of object and node is in `missed`. The list of served organizations changes, or cannot be read and counts as empty (`SetCurrentPolicyOrgs`), and a poll skips an
organization whose query failed (`PollSkipsOrg`); the objects whose policies are dropped in this way are in `forgotten`. Failed calls, repeated polls and changes of node policies count against `MaxMishaps`. Not
modelled: an evaluation that goes on without the policy of a node that it could not read (`agreementworker.go` 1521-1560).

### SecretsVault, SecretsListing and SecretUpdates

A secret is named by its path. The vault keeps the second of the last write; requests to the secure API
are actions with the status they answer, and the agbot's token expires and is renewed. `SecretsListing` walks the
directories (`gatherSecretNames`, `listSecrets`) with one call for each, between which secrets come and go and the vault stops answering; a directory is skipped on any error, as in the code.
`SecretUpdates` adds the rows of the secrets tables, which follow the deployments in force (`UpdatePolicies`, `UpdatePatterns`) and the node's own
secrets; the poll over the managed secrets; the pending announcements; agreements in the making, whose secrets are read one after the other before the record that governance finds is made (`ExtractSecret`, `PersistDraft`); and agreements that are sent updates, take them over and acknowledge them. A
governance run sends its updates in one step and moves the rows in another (`GovernAgreements`, `RowsMoved`). Names are
parsed as `ParseVaultSecretName` does, since an update is matched with a bound secret by its full name, its name without the node or its short name. Every
deployment has at most one agreement, and all are with the same node. The history variable `passedBy` has for each deployment and secret up to which write the code may have passed a value by, noted at the step where it happens.

### ExchangeCache

The client of the agbot or of the agent (`program`). A call is several steps, the request, its answer and the store of its result, so that the change feed can invalidate between them. The agbot's
change worker gets a change id, learns which organizations it serves and asks for their changes (`started`, `asked`); changes are fetched in batches and processed one after the
other. Each resource has a `kind`, since what a change deletes depends on it: the key of a service is made of its url, version and architecture, those of its keys
and credentials too, and the definition of an organization has a key of its own. Service
definitions are cached as a map that grows with what was asked for, as `exchange/service.go` does. The history variable `overlooked` has what a change concerns and does not delete (an
organization that comes or goes, the url of a service with an underscore) and what changed before the worker had its change id. The cache of the exchange's version is left out.

### Compatibility, PolicyTerms, VersionRanges

Pure functions. `VersionRanges` compares versions by number, form (short or full), spelling (with or without leading zeros) and prerelease identifiers, as the code compares strings first and parts later.
`PolicyTerms` parses a sequence of tokens, also ones that are no constraint, with the code's own
loop, and has the rules by which properties, constraints, agreement protocols and data verification of two policies are compared and merged. `Compatibility` chains the checks. The module asks one question per step (`probe`) from sets given in
`MCAgbotParts`, and its properties compare the answers with direct definitions (`Denotes`, `Means`, `Agree`, `Deployable`).

### AgentBus and AgentEvents

`AgentEvents` is the routing table: for each worker the commands its `NewEvent` queues for each event of
`events.go`. `AgentBus` is the dispatcher, the bounded command channels, the unbuffered message channels,
deferred commands and subworkers with their termination channels of `worker.go`, with the unconfiguration of a node running on them, including `nodeShutdown` goroutines. Handlers that have no part in the shutdown consume their command.

### NodeConfig, NodeSync, ChangeFeed, NodeManagement

`NodeConfig`: requests of the API as goroutines with the copy they read, `nodeShutdown` step by step, one table after the other, with the error exits of its steps, and the change of a
pattern; the process may stop between any two steps. There is one shutdown at a time; overlapping ones are the subject of `AgentBus`. What the node's pattern in the exchange was last (`NODE_EXCH_PATTERN`) is not among
what an unregistration deletes. `NodeSync`: API requests and the agreement worker
as actors with a program counter around one mutex, and an administrator and an unregistration that do not take it. `ChangeFeed`: the
poll with its heartbeat and its interval, and the message worker; every call of the exchange and every write of the position may fail, the intervals of
node and organization are read separately (`torn` when only the first succeeded), and a node the exchange no longer knows is unconfigured. `dropped` notes a lost notice about messages. `NodeManagement`: the
monitor, the download worker, the handler of finished downloads and the upgrade with its status file; of the job that upgrades a device (`agent-install/agent-auto-upgrade.sh`) its outcomes: installed, failed, or failed and
rolled back to the version it saved.

### AgentServices, ContainerNetworks, AgentSecrets, KubeOperator

`AgentServices`: every handler of the governance worker is a function of the record `node`, because the handlers call each
other; the image fetch and the container worker have queues of their own. Reports to the exchange, which nothing reads back,
are made when these are empty (`Quiet`, a bound). `ContainerNetworks`: each command of the container worker is one step on
containers, networks and what is attached; Docker is external and modelled from its use (only running containers are endpoints of a
network, a filter on a name matches a part of it, a container restarts only while its networks are there). An instance key is used
once. The history variable `missed` has the pairs that were not connected because a call failed or a container was not running.
`AgentSecrets`: records, files, and
update messages, with a stop or a failure between record and file; the clean-up of an agreement saves the copies it read before (`BeginRemove`, `SaveOldCopy`). The read and write of one record by one function of `persistence` is one step. `KubeOperator`: the agent queues installs, uninstalls, checks and updates of secrets for the Kubernetes worker; a
command is a sequence of calls that interleave with the calls of
other agents, and each call may fail. `raced` has the agreements whose commands overlap those of others. The API server is external and modelled from its use (versions of objects, refused updates, deletions that take
time). The objects of an operator may name namespaces of their own. A record that cannot be read counts as begun (`kubeworker.go:194`), which `spoilt` notes.

### Composition

Modules with variables in common are composed where the code shares state: `AgentBus` uses `AgentEvents`,
`SecretUpdates` and `SecretsListing` extend `SecretsVault`, `Compatibility` extends `PolicyTerms` and `VersionRanges`. The MC modules
`MCCoordination`, `MCAgbotParts`, `MCAgentParts` and `MCAgentServices` are *sums*: a behaviour chooses one part at the start and is a
behaviour of that part, so that parts without common state share a run and not a product of states. `Parts` in a
configuration says which.

## 3. Runs

"pass" runs hold. "violation" runs are findings: the property states what a comment or document of
the repository says and TLC shows the code does otherwise; each has an entry
under "findings" with the quoted line.

| Run | Properties | Instance | Shows |
|---|---|---|---|
| agreement_restart | ExchangeMatchesAgent, CancelCompletes | 1 attempt; a loss, a failed call or an agent restart | an agreement in the exchange is one the node has, and a cancel that was begun completes although the agent stops in the middle or the exchange refuses a call; only the cleanup threads are fair |
| agreement_pair | AtMostOneActive, SlotSpec | 2 attempts, 1 redelivery, 1 agbot restart, few messages in flight | one live agreement at a time |
| agreement_liveness | TimeoutCancels, GivenUpByBoth | 1 attempt, 1 free choice (a user, a policy, node health, a heartbeat, a search) | what the agbot times out it cancels, and what it gave up the node leaves |
| coordination_live | ExclusiveWhileOpen, NotRevived, WorkEnds; FifoSpec, HighReachesWorker; SearchTakesEveryNode; EveryMemberUpgraded | lock: 2 workers and failing updates; queue: 1 sender, 4 items, buffer of 1, may close; search: 2 agbots, pages of 1, 2 errors; upgrade: 2 agbots, 2 members, 1 policy change, 1 failed comparison | exclusion until archived, no revival, every work item ends; a priority FIFO that delivers high priority work; every node is taken; every member gets its turn |
| coordination_faults | Durable, Forward, PurgedForGood; NoNodeMissed; OneAtATime; NoUpdateForgotten | store: 3 threads, both databases; search: 1 agbot, 2 nodes, a restart, a policy change, a retry, an error, a secret update; upgrade: 1 agbot with its 2 threads, a failed agreement, a death, a failed read; secrets: a policy and a pattern that bind one secret, 2 writes, 1 outage or lost message, 1 announcement in the queue | with bolt no update is lost and nothing moves back, with either database purged is purged; no node is missed; one member at a time; a secret that is written is in its agreements, on its way to them or still to be found, unless it is passed by in one of six ways |
| agent_bus | NothingLeftBehind, UnconfigureEnds | 6 groups of workers, up to 3 requests and 2 shutdowns at once, command channels of 2 or 8, termination channels of 1 or 2 | a shutdown cleans up before the registration goes, and every worker ends: no circle of blocked senders, but for the full termination channel of an ended subworker |
| agent_parts | UnregisteredIsClean; PolicyMarkerTruthful; VersionFallsOnlyIfAllowed; NoMessageOverlooked | 1 request, 2 patterns, 1 restart or failed step; 2 policies, 2 writes, 1 stop; 2 due NMPs, one of which allows a downgrade, 3 versions, 1 failure; 2 changes, any failures, 1 stop | the parts of the agent under stops and failed calls |
| agent_services | ServiceKeptWhileUsed, NoOrphanService; DependencyReachable; FileFollowsRecord; OperatorFollowsAgreements | 2 agreements that share a service, one with a second service of its own, 2 versions, two of a new version, a fault and a restart; 2 workloads, a chain of services with a shared one of 2 containers at its end, two of a stopped container, a Docker error and a restart; 2 agreements with a shared secret, failing writes, 1 stop; 2 agreements on 2 agents or in 1 or 2 namespaces, 3 operators, 1 failed call or restart | services follow their agreements through retry, rollback and upgrade; a running service is connected to what it requires; the secrets and the cluster objects of a service follow its agreements |
| agbot_parts | PolicyViewSettles, DealOutlivesPolicyOnlyIfLate; PublishedObjectArrives; CompatibleVersionExists, RangesMeetExactly, ConstraintMeansWhatItSays; RollbackIsEarned; ListingIsExact; StaleOnlyIfRaced; NoRecordLost | 2 policies, 1 pattern, 2 goroutines, 2 edits; 1 object, 2 services, 2 policies of it, 1 failed call or poll, repeated poll, change of what is served or of a node's policy; all requests, ranges and constraints of the sets in `MCAgbotParts`; 3 priorities listed out of order, 3 agreements, 1 policy edit; the secrets of `AllSecrets` in nested directories, 2 writes, 1 outage, refused directories; 1 resource of every kind and a service of 2 versions, agbot or agent, 1 edit, 1 failed request; 2 agbots, 3 partitions, 2 heartbeats that grow old, any failed verification | the views of the agbot settle and a published object arrives; the pure functions mean what they should; the records of the agbot hold through stops, outages and take-overs |
| agreement_orphan | ArchivedWhenCleanedUp | no faults | **violated**: archived with containers running after a negative ack |
| search_secret | SecretSearchesAgain | 1 agbot, 1 secret update | **violated**: no node is searched again |
| service_retry | RestartedIsReconnected | as agent_services, without Docker errors | **violated**: a restarted service that requires services is reported as begun without a connection to them |

**Bounds.** Every bound is a constant in a guard of the action it limits, or counted in `spent`. One of each kind of fault is enough for the
scenarios named in the hazards, since each handler acts on one record; two attempts are
what `AtMostOneActive` needs, and two agreements, agents, agbots or policies what the races between them need. `VerLimit` is 5 in the code and 1 in the runs: only whether it
is passed matters. `agreement_pair` limits what is in flight (`FewInFlight`, a state
constraint); the theorem `OneLiveAgreement` holds without it. `agreement_restart` has one fault
(`OneFault`): the constraint cuts off fault actions only, which are not fair, so it hides no counterexample to the
liveness property within the bound. In the lock a worker fetches the mutex of the map, so two mutexes let the worker
that is inside and the map have one each. In
the store at most `MaxBusy = 2` updates are in progress at a time, which lets every pair of threads cross, with
PostgreSQL one, raced by the deletes (`OneUpdateInPostgresql`); the theorems about store and queue hold for any number.
`CommandQueueSize` is 200 in the code and 2 in `agent_bus`, where it is reached; with 1 TLC finds two workers that wait for each
other. A `TermChan` has 2 places in the code; in the group of workers with three requests it has 1, so that the requests fill it as four requests fill the code's. `NotAllRaced`, a constraint of `agent_services`, stops where every agreement of the operator is in `raced`, since
OperatorFollowsAgreements says nothing of those. `TwoTroubles`, of `agent_services`, lets any two kinds of trouble meet (with a pattern not a fault and a
restart). RollbackIsEarned was once true only within its bound of one policy edit, which the attempt to
prove it showed; it was restated, and is proved for any number of edits. In the part `secrets` of `coordination_faults` requests only write and delete the one secret; the part `vault` of `agbot_parts` makes every request, without
deployments. The theorem about secret updates holds for any secrets, the node's own included. Symmetry is used in `agreement_pair` only, which checks safety.

**Deadlock.** CHECK_DEADLOCK is FALSE where the system really rests: the finite supply of ids, times or
events runs out, a queue is closed, or nothing is left to do. `agent_bus` checks deadlock; there
the end of the process is an action of its own.

**Fairness.** Weak fairness for every thread that has work: Go schedules runnable goroutines, the
workers loop, the mailboxes and governance are polled. Nothing that users, policies,
node health or faults cause is fair. Strong fairness appears for `Lock`, since
`sync.Mutex` hands the lock to a waiter that has waited for a millisecond, and for the cases of
the select in `run()` and the senders it receives from, among which Go chooses at random. `CleanupSpec` assumes only
the fairness of the threads that clean up. `coordination_live` conjoins the fairness of each part, which is
vacuous for the parts that do not run.

**Mutants.** Each property of each passing run has a mutant: an operator next to the
one it replaces, such as a dropped guard or a missed reset, under which TLC finds the property violated.

### What the models show beyond the runs

While modelling we met more places where code, comments and docs disagree, or where a promise has an exception. The
properties above name their exceptions (`raced`, `late`, `dropped`, `spoilt` and the like are history variables). The
following can be seen by changing a configuration, by dropping an exception, or by checking a property
that is stated in its module and belongs to no run because the code does not keep it (names in *italics*).

*Agreements.*
* `agreement_restart` with `MaxDup = 1`: ExchangeMatchesAgent fails. A proposal that is handled again
  makes a second agreement with the id of an archived one, and the cleanup reports of the first archive it
  while it stays in the exchange (`agreement/agreement.go:602`).
* `agreement_liveness` with `MaxAgbotCrash = 1`: TimeoutCancels fails. An agbot that restarts between
  marking an agreement timed out and working on the queued cancel never looks at it again
  (`agreementbot/agreementbot.go:1071`).
* `governance/governance.go:1510` finalizes an agreement because a verify message was *sent*, before
  any word of the agbot, although its comment speaks of evidence.
* The lock with `MutualExclusion` as the invariant fails: `deleteAgreementLock` takes the mutex out of the map while
  workers wait for it (`agreementbot/agreementworker.go:1283`); after the agreement is archived, or a
  cancel failed, two workers can be inside. NotRevived without `LateFinalize`: a worker that acked a reply takes the lock again and, without a look at the record, finalizes
  an agreement that was cancelled while it waited, and puts it back in the exchange (`agreementbot/basic_agreement_worker.go:245`).
* The store with `db = "bolt"` dropped from Forward or Durable: both fail with PostgreSQL, although
  `postgresql/agreement.go:481` says the update reads and writes atomically. With the field `timeouts` added to
  Durable it fails with bolt too: `ValidateStateTransition` does not copy what `SetAgreementTimeouts`
  sets (`agreementbot/agreementbot.go:471`).
* `prioritized_workqueue.go:10` says the queue never blocks the sender; `blockHighAtDepth` makes it sleep.

*Search and HA groups.*
* NoNodeMissed fails with two agbots and `MaxRetry = 1`, or `MaxRestart = 1`, and with one agbot and pages of 1 when the policy changes: an out of sync session ends the one opened for a retry
  (`node_search.go:563`), a second agbot searches before a restarted one (`search_session.go:104`), and a
  policy changes between two pages (`node_search.go:519`).
* OneAtATime fails with `MaxMatch = 1`, since an agreement whose policy cannot be compared is ended without a
  turn (`consumer_protocol_handler.go:343`). *TurnIsUsed* fails with `MaxPolicy = 2`, since the member
  that has the turn is marked as waiting for it; EveryMemberUpgraded fails with `MaxDeath = 1`, since a member that dies in its turn
  keeps it (both `governance.go:497`).

*Policies, workloads, objects, compatibility.*
* *ManagerFollowsExchange*: a goroutine that read the exchange earlier may update later and put the older policy back (`agreementbot.go:668`, 1389).
  *EveryEntryIsAnnounced*: the events of a removed service policy all name the first entry (`businesspol_manager.go:831`). A policy event sent while
  `polMapLock` is held can block against the dispatcher (`businesspol_manager.go:634`). The hash of a policy is stored before the policy is validated (242-252).
* *HigherPriorityCancels*: only the highest workload is compared (`policy/workload.go:231`) while the comment at `consumer_protocol_handler.go:470`
  speaks of every higher priority. *NextVersionAttempted*: an attempt that finds the workload changed gives up instead of trying the next
  version (`agreementworker.go:730`). `retries = 1` gives one try, `docs/deployment_policy.md:46` reads as two.
* *CurrentDestinationsConsulted*: two changes of an object's policy that are evaluated on the same list of destinations undo each other (`policy.go:303`).
  PublishedObjectArrives without `forgotten`: a list of served policies that cannot be read counts as empty and drops the cached policies of the objects (`agreementbot.go:1325`, `object_manager.go:154`), changes that
  were polled before are dropped too (`object_manager.go:199`), and the time of the poll moves on although the query for one organization failed (`changes_worker.go:213`): the object is not polled again before its policy changes.
* Two version ranges that meet in an end only one of them includes are said to intersect (`semanticversion/version.go:245`); `ChangeCeiling` keeps a
  ceiling as written, so a short version is compared as text (283). Equality is one of texts: `(1.2.0,2.0.0]` contains `1.02.0`, a version equal to the end it excludes (186-196).
* Only the last container's secrets are checked
  (`secretbinding_check.go:615`); `==` and `!=` can both hold for an undeclared text with commas (`counter_party_properties.go:467`).

*Secrets.*
* NoUpdateForgotten without `passedBy`: the code passes a written value by in six ways. A poll that cannot read a secret, whatever the error, takes it for removed (`secret_updater.go:134`), marks the rows of
  the secret's *short* name, whatever its level, and of patterns before it looks them up (151, 169), and the announcement of one deployment moves the rows of all (`SetSecretUpdate`). An agreement is recorded after
  governance dealt with a secret that it had read before the write (`agreementworker.go:815`). A second write within one second leaves the row's time as it is (`postgresql/secrets.go:89`). An update with no later
  time than the agreement's marker is dropped (`events/secret_events.go:71`). A message that is lost is not sent again, and neither are details that could not be read (`governance.go:281`): both count as sent. Besides, the ack of an
  older update is taken for the newer one's (`basic_agreement_worker.go:410`). Nothing is said of deployments with node
  level secrets, where the node's own secret and the shared one have times of their own, and of a bound secret that an update of another one of the same deployment can be taken for (`governance.go:214`).
  The rows of a pattern's node secrets are never deleted: the name is parsed with its organization (`secret_updater.go:357`).
* FileFollowsRecord without `strayed`: the record is saved before the file is written (`resource/secrets_manager.go:156`), and a write that fails is an error nobody acts on: the message is deleted all the same
  (`governance/governance.go:1178`). The clean-up of another agreement puts back the record it read before an update (269).
* *SecretGoneWithAgreement*: the removal of an agreement's secrets works on a stale copy (`resource/secrets_manager.go:269`).
* ListingIsExact without `skipped`: a directory that cannot be listed is left out of the list for any error, an outage as well as a refusal, and the list is answered with 200 (`secrets/vault/vault.go:212`).
* An agreement that joins an instance before its containers start is not added to its secrets (`governance/microservice.go:568`).

*Exchange client and feed.*
* StaleOnlyIfRaced without `raced`: a read that began before a change stores its value after the invalidation, and it stays until the next change (`exchange/cache.go:222`).
  Without `overlooked`: the change of a service with an underscore in its url, and the removal of an organization, delete other keys; what changed before the agbot's worker has a
  change id is not announced. Once one version of a service is cached, a higher one in the range is not looked for (`exchange/service.go:293`).
* NoMessageOverlooked without `dropped`: the position is saved before the message is fetched (`changes/changes_worker.go:346`); a stop in between leaves the
  message until the next change. *IntervalWithinMaximum* needs its exception: a failed read of the organization happens before the interval is clamped (593).

*Partitions.*
* NoRecordLost without `late` or `selfTaken`: an agbot with a late heartbeat can claim its own partition and drop its own records (`partition.go:245`), and one
  that lost its partition can insert between another's copy and drop. Without `unverified`: a partition whose tables could not be looked up is taken out of the table of partitions (`partition.go:129-135`); its records stay in their tables and nobody can
  claim them. *MoveIsLiteral*: the secrets of the deployment's own organization are not moved (`postgresql/secrets.go:70`)
  although `partition.go:16` says that move is meant literally.

*Agent.*
* *ShutdownAlwaysCompletes*: the shutdown for a changed pattern returns without its completion message when the exchange fails (`governance/shutdown.go:207`).
* UnconfigureEnds without `Stuck`: every refused poll of the exchange asks for the unconfiguration again (`changes/changes_worker.go:368`) and each request writes to the termination channels of subworkers that
  are not yet known to have ended (`worker/worker.go:436`). Four requests that are queued before the report of the subworker fill the two places after the one it read, and governance blocks for good.
* UnregisteredIsClean without `crossed`: a request or a worker that found the node registered saves a table after the shutdown deleted it, and POST /node passes during a shutdown that a 401 or a changed
  pattern started, since only DELETE /node marks the node as unconfiguring (`api/path_node.go:111`). A shutdown in which a step failed announces its end with an error and leaves what it had not reached (`shutdown.go:637`).
* PolicyMarkerTruthful without `markerLeft`: an unregistration deletes the policy and then its marker, without `nodePolicyUpdateLock` (`shutdown.go:129`, 135). After a stop in between, a registration finds the marker
  of the exchange's policy and copies nothing (`api/api_node.go:90`).
* *UnconfiguringIsFinal*: with two requests at a time `configured` is written over `unconfiguring` from an old copy of the device (`persistence/device.go:239`, `api/path_node_configstate.go:176`).
  A stop while unconfiguring leaves the node in that state.
* *ExchangeIsMaster*: user input is saved with the hash of a newer state of the exchange (`exchangesync/user_input.go:398`). The first result of
  `PatchNodePolicy`'s synchronisation is discarded (`exchangesync/node_policy.go:451`).
* *NoIdleService*: when a dependent service cannot be started, the agreement is cancelled without its end being announced (`governance/microservice.go:576`) and the
  dependencies started before or after it stay associated with it until a restart ends it once more (`governance/governance.go:1736`).
* *RetryIsHandled*: the container worker drops the retry of a shared service when the agreement that asked for it has ended (`container/container.go:1643`).
* A device goes back to the version it had when its upgrade fails, whether or not the policy allows a downgrade (`agent-auto-upgrade.sh` 788-814), as `docs/node_management_status.md:62` says. *SuccessIsReal*: a cluster upgrade that another one overtook is reported as successful (`cluster_upgrade_worker.go:134`).
* OperatorFollowsAgreements without `raced`, which has the agreements whose commands overlap an uninstall: a restart sends the uninstall of an ended agreement again and takes the objects of the agreement that followed it in the
  namespace (`agreement/agreement.go:649`, `kube_operator/client.go:213`); and an agent deletes the cluster role, its binding or the resource definition
  between another agent's check and use (`api_objects.go:364`, 1281). `KnownLeft` lists what an uninstall leaves: the operator's secret (`api_objects.go:682` passes the namespace as the name), the
  network policy when the namespace object is made up (`client.go:233`), and a subject whose namespace was filled in at install only (454).
  A listing of the pods that fails counts as an empty one, and a namespace with pods is deleted (`api_objects.go:307`).
* DependencyReachable without `missed`: only running containers are listed as dependencies (`container/container.go:2722`), so one that Docker is restarting when
  its parent is launched is never connected; a command that is deferred lets a parent overtake its dependency (1669); and the containers of a shared service
  are not reconnected after a retry, since `findParentContainersForService` looks for the id of the instance in their names. `processPostCreate` resets
  `newContainerIPs` for every container, so shared ones never get their permit rules (1118).

## 4. Proofs

| Module | Theorems | Argument |
|---|---|---|
| `AgreementProofs` | TypeCorrect, OneLiveAgreement, ImplementsSlot, SlotInvariant; for `MaxDup = 0`: ExchangeIsTruthful | `SlotInv` adds to AtMostOneActive that while an accepted proposal is answered but not stored no agreement is live (`DecidingAlone`). AtMostOneActive alone is not inductive: PersistProposal makes an agreement live without looking again. Only one thread decides on proposals, so the fact found by MayAnswer stays true until then. `ExchangeInv`: an id is proposed once, and its proposal finds the id untouched (`OneProposal`); an agreement whose end is under way, reported or recorded is out of the exchange and not live; a deferred cancel is one of an accepted agreement that is not live (`ShownRightly`); governance still has the record of what it declines (`DeclinesWhatItHas`). |
| `AgreementStoreProofs` | StoreTypeCorrect, DeletedForGood, BoltLosesNoUpdate, BoltMovesForward | `StoreInv`, which is `SaveInv` when the database is bolt: a field is set once (`SetOnce`), a thread's copy has the value it sets, nothing is saved before, and with one transaction no other thread is between read and write (`NoneBetween`). |
| `AgreementWorkerProofs` | LockTypeCorrect, LockExcludesWhileOpen, ArchivedIsNotRevived; QueueTypeCorrect, QueueDepthBounded, HighPriorityFirst, QueueImplementsFifo | `LockInv`: whoever is inside owns the mutex it fetched; while the agreement is open all workers have the mutex that is in the map (`OneMutex`), because only the cancel that archived it takes one out (`DeletedWhenArchived`). `QueueInv`: what run() offers is still the head of its buffer when the select fires (`OfferHolds`), channels hold what fits (`ChannelsFit`), and the depth counts the senders past the check. |
| `AgbotGroupProofs` | HATypeCorrect; for `MaxMatch = 0`: OneMemberAtATime; SearchTypeCorrect; SharedSearchMissesNone, LoneSearchMissesNone | `HAInv` (in `HAUpgrade`): whoever is stopped, or will be stopped by a thread without another look at the table, has the turn; the usage that is about to be deleted is marked; a deleted one is not made again; and governance removes the row only for a member that is not stopped and will not be. For the search: a node that changed and was not handed out lies after the time that the session, or the search that will open the next one, starts from; an answer that was received and not yet stored holds what the exchange's session has passed. The two theorems take the two sets of faults under which the code keeps NoNodeMissed. *Shared*: any number of agbots and pages and failed searches, but no restart, no retry and no change of a policy or secret, since each of these moves the start back in one agbot's memory while another agbot's search may end the session with a later one. *Lone*: one agbot, through restarts, failed searches and retries that look back far enough, and through changes of the policy when a page holds every node; a change between two pages loses a node (section 3). NoNodeMissed itself holds up to an update of a secret, which searches nothing again (`search_secret`). |
| `AgentProofs` | MessagesAreFetched, IntervalStaysWithinMaximum, DowngradeOnlyIfAllowed, PolicyMarkerIsTruthful, FilesFollowRecords, UnregistrationCleans | One invariant per module of the agent. `FeedInv`: positions point into the log, and if a message is unseen and nothing is awaited, it is still in what the saved position will read or a loss is noted (`StillInLog`, `PlaceOK`), which every way of getting a position keeps although each of its calls may fail. `PollInv`: the interval that comes back after an outage is within the maximum too, since no new maximum is taken while the heartbeat fails. `ManagementInv`: on a cluster what the download worker compared stays compared, since nothing changes the version before the queues are lost with the old pod, and an older image is in place only while its upgrade waits for the new pod; on a device the job installs and, when it fails, restores in steps of its own. `MarkerInv`: versions are not used twice; the holder of `nodePolicyUpdateLock` that copies has read what its version still names, although the administrator writes without the lock; a marker that names the exchange's policy names the one that was copied, unless an unregistration deleted the copy under it. `SecretsInv`: a file differs from its record only if the first message of the mailbox says so and the instance is still to be written, now or again after a restart (`AwaitsFile`); the copies a clean-up holds have the values of the records it did not see updated (`RemovalOK`). `ConfigInv`: until a writer crosses the shutdown, what it deleted stays deleted (`TablesGone`, `DeviceGone`) and no registration is under way beside it (`NoneCreates`). |
| `AgbotRecordProofs` | RecordsAreKept, CacheIsFresh, RollbacksAreEarned, SecretUpdateNotForgotten | `RecordsInv`: the tables of a move stay until its transaction ends (`TablesStay`), what is moved belongs to another partition and is all of it (`TakesAll`), and each record is located in one partition. `CacheInv`: what a read under way is going to store agrees with the exchange too, unless a change that will invalidate it is still to be fetched or processed, or a race is noted. `RollbackInv`: the record counts one retry less than there were tries, and nothing above the workload in use, *or the one that is proposed*, has tries left (`PriorityEarned`); the second half makes it inductive, since the record is written when the reply comes. `UpdateInv`: no row or announcement has a time ahead of the vault's (`NoTimeAhead`), so a secret that is written is newer than all of them; rows and announcements exist only for deployments that have to do with the secret (`OnlyRelated`); values under way to an agreement are in the order they were written, after the one it has (`UpdatesInOrder`), so taking an older message over cannot undo a newer one, and the same holds of what was read for an agreement in the making (`DraftsInOrder`); and a secret in use is settled or *nobody* has looked at it since it was written, neither its row nor any announcement (`Followed`). NoUpdateForgotten asks for the row alone, which is not inductive: an old announcement may still move it. |
| `PolicyProofs` | PoliciesTypeCorrect, PolicyViewHolds, DealsEndWithPolicy; ObjectsTypeCorrect, PublishedObjectsArrive | `PolicyInv`: the last pending event about a name carries the version that the business policy manager or the watcher has of it, and without such an event the policy manager has that version already (`ViewFollows`). That is more than PolicyViewSettles, which speaks of an empty queue: a deletion that is announced twice, or a version the policy manager was given directly, is overtaken by the events still in the queue. A batch of events arrives in any order, but a loop sends events of one policy that agree, so the last one is the right one whatever the order (`SentLeads`). While an agreement, or one being made, has no policy, a deletion is still in the queue, or it was being made when one was handled (`DealsFollow`), and what is being made is for a version (`MadeForPolicy`), so that a deletion marks it. `ObjectsInv`: as long as the cache does not know an object, nothing was or will be placed and the object is still to be reported (`CachedOrFresh`), so a reply that misses it in the cache is followed by its change; everything under way about an object published once has its only policy (`OnePolicy`), and a change that lists destinations names the services of the policy it replaces (`NoLossByChange`), so no worker takes a wanted node off and a node in an old list is still in the current one (`NotRemoved`); hence the object is on every node that is due, or something that will put it there is under way (`Arriving`). |
| `AgentBusProofs` | UnconfigureLeavesNothing | `ShutdownInv`: a `nodeShutdown` that has passed the agreements saw them archived (`PastAgreements`); an archived agreement and a service that is gone stay so, whatever other workers and other shutdowns do, so what one goroutine saw still holds when it removes the registration. |

Each proof shows `Init => Inv`, one lemma or step per action for `Inv /\ Next => Inv'`, and
`Inv => property`. The inductive invariants were checked by TLC first. The assumptions are the
named `ASSUME`s on the constants of each module (such as `FeedAssumption`, `ConfigAssumption`, `PartitionAssumption`,
`CacheAssumption`, `RollbackAssumption`, `PolicyNames`, `PolicyBounds`, `ObjectBounds`), which TLC evaluates in the runs, and the hypotheses that
matter: those of the two search theorems (above), `MaxMatch = 0` for OneMemberAtATime, since a failed comparison really violates it, and `MaxDup = 0` for
ExchangeIsTruthful, since a redelivered proposal does (section 3). No bound on the other faults is needed in these. What BoltLosesNoUpdate and
BoltMovesForward say of bolt, the two lock theorems of the time until an update fails, and the exceptions
(`dropped`, `late`, `selfTaken`, `raced`, `missed`, `strayed`, `markerLeft`, `crossed`, `forgotten`, `unverified`, `passedBy` and the like) of the theorems about agent and agbot records are part of
the properties themselves.

**Only model-checked.**
* Liveness: the prover has no rules for fairness here.
* OperatorFollowsAgreements (`KubeOperator`): about thirty kinds of calls interleave, and an inductive invariant has to say of each point of an installation and an
  uninstallation which objects are there; it is checked on two agreements. ServiceKeptWhileUsed and NoOrphanService (`AgentServices`) and DependencyReachable
  (`ContainerNetworks`): their handlers fold over the instances or containers of a service, as the code loops over them, and what a fold
  computes needs induction over data.
* The three properties of `Compatibility`: `PolicyTerms` has
  RECURSIVE operators, which keeps it out of the prover's reach, as does induction for what a parse computes.
* ListingIsExact (`SecretsListing`): not yet attempted.

The violations are counterexamples and need no proof.

## 5. What is not modelled

* Time. Timeouts are actions that may happen whenever their condition can hold, or a small clock where the code compares
  times; the timing assumptions are listed above.
* The text of policies, services and proposals: a version number or a match stands for it, except in `PolicyTerms` and `Compatibility`.
* Metering, data verification, blockchain protocols (the Basic protocol has no ledger).
* Several policies on one node at once, several organizations of one agbot, changes of an HA group, the agbot's monitor of HA node management.
* Volumes, iptables rules and the deployment options of containers.
* Docker, the Kubernetes API, the sync service, the vault and the exchange itself: external, modelled from their use; their
  failures are failing calls.
* The `hzn` command line, the installation scripts (but for the outcomes of the upgrade job), metering, event logs, i18n and configuration: user interface, text and
  settings around the operations that are modelled.

## 6. Plan

1. `AgentServices` and `ContainerNetworks` without folds, as far as the code allows, and their invariants as theorems.
2. `KubeOperator`: the invariant of an installation, first for agents that do not share objects.
3. `HAUpgrade`: agbot restarts and changes of the group (`agreementbot.go` 1015-1036, 1687-1820); the refinement of an abstract turn.
4. Policy updates of running agreements (`consumer_protocol_handler.go` 500-575).
5. The agbot's side of HA node management (`monitorHAGroupNMPUpdates`).
6. ListingIsExact as a theorem: what a listing has still to visit, named or skipped covers what stayed.
