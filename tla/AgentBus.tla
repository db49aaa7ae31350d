------------------------------ MODULE AgentBus ------------------------------
(***************************************************************************)
(* The worker framework (worker/worker.go) and the shutdown that runs over *)
(* it.  A worker is a goroutine with a bounded channel of commands and an  *)
(* unbuffered channel of messages; the dispatcher (ProcessEventMessages)   *)
(* polls the message channels of the registered workers, and hands every   *)
(* message to NewEvent of every registered worker, which queues commands   *)
(* (module AgentEvents).  A worker that is told to terminate keeps the     *)
(* command deferred until its subworkers are gone, then takes itself out   *)
(* of the registry; the process ends when the registry is empty.           *)
(*                                                                         *)
(* On that bus runs the unconfiguration of a node: START_UNCONFIGURE,      *)
(* from the API or from the change feed when the exchange answers 401,     *)
(* ends the subworkers and the sync service, then governance's             *)
(* nodeShutdown goroutine ends agreements and services and announces       *)
(* UNCONFIGURE_COMPLETE.                                                   *)
(***************************************************************************)
EXTENDS AgentEvents, Naturals, FiniteSets

CONSTANTS
  WorkerSets,     \* the sets of workers an instance starts with
  SubWorkers,     \* [worker -> its subworkers]
  CommandQueueSize, \* capacity of a command channel, by set (200 in the code)
  TermPlaces,     \* capacity of a TermChan, by set (2 in the code)
  MaxArrivals,    \* bound, by set: events that arrive from outside, START_UNCONFIGURE included
  MaxWork,        \* bound, by set: the events among them other than START_UNCONFIGURE
  Arrivals,       \* the events that arrive from outside, by worker that publishes them
  SavedPatterns   \* by set, a subset of BOOLEAN: may a changed pattern be saved when the node shuts down

ASSUME BusAssumption ==
  /\ \A ws \in WorkerSets : ws \subseteq EdgeWorkers \cup AgbotWorkers
  /\ CommandQueueSize \in [WorkerSets -> Nat \ {0}] /\ TermPlaces \in [WorkerSets -> Nat \ {0}]
  /\ MaxArrivals \in [WorkerSets -> Nat] /\ MaxWork \in [WorkerSets -> Nat]
  /\ SavedPatterns \in [WorkerSets -> SUBSET BOOLEAN]
  /\ \A w \in DOMAIN Arrivals : Arrivals[w] \subseteq Events

VARIABLES
  workers,        \* the workers that were started
  registry,       \* MessageHandlerRegistry.Handlers
  cmds,           \* [worker -> command channel]
  deferred,       \* [worker -> DeferredCommands]
  loop,           \* [worker -> "run" | "send" | "quiesce" | "stop"]: in its loop, blocked in a send, ending its
                  \* subworkers from the idle handler, returned
  outbox,         \* [worker -> goroutines blocked on its message channel, in order]
  sub,            \* [worker -> [subworker -> "run" | "quit" (read TermChan) | "gone" | "ended" (noted by the worker)]]
  termChan,       \* [worker -> [subworker -> what is in its TermChan, 0 .. TermPlaces]]
  essCleanedUp, shuttingDownCmd, shutdownStarted,
  nodeShutdown,   \* [number -> program counter of a nodeShutdown goroutine]
  ag,             \* the agent's agreement: [state, done], done the cleanup statuses it has
  msi,            \* a running service: "up" | "cleaning" | "gone"
  device,         \* is the device record in the local database
  newPattern,     \* a saved pattern makes the shutdown the one of a pattern change
  unconfigs, work \* counters of the bounds

busVars == <<workers, registry, cmds, deferred, loop, outbox, sub, termChan,
             essCleanedUp, shuttingDownCmd, shutdownStarted, nodeShutdown, ag, msi,
             device, newPattern, unconfigs, work>>
wireVars == <<workers, registry>>
nodeVars == <<ag, msi, device, newPattern>>

Cmd(n) == [name |-> n, sub |-> ""]
SubTerm(s) == [name |-> "SubWorkerTermination", sub |-> s]
Subs(w) == IF w \in DOMAIN SubWorkers THEN SubWorkers[w] ELSE {}
NodeType == IF "Kube" \in workers THEN "cluster" ELSE "device"

FrameworkCommands == {"BeginShutdown", "SubWorkerTermination", "Terminate"}
ShutdownCommands == {"NodeShutdown", "AgbotShutdown", "NodeUnconfig", "CleanupStatus",
                     "CleanupStatusProtocol", "CleanupExecution", "UpdateMicroserviceGone"}
\* The commands an event puts on a worker's channel.  A command whose handler neither sends a
\* message nor takes part in the shutdown is taken off the channel at once.
Commands(w, e) ==
  LET kept == SelectSeq(NewEvent(w, e), LAMBDA n : \/ n \in FrameworkCommands \cup ShutdownCommands
                                                   \/ Sends(NodeType, w, n) # {<<>>})
  IN [i \in DOMAIN kept |-> Cmd(kept[i])]

BusInit ==
  /\ workers \in WorkerSets /\ registry = workers
  /\ cmds = [w \in workers |-> <<>>] /\ deferred = [w \in workers |-> <<>>]
  /\ loop = [w \in workers |-> "run"] /\ outbox = [w \in workers |-> <<>>]
  /\ sub = [w \in workers |-> [s \in Subs(w) |-> "run"]]
  /\ termChan = [w \in workers |-> [s \in Subs(w) |-> 0]]
  /\ essCleanedUp = FALSE /\ shuttingDownCmd = FALSE /\ shutdownStarted = FALSE
  /\ nodeShutdown = [i \in 1 .. MaxArrivals[workers] |-> "off"]
  /\ ag = [state |-> IF workers \cap {"Container", "Kube"} = {} THEN "archived" ELSE "live", done |-> {}]
  /\ msi = IF "Container" \in workers THEN "up" ELSE "gone"
  /\ device = TRUE /\ newPattern \in SavedPatterns[workers]
  /\ unconfigs = 0 /\ work = 0

-----------------------------------------------------------------------------
(* Putting commands on a channel and messages on the bus.                    *)

Room(w, n) == Len(cmds[w]) + n <= CommandQueueSize[workers]
Queue(w, cs) == [cmds EXCEPT ![w] = @ \o cs]
\* A worker blocks in its own send until the dispatcher takes the message.
SelfSend(w, e) == [outbox EXCEPT ![w] = Append(@, [ev |-> e, self |-> TRUE])]
GoSend(w, es) == [outbox EXCEPT ![w] = @ \o [i \in DOMAIN es |-> [ev |-> es[i], self |-> FALSE]]]

\* TerminateSubworker writes to TermChan of every subworker that is not marked terminated;
\* the write blocks when the places of the channel are taken, for good when the subworker is gone.
TerminateSubworkers(w) ==
  /\ \A s \in Subs(w) : sub[w][s] # "ended" => termChan[w][s] < TermPlaces[workers]
  /\ termChan' = [termChan EXCEPT ![w] = [s \in Subs(w) |-> IF sub[w][s] # "ended" THEN @[s] + 1 ELSE @[s]]]

AreAllSubworkersTerminated(w) == \A s \in Subs(w) : sub[w][s] = "ended"

\* The framework's commands (HandleFrameworkCommands).
HandleFrameworkCommand(w, c) ==
  \/ /\ c.name = "BeginShutdown" /\ TerminateSubworkers(w)
     /\ cmds' = [cmds EXCEPT ![w] = Tail(@)]
     /\ UNCHANGED <<deferred, loop, outbox, sub>>
  \/ /\ c.name = "SubWorkerTermination"
     /\ sub' = [sub EXCEPT ![w][c.sub] = "ended"]
     /\ cmds' = [cmds EXCEPT ![w] = Tail(@)]
     /\ UNCHANGED <<deferred, loop, outbox, termChan>>
  \/ /\ c.name = "Terminate"
     /\ cmds' = [cmds EXCEPT ![w] = Tail(@)]
     /\ IF AreAllSubworkersTerminated(w)
        THEN loop' = [loop EXCEPT ![w] = "stop"] /\ outbox' = SelfSend(w, "WORKER_STOP") /\ UNCHANGED deferred
        ELSE deferred' = [deferred EXCEPT ![w] = Append(@, c)] /\ UNCHANGED <<loop, outbox>>
     /\ UNCHANGED <<sub, termChan>>

\* Governance records that a part of an agreement's cleanup is done; the agreement is archived
\* when the workload is destroyed and the protocol has ended it.
CleanupStatus(part) ==
  LET done == ag.done \cup {part}
  IN ag' = [state |-> IF done = {"workload", "protocol"} THEN "archived" ELSE ag.state, done |-> done]

\* The commands of the concrete workers.  Everything that does not take part in the shutdown
\* only sends what Sends says.
HandleWorkerCommand(w, c) ==
  \/ /\ w = "Governance" /\ c.name = "NodeShutdown"
     /\ shuttingDownCmd' = TRUE /\ TerminateSubworkers(w)
     /\ cmds' = [cmds EXCEPT ![w] = Tail(@)]
     /\ UNCHANGED <<loop, outbox, shutdownStarted, ag, msi>>
  \/ /\ w = "NodeManagement" /\ c.name = "NodeShutdown" /\ TerminateSubworkers(w)
     /\ cmds' = [cmds EXCEPT ![w] = Tail(@)]
     /\ UNCHANGED <<loop, outbox, shuttingDownCmd, shutdownStarted, ag, msi>>
  \/ /\ w = "AgBot" /\ c.name = "AgbotShutdown" /\ shutdownStarted' = TRUE
     /\ cmds' = [cmds EXCEPT ![w] = Tail(@)]
     /\ UNCHANGED <<loop, outbox, shuttingDownCmd, termChan, ag, msi>>
  \/ \* NodeUnconfig of the resource worker, which then announces that the sync service is gone, and of the container worker
     /\ w \in {"Resource", "Container"} /\ c.name = "NodeUnconfig"
     /\ cmds' = [cmds EXCEPT ![w] = Append(Tail(@), Cmd("Terminate"))]
     /\ IF w = "Resource"
        THEN outbox' = SelfSend(w, "ESS_UNCONFIG") /\ loop' = [loop EXCEPT ![w] = "send"]
        ELSE UNCHANGED <<outbox, loop>>
     /\ UNCHANGED <<shuttingDownCmd, shutdownStarted, termChan, ag, msi>>
  \/ /\ w = "Governance" /\ c.name \in {"CleanupStatus", "CleanupStatusProtocol"}
     /\ CleanupStatus(IF c.name = "CleanupStatus" THEN "workload" ELSE "protocol")
     /\ cmds' = [cmds EXCEPT ![w] = Tail(@)]
     /\ UNCHANGED <<loop, outbox, shuttingDownCmd, shutdownStarted, termChan, msi>>
  \/ /\ w = "Governance" /\ c.name = "CleanupExecution"
     /\ cmds' = [cmds EXCEPT ![w] = Tail(@)]
     /\ IF ag.state = "live"
        THEN /\ ag' = [ag EXCEPT !.state = "ending"]
             /\ outbox' = SelfSend(w, "GOV_AGREEMENT_ENDED") /\ loop' = [loop EXCEPT ![w] = "send"]
        ELSE UNCHANGED <<ag, outbox, loop>>
     /\ UNCHANGED <<shuttingDownCmd, shutdownStarted, termChan, msi>>
  \/ /\ w = "Governance" /\ c.name = "UpdateMicroserviceGone"
     /\ msi' = "gone" /\ cmds' = [cmds EXCEPT ![w] = Tail(@)]
     /\ UNCHANGED <<loop, outbox, shuttingDownCmd, shutdownStarted, termChan, ag>>
  \/ /\ c.name \notin ShutdownCommands
     /\ cmds' = [cmds EXCEPT ![w] = Tail(@)]
     /\ \E es \in Sends(NodeType, w, c.name) :
           IF es = <<>> THEN UNCHANGED <<loop, outbox>>
           ELSE outbox' = SelfSend(w, es[1]) /\ loop' = [loop EXCEPT ![w] = "send"]
     /\ UNCHANGED <<shuttingDownCmd, shutdownStarted, termChan, ag, msi>>

\* One turn of a worker's loop: internalCommandhandler on the next command.
HandleCommand(w) ==
  /\ loop[w] = "run" /\ cmds[w] # <<>>
  /\ LET c == Head(cmds[w]) IN
       IF c.name \in FrameworkCommands
       THEN HandleFrameworkCommand(w, c) /\ UNCHANGED <<shuttingDownCmd, shutdownStarted, ag, msi>>
       ELSE HandleWorkerCommand(w, c) /\ UNCHANGED <<deferred, sub>>
  /\ UNCHANGED <<wireVars, essCleanedUp, nodeShutdown, device, newPattern, unconfigs, work>>

\* The idle branch of the loop, when no command came for an interval: deferred commands go back to
\* the worker's own channel.
Idle(w) == loop[w] = "run" /\ cmds[w] = <<>>
RequeueDeferredCommands(w) ==
  /\ Idle(w) /\ deferred[w] # <<>> /\ Room(w, Len(deferred[w]))
  /\ cmds' = Queue(w, deferred[w]) /\ deferred' = [deferred EXCEPT ![w] = <<>>]
  /\ UNCHANGED <<wireVars, loop, outbox, sub, termChan, essCleanedUp, shuttingDownCmd, shutdownStarted,
                 nodeShutdown, nodeVars, unconfigs, work>>

\* A subworker goroutine reads its quit channel, reports its end as a command and returns.
SubWorkerQuit(w, s) ==
  /\ sub[w][s] = "run" /\ termChan[w][s] > 0
  /\ termChan' = [termChan EXCEPT ![w][s] = @ - 1] /\ sub' = [sub EXCEPT ![w][s] = "quit"]
  /\ UNCHANGED <<wireVars, cmds, deferred, loop, outbox, essCleanedUp, shuttingDownCmd, shutdownStarted,
                 nodeShutdown, nodeVars, unconfigs, work>>
SubWorkerReports(w, s) ==
  /\ sub[w][s] = "quit" /\ Room(w, 1)
  /\ sub' = [sub EXCEPT ![w][s] = "gone"] /\ cmds' = Queue(w, <<SubTerm(s)>>)
  /\ UNCHANGED <<wireVars, termChan, deferred, loop, outbox, essCleanedUp, shuttingDownCmd, shutdownStarted,
                 nodeShutdown, nodeVars, unconfigs, work>>

\* NoWorkHandler of governance: starts the shutdown goroutine once everything it owns is down.
GovernanceNoWork(i) ==
  /\ "Governance" \in workers /\ Idle("Governance")
  /\ shuttingDownCmd /\ AreAllSubworkersTerminated("Governance") /\ essCleanedUp
  /\ nodeShutdown[i] = "off" /\ \A j \in 1 .. i - 1 : nodeShutdown[j] # "off"
  /\ nodeShutdown' = [nodeShutdown EXCEPT ![i] = IF device THEN "agreements" ELSE "error"]
  /\ shuttingDownCmd' = FALSE
  /\ UNCHANGED <<wireVars, cmds, deferred, loop, outbox, sub, termChan, essCleanedUp, shutdownStarted,
                 nodeVars, unconfigs, work>>

\* NoWorkHandler of the agbot while it shuts down and no agreement is pending: the subworkers are
\* told, then the end of the shutdown is announced, again at every call.
AgbotNoWork ==
  /\ "AgBot" \in workers /\ Idle("AgBot") /\ shutdownStarted
  /\ loop' = [loop EXCEPT !["AgBot"] = "quiesce"]
  /\ UNCHANGED <<wireVars, cmds, deferred, outbox, sub, termChan, essCleanedUp, shuttingDownCmd, shutdownStarted,
                 nodeShutdown, nodeVars, unconfigs, work>>
AgbotQuiesce ==
  /\ "AgBot" \in workers /\ loop["AgBot"] = "quiesce" /\ TerminateSubworkers("AgBot")
  /\ outbox' = SelfSend("AgBot", "AGBOT_QUIESCE_COMPLETE") /\ loop' = [loop EXCEPT !["AgBot"] = "send"]
  /\ UNCHANGED <<wireVars, cmds, deferred, sub, essCleanedUp, shuttingDownCmd, shutdownStarted,
                 nodeShutdown, nodeVars, unconfigs, work>>

-----------------------------------------------------------------------------
(* The nodeShutdown goroutine of governance.                                 *)

NodeShutdownStep(i, from, to) ==
  /\ nodeShutdown[i] = from /\ nodeShutdown' = [nodeShutdown EXCEPT ![i] = to]
  /\ UNCHANGED <<wireVars, cmds, deferred, loop, sub, termChan, essCleanedUp, shuttingDownCmd,
                 shutdownStarted, newPattern, unconfigs, work>>

\* Cancels every agreement that is not yet terminated, then waits for them to be archived.
TerminateAllAgreements(i) ==
  /\ NodeShutdownStep(i, "agreements", "wait agreements")
  /\ IF ag.state = "live"
     THEN ag' = [ag EXCEPT !.state = "ending"] /\ outbox' = GoSend("Governance", <<"GOV_AGREEMENT_ENDED">>)
     ELSE UNCHANGED <<ag, outbox>>
  /\ UNCHANGED <<msi, device>>

\* The change feed is stopped, unless the node is to be registered again with the new pattern;
\* in that case the shutdown goes on only if the exchange takes the new pattern.
StopChanges(i) ==
  /\ ag.state = "archived"
  /\ \/ /\ ~newPattern /\ NodeShutdownStep(i, "wait agreements", "services")
        /\ outbox' = GoSend("Governance", <<"MESSAGE_STOP">>)
     \/ /\ newPattern /\ NodeShutdownStep(i, "wait agreements", "services") /\ UNCHANGED outbox
     \/ /\ newPattern /\ NodeShutdownStep(i, "wait agreements", "returned") /\ UNCHANGED outbox
  /\ UNCHANGED <<ag, msi, device>>

TerminateMicroservices(i) ==
  /\ NodeShutdownStep(i, "services", "wait services")
  /\ IF msi = "up"
     THEN msi' = "cleaning" /\ outbox' = GoSend("Governance", <<"CANCEL_MICROSERVICE">>)
     ELSE UNCHANGED <<msi, outbox>>
  /\ UNCHANGED <<ag, device>>

\* Mutant: the services are told to stop, but not waited for.
CompleteShutdownAtOnce(i) ==
  /\ NodeShutdownStep(i, "wait services", "returned")
  /\ device' = newPattern
  /\ outbox' = GoSend("Governance", <<"UNCONFIGURE_COMPLETE">>)
  /\ UNCHANGED <<ag, msi>>

\* The local records are deleted (kept, unconfigured, for a new pattern) and the end announced.
CompleteShutdown(i) ==
  /\ msi = "gone" /\ NodeShutdownStep(i, "wait services", "returned")
  /\ device' = newPattern
  /\ outbox' = GoSend("Governance", <<"UNCONFIGURE_COMPLETE">>)
  /\ UNCHANGED <<ag, msi>>

\* completedWithError: no device record, or a step whose failure ends the shutdown.
CompletedWithError(i) ==
  /\ \/ NodeShutdownStep(i, "error", "returned")
     \/ NodeShutdownStep(i, "agreements", "returned") \/ NodeShutdownStep(i, "services", "returned")
  /\ outbox' = GoSend("Governance", <<"UNCONFIGURE_COMPLETE">>)
  /\ UNCHANGED <<ag, msi, device>>

\* externalTermination's goroutine: the protocol part of the cleanup, reported as a command.
ExternalTermination ==
  /\ "Governance" \in workers /\ ag.state = "ending" /\ "protocol" \notin ag.done
  /\ ~ \E i \in DOMAIN cmds["Governance"] : cmds["Governance"][i].name = "CleanupStatusProtocol"
  /\ Room("Governance", 1) /\ cmds' = Queue("Governance", <<Cmd("CleanupStatusProtocol")>>)
  /\ UNCHANGED <<wireVars, deferred, loop, outbox, sub, termChan, essCleanedUp, shuttingDownCmd,
                 shutdownStarted, nodeShutdown, nodeVars, unconfigs, work>>

-----------------------------------------------------------------------------
(* The dispatcher.                                                           *)

dispatchVars == <<workers, deferred, sub, termChan, shuttingDownCmd, shutdownStarted, nodeShutdown,
                  nodeVars, unconfigs, work>>

\* eventHandler: NewEvent of every registered worker.  The dispatcher blocks while the channel of
\* one of them is full; nothing else is dispatched meanwhile, so the order of the calls is not seen.
EventHandler(e, ob, lp) ==
  LET stops == {w \in registry : ApiStop(w, e)} IN
  /\ \A w \in registry : Room(w, Len(Commands(w, e)))
  /\ cmds' = [w \in workers |-> IF w \in registry THEN cmds[w] \o Commands(w, e) ELSE cmds[w]]
  /\ essCleanedUp' = (essCleanedUp \/ (e = "ESS_UNCONFIG" /\ "Governance" \in registry))
  /\ outbox' = [w \in workers |-> IF w \in stops THEN Append(ob[w], [ev |-> "WORKER_STOP", self |-> FALSE]) ELSE ob[w]]
  /\ loop' = [w \in workers |-> IF w \in stops THEN "stop" ELSE lp[w]]
  /\ UNCHANGED registry

\* A pass of mux over the registered workers takes at most one message from each of them; the
\* messages are then handled one after the other, so a pass is a sequence of these steps.
Dispatch(w) ==
  /\ w \in registry /\ outbox[w] # <<>>
  /\ LET m == Head(outbox[w])
         ob == [outbox EXCEPT ![w] = Tail(@)]
         lp == IF m.self /\ loop[w] = "send" THEN [loop EXCEPT ![w] = "run"] ELSE loop
     IN IF m.ev = "WORKER_STOP"
        THEN registry' = registry \ {w} /\ outbox' = ob /\ loop' = lp /\ UNCHANGED <<cmds, essCleanedUp>>
        ELSE EventHandler(m.ev, ob, lp)
  /\ UNCHANGED dispatchVars

-----------------------------------------------------------------------------
(* What reaches the bus from outside.                                        *)

outsideVars == <<workers, registry, cmds, deferred, sub, termChan,
                 essCleanedUp, shuttingDownCmd, shutdownStarted, nodeShutdown, nodeVars>>

\* DELETE /node of the API: the handler is a goroutine of the HTTP server.
ApiUnconfigure ==
  /\ "API" \in workers /\ unconfigs + work < MaxArrivals[workers] /\ unconfigs' = unconfigs + 1
  /\ outbox' = GoSend("API", <<"START_UNCONFIGURE">>)
  /\ UNCHANGED <<outsideVars, loop, work>>

\* The exchange answers 401 to the change feed: every poll that does publishes START_UNCONFIGURE.
HeartbeatUnauthorized ==
  /\ "ExchangeChanges" \in workers /\ loop["ExchangeChanges"] = "run"
  /\ unconfigs + work < MaxArrivals[workers] /\ unconfigs' = unconfigs + 1
  /\ outbox' = SelfSend("ExchangeChanges", "START_UNCONFIGURE")
  /\ loop' = [loop EXCEPT !["ExchangeChanges"] = "send"]
  /\ UNCHANGED <<outsideVars, work>>

\* Any other event a worker publishes by itself, from one of its goroutines.
Arrive(w) ==
  /\ w \in DOMAIN Arrivals /\ work < MaxWork[workers] /\ unconfigs + work < MaxArrivals[workers] /\ work' = work + 1
  /\ \E e \in Arrivals[w] : outbox' = GoSend(w, <<e>>)
  /\ UNCHANGED <<outsideVars, loop, unconfigs>>

\* A worker that writes to TermChan of a subworker which is gone, and of which it does not know that
\* it is, while the places are taken: it never goes on.
Stuck(w) ==
  /\ loop[w] = "quiesce" \/ (loop[w] = "run" /\ cmds[w] # <<>> /\ Head(cmds[w]).name \in {"BeginShutdown", "NodeShutdown"})
  /\ \E s \in Subs(w) : sub[w][s] \in {"quit", "gone"} /\ termChan[w][s] = TermPlaces[workers]

\* The process has ended, or nobody has asked it to and it may have nothing to do; a shutdown for
\* a changed pattern that the exchange refuses is left halfway.
BusDone == (registry = {} \/ unconfigs = 0 \/ (\E w \in workers : Stuck(w)) \/ (newPattern /\ \E i \in DOMAIN nodeShutdown : nodeShutdown[i] = "returned")) /\ UNCHANGED busVars

NodeShutdown(i) == \/ TerminateAllAgreements(i) \/ StopChanges(i) \/ TerminateMicroservices(i)
                   \/ CompleteShutdown(i) \/ CompletedWithError(i)

WorkerStep(w) == \/ HandleCommand(w) \/ RequeueDeferredCommands(w)
                 \/ \E s \in Subs(w) : SubWorkerQuit(w, s) \/ SubWorkerReports(w, s)

BusNext ==
  \/ \E w \in workers : WorkerStep(w) \/ Dispatch(w) \/ Arrive(w)
  \/ \E i \in 1 .. MaxArrivals[workers] : GovernanceNoWork(i) \/ NodeShutdown(i)
  \/ AgbotNoWork \/ AgbotQuiesce \/ ExternalTermination
  \/ ApiUnconfigure \/ HeartbeatUnauthorized
  \/ BusDone

\* Every goroutine that can go on does: the dispatcher polls all registered workers in every
\* pass, a worker's loop handles its channel and requeues what it deferred, subworkers read their
\* quit channel after each of their bounded runs, and the idle handlers are called on a timer.
AllWorkers == UNION WorkerSets
BusFairness ==
  /\ \A w \in AllWorkers : /\ WF_busVars(w \in workers /\ Dispatch(w))
                           /\ WF_busVars(w \in workers /\ (HandleCommand(w) \/ RequeueDeferredCommands(w)))
  /\ \A w \in DOMAIN SubWorkers : \A s \in SubWorkers[w] : /\ WF_busVars(w \in workers /\ SubWorkerQuit(w, s))
                                                           /\ WF_busVars(w \in workers /\ SubWorkerReports(w, s))
  /\ \A i \in UNION {1 .. MaxArrivals[ws] : ws \in WorkerSets} :
        WF_busVars(i \in DOMAIN nodeShutdown /\ (GovernanceNoWork(i) \/ NodeShutdown(i)))
  /\ WF_busVars(ExternalTermination) /\ WF_busVars(AgbotNoWork \/ AgbotQuiesce)

BusSpec == BusInit /\ [][BusNext]_busVars /\ BusFairness

-----------------------------------------------------------------------------
(* Properties.                                                               *)

BusTypeOK ==
  /\ registry \subseteq workers
  /\ \A w \in workers : /\ Len(cmds[w]) <= CommandQueueSize[workers]
                        /\ loop[w] \in {"run", "send", "quiesce", "stop"}
                        /\ \A s \in Subs(w) : sub[w][s] \in {"run", "quit", "gone", "ended"} /\ termChan[w][s] \in 0 .. TermPlaces[workers]
  /\ ag.state \in {"live", "ending", "archived"} /\ ag.done \subseteq {"workload", "protocol"}
  /\ msi \in {"up", "cleaning", "gone"} /\ device \in BOOLEAN

\* A node's registration is removed from the local database only when its agreements are
\* archived and its services are gone, however many shutdowns run at the same time.
NothingLeftBehind == ~device => ag.state = "archived" /\ msi = "gone"

\* Once a node is told to unconfigure itself, every worker leaves the registry, so that the
\* process ends: no worker waits for a subworker, and no two wait for each other, forever.  The one
\* exception is a flaw of the code: when requests are queued, two more than a TermChan has places,
\* before the worker hears that a subworker is gone, the worker blocks for good on the channel that
\* nobody reads (for the shutdown of a pattern change see ShutdownAlwaysCompletes).
UnconfigureEnds == (unconfigs > 0 /\ ~newPattern) ~> (registry = {} \/ \E w \in workers : Stuck(w))

\* nodeShutdown "must put a shutdown complete message on the internal message bus before
\* returning": once it is started, the message is eventually delivered to governance, which
\* leaves the registry.
ShutdownAlwaysCompletes == (\E i \in 1 .. MaxArrivals[workers] : nodeShutdown[i] # "off") ~> ("Governance" \notin registry)
=============================================================================
