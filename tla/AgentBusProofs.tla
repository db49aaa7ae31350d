--------------------------- MODULE AgentBusProofs ---------------------------
(***************************************************************************)
(* Proofs about the unconfiguration of a node that runs over the bus of    *)
(* the workers: however many shutdowns overlap, the registration of the    *)
(* node goes last.                                                         *)
(***************************************************************************)
EXTENDS AgentBus, TLAPS

-----------------------------------------------------------------------------
(* Unconfiguration: the registration goes last.                              *)

ShutdownSteps == {"off", "agreements", "wait agreements", "services", "wait services", "returned", "error"}

ShutdownTypes ==
  /\ nodeShutdown \in [1 .. MaxArrivals[workers] -> ShutdownSteps]
  /\ ag \in [state : {"live", "ending", "archived"}, done : SUBSET {"workload", "protocol"}]
  /\ msi \in {"up", "cleaning", "gone"}

\* Whoever goes on to the services has seen the agreements archived, and that stays
\* so although other shutdowns and the commands of governance go on.
PastAgreements ==
  \A i \in 1 .. MaxArrivals[workers] :
     nodeShutdown[i] \in {"services", "wait services"} => ag.state = "archived"

ShutdownInv == ShutdownTypes /\ PastAgreements /\ NothingLeftBehind

\* An agreement, once archived, and a service, once gone, stay so.
Onward == /\ workers' = workers
          /\ ag' \in [state : {"live", "ending", "archived"}, done : SUBSET {"workload", "protocol"}]
          /\ ag.state = "archived" => ag'.state = "archived"
          /\ msi' \in {"up", "cleaning", "gone"} /\ (msi = "gone" => msi' = "gone")

\* A step that leaves the goroutines and the registration alone.
LEMMA BusQuiet ==
  ASSUME ShutdownInv, Onward, UNCHANGED <<nodeShutdown, device>> PROVE ShutdownInv'
BY DEF ShutdownInv, Onward, ShutdownTypes, PastAgreements, NothingLeftBehind

\* A step of a nodeShutdown goroutine.
LEMMA BusStep ==
  ASSUME ShutdownInv, Onward, NEW i \in 1 .. MaxArrivals[workers], NEW to \in ShutdownSteps,
         nodeShutdown' = [nodeShutdown EXCEPT ![i] = to],
         to \in {"services", "wait services"} => ag'.state = "archived",
         device' = device \/ device' \/ (ag'.state = "archived" /\ msi' = "gone")
  PROVE  ShutdownInv'
BY DEF ShutdownInv, Onward, ShutdownTypes, PastAgreements, NothingLeftBehind

LEMMA CleanupStatusOnward ==
  ASSUME ShutdownTypes, NEW part \in {"workload", "protocol"}, CleanupStatus(part),
         workers' = workers, msi' = msi
  PROVE  Onward
BY DEF ShutdownTypes, CleanupStatus, Onward

\* A worker's commands.
LEMMA HandleCommandShutdown ==
  ASSUME ShutdownInv, NEW w \in workers, HandleCommand(w) PROVE ShutdownInv'
<1>1. UNCHANGED <<workers, nodeShutdown, device>>
  BY DEF HandleCommand, wireVars
<1>2. ShutdownTypes
  BY DEF ShutdownInv
<1>3. CASE UNCHANGED <<ag, msi>>
  BY <1>1, <1>2, <1>3, BusQuiet DEF Onward, ShutdownTypes
<1>4. PICK c : c = Head(cmds[w])
  OBVIOUS
<1>5. CASE HandleWorkerCommand(w, c)
  <2>1. CASE \E part \in {"workload", "protocol"} : CleanupStatus(part) /\ UNCHANGED msi
    BY <1>1, <1>2, <2>1, CleanupStatusOnward, BusQuiet
  <2>2. CASE ag.state = "live" /\ ag' = [ag EXCEPT !.state = "ending"] /\ UNCHANGED msi
    BY <1>1, <1>2, <2>2, BusQuiet DEF Onward, ShutdownTypes
  <2>3. CASE msi' = "gone" /\ UNCHANGED ag
    BY <1>1, <1>2, <2>3, BusQuiet DEF Onward, ShutdownTypes
  <2> QED
    BY <1>3, <1>5, <2>1, <2>2, <2>3 DEF HandleWorkerCommand
<1> QED
  BY <1>3, <1>4, <1>5 DEF HandleCommand

LEMMA NodeShutdownInv ==
  ASSUME ShutdownInv, NEW i \in 1 .. MaxArrivals[workers], NodeShutdown(i) PROVE ShutdownInv'
<1>1. ShutdownTypes /\ PastAgreements
  BY DEF ShutdownInv
<1>2. CASE TerminateAllAgreements(i)
  <2>1. Onward
    BY <1>1, <1>2 DEF TerminateAllAgreements, NodeShutdownStep, Onward, ShutdownTypes, wireVars
  <2>2. nodeShutdown' = [nodeShutdown EXCEPT ![i] = "wait agreements"] /\ device' = device
    BY <1>2 DEF TerminateAllAgreements, NodeShutdownStep
  <2> QED
    BY <2>1, <2>2, BusStep DEF ShutdownSteps
<1>3. CASE StopChanges(i)
  <2>1. Onward
    BY <1>1, <1>3 DEF StopChanges, NodeShutdownStep, Onward, ShutdownTypes, wireVars
  <2>2. /\ \E to \in {"services", "returned"} : nodeShutdown' = [nodeShutdown EXCEPT ![i] = to]
        /\ device' = device /\ ag'.state = "archived"
    BY <1>3 DEF StopChanges, NodeShutdownStep
  <2> QED
    BY <2>1, <2>2, BusStep DEF ShutdownSteps
<1>4. CASE TerminateMicroservices(i)
  <2>1. Onward
    BY <1>1, <1>4 DEF TerminateMicroservices, NodeShutdownStep, Onward, ShutdownTypes, wireVars
  <2>2. /\ nodeShutdown' = [nodeShutdown EXCEPT ![i] = "wait services"] /\ device' = device
        /\ ag'.state = "archived"
    BY <1>1, <1>4 DEF TerminateMicroservices, NodeShutdownStep, PastAgreements
  <2> QED
    BY <2>1, <2>2, BusStep DEF ShutdownSteps
<1>5. CASE CompleteShutdown(i)
  <2>1. Onward
    BY <1>1, <1>5 DEF CompleteShutdown, NodeShutdownStep, Onward, ShutdownTypes, wireVars
  <2>2. /\ nodeShutdown' = [nodeShutdown EXCEPT ![i] = "returned"]
        /\ ag'.state = "archived" /\ msi' = "gone"
    BY <1>1, <1>5 DEF CompleteShutdown, NodeShutdownStep, PastAgreements
  <2> QED
    BY <2>1, <2>2, BusStep DEF ShutdownSteps
<1>6. CASE CompletedWithError(i)
  <2>1. Onward
    BY <1>1, <1>6 DEF CompletedWithError, NodeShutdownStep, Onward, ShutdownTypes, wireVars
  <2>2. nodeShutdown' = [nodeShutdown EXCEPT ![i] = "returned"] /\ device' = device
    BY <1>6 DEF CompletedWithError, NodeShutdownStep
  <2> QED
    BY <2>1, <2>2, BusStep DEF ShutdownSteps
<1> QED
  BY <1>2, <1>3, <1>4, <1>5, <1>6 DEF NodeShutdown

\* The registration of a node is removed only after its agreements are archived and
\* its services gone, for any workers, subworkers, size of the command channels and
\* number of shutdowns at the same time (nodeShutdown, NoWorkHandler of governance).
THEOREM UnconfigureLeavesNothing == BusSpec => []NothingLeftBehind
<1>1. BusInit => ShutdownInv
  <2> SUFFICES ASSUME BusInit PROVE ShutdownInv
    OBVIOUS
  <2>1. nodeShutdown = [i \in 1 .. MaxArrivals[workers] |-> "off"] /\ device = TRUE
    BY DEF BusInit
  <2>2. PICK st \in {"archived", "live"} : ag = [state |-> st, done |-> {}]
    BY DEF BusInit
  <2>3. msi \in {"up", "gone"}
    BY DEF BusInit
  <2>4. ag \in [state : {"live", "ending", "archived"}, done : SUBSET {"workload", "protocol"}]
    BY <2>2
  <2>5. ShutdownTypes
    BY <2>1, <2>3, <2>4 DEF ShutdownTypes, ShutdownSteps
  <2>6. PastAgreements
    BY <2>1 DEF PastAgreements
  <2>7. NothingLeftBehind
    BY <2>1 DEF NothingLeftBehind
  <2> QED
    BY <2>5, <2>6, <2>7 DEF ShutdownInv
<1>2. ShutdownInv /\ [BusNext]_busVars => ShutdownInv'
  <2> SUFFICES ASSUME ShutdownInv, [BusNext]_busVars PROVE ShutdownInv'
    OBVIOUS
  <2>1. ShutdownTypes
    BY DEF ShutdownInv
  <2>2. CASE UNCHANGED <<workers, nodeShutdown, ag, msi, device>>
    BY <2>1, <2>2, BusQuiet DEF Onward, ShutdownTypes
  <2>3. ASSUME NEW w \in workers, WorkerStep(w) \/ Dispatch(w) \/ Arrive(w) PROVE ShutdownInv'
    <3>1. CASE HandleCommand(w)
      BY <3>1, HandleCommandShutdown
    <3>2. CASE RequeueDeferredCommands(w) \/ \E s \in Subs(w) : SubWorkerQuit(w, s) \/ SubWorkerReports(w, s)
      BY <2>2, <3>2 DEF RequeueDeferredCommands, SubWorkerQuit, SubWorkerReports, wireVars, nodeVars
    <3>3. CASE Dispatch(w) \/ Arrive(w)
      BY <2>2, <3>3 DEF Dispatch, Arrive, dispatchVars, outsideVars, nodeVars
    <3> QED
      BY <2>3, <3>1, <3>2, <3>3 DEF WorkerStep
  <2>4. ASSUME NEW i \in 1 .. MaxArrivals[workers], GovernanceNoWork(i) PROVE ShutdownInv'
    <3>1. Onward /\ UNCHANGED device
      BY <2>1, <2>4 DEF GovernanceNoWork, Onward, ShutdownTypes, wireVars, nodeVars
    <3>2. \E to \in {"agreements", "error"} : nodeShutdown' = [nodeShutdown EXCEPT ![i] = to]
      BY <2>4 DEF GovernanceNoWork
    <3> QED
      BY <3>1, <3>2, BusStep DEF ShutdownSteps
  <2>5. CASE AgbotNoWork \/ AgbotQuiesce \/ ExternalTermination \/ ApiUnconfigure \/ HeartbeatUnauthorized \/ BusDone
    BY <2>2, <2>5 DEF AgbotNoWork, AgbotQuiesce, ExternalTermination, ApiUnconfigure, HeartbeatUnauthorized, BusDone,
       wireVars, nodeVars, outsideVars, busVars
  <2>6. CASE UNCHANGED busVars
    BY <2>2, <2>6 DEF busVars
  <2> QED
    BY <2>3, <2>4, <2>5, <2>6, NodeShutdownInv DEF BusNext
<1>3. ShutdownInv => NothingLeftBehind
  BY DEF ShutdownInv
<1> QED
  BY <1>1, <1>2, <1>3, PTL DEF BusSpec

=============================================================================
