----------------------------- MODULE NodeConfig -----------------------------
(***************************************************************************)
(* Registration and unregistration of a node: the requests of the agent's  *)
(* API on /node and /node/configstate, governance's nodeShutdown and its   *)
(* reaction to a new pattern, and the agreement worker that notices it.    *)
(*                                                                         *)
(* Requests are goroutines of the HTTP server.  Each reads the device      *)
(* record, talks to the exchange, and then writes the record back through  *)
(* updateExchangeDevice, which writes every field of the copy that was     *)
(* read: no lock is held between the two.                                  *)
(***************************************************************************)
EXTENDS Naturals, Sequences

CONSTANTS
  Requests,       \* the API requests that may be under way at the same time
  Patterns,
  MaxDisturbances \* bound: changes of the pattern, stops, refusals and other writers, together

ASSUME ConfigAssumption == MaxDisturbances \in Nat

VARIABLES
  db,             \* the local database: [device, tables], tables the other ones that are not empty
  exch,           \* the node in the exchange, what is read back of it: [pattern, userInput]
  savedPattern,   \* NODE_EXCH_PATTERN: the new pattern a shutdown is for
  request,        \* [Requests -> [op, copy, pattern, todo]]: what a request has read, the tables it has still to save
  pendingSaves,        \* tables that another worker, or a request on another path, is about to save
  token,          \* the feed of changes has the node's token
  unconfiguring,  \* api.Unconfiguring
  complete,       \* what UNCONFIGURE_COMPLETE ended: "no" (not sent), "clean", "pattern", "error"
  devicePattern,  \* the agreement worker's idea of the pattern
  govQueue,       \* commands for governance
  shutdown,       \* the nodeShutdown goroutine: [step, copy, pattern]
  rereg,          \* changeNodePattern in governance: [step, copy, pattern]
  crossed,        \* history: a writer came too late for the shutdown, see Late and Unannounced
  disturbances

configVars == <<db, exch, savedPattern, request, pendingSaves, token, unconfiguring, complete, devicePattern,
                govQueue, shutdown, rereg, crossed, disturbances>>

NoPattern == "none"
NoDevice == [state |-> "none", pattern |-> NoPattern, token |-> "none"]
IdleRequest == [op |-> "idle", copy |-> NoDevice, pattern |-> NoPattern, todo |-> <<>>]
IdleShutdown == [step |-> 0, copy |-> NoDevice, pattern |-> NoPattern]
IdleRereg == [step |-> "off", copy |-> NoDevice, pattern |-> NoPattern]

\* The tables and files of a registered node, beside the device record.
Tables == {"attributes", "policyFiles", "nodePolicy", "policyTime", "userInput", "inputHash", "changeState"}
EmptyDatabase == [device |-> NoDevice, tables |-> {}]
\* The exchange's node before it is registered: it exists (hzn or an administrator created it).
NewExchangeNode(p) == [pattern |-> p, userInput |-> TRUE]

ConfigInit ==
  /\ db = EmptyDatabase /\ \E p \in Patterns \cup {NoPattern} : exch = NewExchangeNode(p)
  /\ savedPattern = NoPattern
  /\ request = [r \in Requests |-> IdleRequest]
  /\ pendingSaves = {} /\ token = FALSE
  /\ unconfiguring = FALSE /\ complete = "no" /\ devicePattern = NoPattern
  /\ govQueue = <<>> /\ shutdown = IdleShutdown /\ rereg = IdleRereg /\ crossed = FALSE
  /\ disturbances = 0

-----------------------------------------------------------------------------
(* The device record.                                                        *)

FindExchangeDevice == db.device

\* Writes the caller's copy, changed, over the record: the check that the record is still there
\* is the only one made in the transaction (the error is returned to the caller).
UpdateExchangeDevice(new) == IF db.device = NoDevice THEN db ELSE [db EXCEPT !.device = new]

SetExchangeDeviceToken(copy, t) == UpdateExchangeDevice([copy EXCEPT !.token = t])
SetConfigstate(copy, st) == UpdateExchangeDevice([copy EXCEPT !.state = st])
SetPattern(copy, p) == UpdateExchangeDevice([copy EXCEPT !.pattern = p])

\* The check for a duplicate looks for the node's name, and records are stored under another key.
SaveNewExchangeDevice(p, t) ==
  [db EXCEPT !.device = [state |-> "configuring", pattern |-> p, token |-> t]]

-----------------------------------------------------------------------------
(* The steps of a shutdown, in their order; the device record and each table *)
(* is a transaction of its own.                                              *)

UnregisterSteps == <<"clear", "agreements", "exchange", "services", "attributes", "policyFiles", "device",
                     "nodePolicy", "policyTime", "userInput", "inputHash", "changeState", "volumes", "announce">>
PatternSteps == <<"clear", "agreements", "exchange", "pattern", "services", "policyFiles", "state", "update", "volumes",
                  "announce">>
ShutdownSteps == IF shutdown.pattern = NoPattern THEN UnregisterSteps ELSE PatternSteps

\* A shutdown is asked for, or under way.
ShuttingDown == shutdown.step > 0 \/ \E i \in DOMAIN govQueue : govQueue[i] = "shutdown"
\* One that was not asked for through DELETE /node: the API does not know of it.
Unannounced == ShuttingDown /\ ~unconfiguring
\* The unregistration has deleted the table.
Deleted(t) == \/ complete = "clean"
              \/ shutdown.pattern = NoPattern /\ \E i \in 1 .. (shutdown.step - 1) : UnregisterSteps[i] = t
\* A table saved after the unregistration deleted it stays.
Late(t) == crossed' = (crossed \/ Deleted(t))
\* A registration under way is not stopped by a shutdown that is asked for.
Asked == crossed' = (crossed \/ \E r \in Requests : request[r].op = "create")

SaveTable(t) == [db EXCEPT !.tables = @ \cup {t}]

-----------------------------------------------------------------------------
(* Requests.                                                                 *)

\* Bound on what happens to the node beside its requests and its shutdown.
Disturb == disturbances < MaxDisturbances /\ disturbances' = disturbances + 1

requestVars == <<savedPattern, pendingSaves, shutdown, rereg, complete, disturbances>>
beginVars == <<requestVars, db, exch, token, devicePattern, unconfiguring, govQueue>>

Begin(r, op, copy, p, todo) ==
  request' = [request EXCEPT ![r] = [op |-> op, copy |-> copy, pattern |-> p, todo |-> todo]]
End(r) == request' = [request EXCEPT ![r] = IdleRequest]

\* Mutant: a node that is being unconfigured may be registered again at once.
CreateHorizonDeviceAnytime(r, input) ==
  /\ request[r].op = "idle" /\ complete = "no" /\ FindExchangeDevice = NoDevice
  /\ exch.pattern # NoPattern /\ input # NoPattern => input = exch.pattern
  /\ Begin(r, "create", NoDevice, IF exch.pattern # NoPattern THEN exch.pattern ELSE input, <<>>)
  /\ crossed' = (crossed \/ Unannounced) /\ UNCHANGED beginVars

\* POST /node, up to the calls to the exchange: the pattern is the request's, or the exchange's.
CreateHorizonDevice(r, input) ==
  /\ request[r].op = "idle" /\ complete = "no" /\ FindExchangeDevice = NoDevice /\ ~unconfiguring
  /\ exch.pattern # NoPattern /\ input # NoPattern => input = exch.pattern
  /\ Begin(r, "create", NoDevice, IF exch.pattern # NoPattern THEN exch.pattern ELSE input, <<>>)
  /\ crossed' = (crossed \/ Unannounced) /\ UNCHANGED beginVars

\* The record is saved; the calls to the exchange that follow may still fail.
CreateSave(r) ==
  /\ request[r].op = "create"
  /\ db' = SaveNewExchangeDevice(request[r].pattern, r)
  /\ Begin(r, "setup", NoDevice, request[r].pattern,
           <<"nodePolicy", "policyTime">> \o (IF exch.userInput THEN <<"userInput", "inputHash">> ELSE <<>>))
  /\ UNCHANGED <<requestVars, exch, token, devicePattern, unconfiguring, govQueue, crossed>>

\* The initial setup of node policy and user input, and the configuration of services, save one
\* table after the other.
RequestSaves(r) ==
  /\ request[r].todo # <<>>
  /\ db' = SaveTable(Head(request[r].todo)) /\ Late(Head(request[r].todo))
  /\ request' = [request EXCEPT ![r].todo = Tail(@)]
  /\ UNCHANGED <<requestVars, exch, token, devicePattern, unconfiguring, govQueue>>

\* NEW_DEVICE_REG: the workers are told, and the node goes to the exchange.
CreateAnnounce(r) ==
  /\ request[r].op = "setup" /\ request[r].todo = <<>>
  /\ exch' = [exch EXCEPT !.pattern = request[r].pattern]
  /\ devicePattern' = request[r].pattern /\ token' = TRUE
  /\ govQueue' = IF savedPattern # NoPattern THEN Append(govQueue, "rereg") ELSE govQueue
  /\ End(r) /\ UNCHANGED <<requestVars, db, unconfiguring, crossed>>

\* PATCH /node, for a new token.
UpdateHorizonDevice(r) ==
  /\ request[r].op = "idle" /\ FindExchangeDevice.state = "configuring"
  /\ Begin(r, "patch", FindExchangeDevice, NoPattern, <<>>) /\ UNCHANGED <<beginVars, crossed>>

UpdateSave(r) ==
  /\ request[r].op = "patch" /\ db' = SetExchangeDeviceToken(request[r].copy, r) /\ End(r)
  /\ UNCHANGED <<requestVars, exch, token, devicePattern, unconfiguring, govQueue, crossed>>

ValidStateChange(from, to) == from = "configuring" /\ to = "configured"

\* PUT /node/configstate, up to the calls to the exchange that resolve the pattern's services.
UpdateConfigstate(r) ==
  /\ request[r].op = "idle" /\ ValidStateChange(FindExchangeDevice.state, "configured")
  /\ Begin(r, "configure", FindExchangeDevice, NoPattern, <<"attributes", "policyFiles">>)
  /\ UNCHANGED <<beginVars, crossed>>

\* A call to the exchange fails, or getSpecRefsForPattern finds a service that needs privilege
\* or input the node lacks, another architecture or no common version range: the request ends
\* where it is, and what it saved stays.
RequestRefused(r) ==
  /\ request[r].op # "idle" /\ Disturb /\ End(r)
  /\ UNCHANGED <<savedPattern, pendingSaves, shutdown, rereg, complete,
                 db, exch, token, devicePattern, unconfiguring, govQueue, crossed>>

\* configureService registered the services; the state is written and the node advertised.
ConfigstateSave(r) ==
  /\ request[r].op = "configure" /\ request[r].todo = <<>>
  /\ db' = SetConfigstate(request[r].copy, "configured") /\ End(r)
  /\ UNCHANGED <<requestVars, exch, token, devicePattern, unconfiguring, govQueue, crossed>>

\* DELETE /node, up to its write.
DeleteHorizonDevice(r) ==
  /\ request[r].op = "idle" /\ FindExchangeDevice.state \in {"configured", "configuring"}
  /\ Begin(r, "delete", FindExchangeDevice, NoPattern, <<>>) /\ UNCHANGED <<beginVars, crossed>>

DeleteSave(r) ==
  /\ request[r].op = "delete" /\ End(r)
  /\ IF db.device = NoDevice THEN UNCHANGED <<db, unconfiguring, govQueue, crossed>>
     ELSE /\ db' = SetConfigstate(request[r].copy, "unconfiguring")
          /\ unconfiguring' = TRUE /\ govQueue' = Append(govQueue, "shutdown") /\ Asked
  /\ UNCHANGED <<requestVars, exch, token, devicePattern>>

-----------------------------------------------------------------------------
(* The other writers: the agreement worker synchronizes node policy and user *)
(* input, requests on other paths save them and attributes, and the feed     *)
(* saves its position.  None holds a lock that the shutdown takes, and       *)
(* MESSAGE_STOP is only a command in the queue of the feed's worker.         *)

writerVars == <<exch, savedPattern, request, token, unconfiguring, complete, devicePattern, shutdown, rereg>>

\* The writer has found the node registered (the feed: has its token), and calls the exchange.
WriterReads(ts) ==
  /\ Disturb
  /\ IF ts = {"changeState"} THEN token ELSE db.device # NoDevice
  /\ pendingSaves' = pendingSaves \cup ts
  /\ UNCHANGED <<writerVars, db, govQueue, crossed>>

WriterSaves(t) ==
  /\ t \in pendingSaves /\ pendingSaves' = pendingSaves \ {t}
  /\ db' = SaveTable(t) /\ Late(t)
  /\ UNCHANGED <<writerVars, govQueue, disturbances>>

Written == {{"nodePolicy", "policyTime"}, {"userInput", "inputHash"}, {"attributes"}, {"changeState"}}

\* The exchange refuses the feed's poll (401): the feed asks for a shutdown, of which neither
\* the device record nor the API is told.
HeartbeatRefused ==
  /\ token /\ Disturb
  /\ govQueue' = Append(govQueue, "shutdown") /\ Asked
  /\ UNCHANGED <<writerVars, db, pendingSaves>>

-----------------------------------------------------------------------------
(* The node shuts down.  A step is one call of nodeShutdown.  What fails on  *)
(* the exchange is logged; what fails locally ends the shutdown with an      *)
(* announcement that carries the error.                                      *)

\* The exchange's node is cleared, so that no agbot finds it; user input is kept for a new pattern.
ClearNodePatternAndMS(keepUI) == exch' = [pattern |-> NoPattern, userInput |-> exch.userInput /\ keepUI]
PatchNodePattern(p) == exch' = [exch EXCEPT !.pattern = p]
DeleteTable(t) == db' = [db EXCEPT !.tables = @ \ {t}]
DeleteExchangeDevice == db' = [db EXCEPT !.device = NoDevice]
\* The two writes of updateHorizonDevice, which both use the record read at the start.
UpdateHorizonDeviceState == db' = SetConfigstate(shutdown.copy, "unconfigured")
UpdateHorizonDevicePattern == db' = SetPattern([shutdown.copy EXCEPT !.state = "unconfigured"], shutdown.pattern)

shutdownVars == <<request, pendingSaves, token, unconfiguring, devicePattern, savedPattern, rereg, govQueue, crossed, disturbances>>

ShutdownStep(name) ==
  /\ shutdown.step > 0 /\ ShutdownSteps[shutdown.step] = name
  /\ shutdown' = [shutdown EXCEPT !.step = IF name = "announce" THEN 0 ELSE @ + 1]
  /\ UNCHANGED shutdownVars

\* The steps on the exchange's node: without access (401) or with an error they are skipped.
\* "exchange" stands for the node's management statuses, its key and its errors.
ExchangeStep ==
  /\ \/ ShutdownStep("clear") /\ (ClearNodePatternAndMS(shutdown.pattern # NoPattern) \/ UNCHANGED exch)
     \/ ShutdownStep("exchange") /\ UNCHANGED exch
     \/ ShutdownStep("pattern") /\ PatchNodePattern(shutdown.pattern)
  /\ UNCHANGED <<db, complete>>

\* Agreements and services are ended, and waited for.
AgreementStep ==
  (ShutdownStep("agreements") \/ ShutdownStep("services")) /\ UNCHANGED <<db, exch, complete>>

LocalStep ==
  /\ \/ \E t \in Tables : ShutdownStep(t) /\ DeleteTable(t)
     \/ ShutdownStep("device") /\ DeleteExchangeDevice
     \/ ShutdownStep("state") /\ UpdateHorizonDeviceState
     \/ ShutdownStep("update") /\ UpdateHorizonDevicePattern
     \/ ShutdownStep("volumes") /\ UNCHANGED db
  /\ UNCHANGED <<exch, complete>>

AnnounceStep ==
  /\ ShutdownStep("announce") /\ complete' = (IF shutdown.pattern = NoPattern THEN "clean" ELSE "pattern")
  /\ UNCHANGED <<db, exch>>

\* completedWithError: a local step fails and the end is announced with what is left in place.
\* If the new pattern cannot be written to the exchange nothing is announced at all.
CompletedWithError ==
  /\ shutdown.step > 0
  /\ ShutdownSteps[shutdown.step] \in Tables \cup {"agreements", "services", "device", "state", "update", "volumes", "pattern"}
  /\ complete' = IF ShutdownSteps[shutdown.step] = "pattern" THEN complete ELSE "error"
  /\ shutdown' = [shutdown EXCEPT !.step = 0]
  /\ UNCHANGED <<shutdownVars, db, exch>>

-----------------------------------------------------------------------------
(* Governance.                                                               *)

govVars == <<request, pendingSaves, token, devicePattern, unconfiguring, disturbances>>

\* The shutdown goroutine starts; without a record, or if the database cannot be read, it only
\* announces its end, as an error.
NodeShutdownBegin ==
  /\ rereg.step = "off" /\ govQueue # <<>> /\ Head(govQueue) = "shutdown" /\ shutdown.step = 0
  /\ govQueue' = Tail(govQueue)
  /\ \/ complete' = "error" /\ UNCHANGED shutdown
     \/ /\ db.device # NoDevice /\ UNCHANGED complete
        /\ shutdown' = [step |-> 1, copy |-> db.device, pattern |-> savedPattern]
  /\ UNCHANGED <<govVars, db, exch, savedPattern, rereg, crossed>>

\* handleNodeExchPatternChanged(shutdown): the new pattern is validated; a bad one is forgotten.
PatternChanged(valid) ==
  /\ rereg.step = "off" /\ govQueue # <<>> /\ Head(govQueue) = "pattern" /\ db.device # NoDevice
  /\ IF ~valid
     THEN savedPattern' = NoPattern /\ govQueue' = Tail(govQueue) /\ UNCHANGED <<db, crossed>>
     ELSE IF db.device.state = "unconfiguring"
     THEN govQueue' = Tail(govQueue) /\ UNCHANGED <<savedPattern, db, crossed>>
     ELSE /\ db' = SetConfigstate(db.device, "unconfiguring")
          /\ govQueue' = Append(Tail(govQueue), "shutdown") /\ Asked /\ UNCHANGED savedPattern
  /\ UNCHANGED <<govVars, exch, complete, shutdown, rereg>>

\* changeNodePattern: registers the node again, with the pattern the exchange has by now.
ChangeNodePattern ==
  /\ rereg.step = "off" /\ govQueue # <<>> /\ Head(govQueue) = "rereg"
  /\ govQueue' = Tail(govQueue)
  /\ rereg' = IF exch.pattern = NoPattern \/ db.device = NoDevice THEN rereg
              ELSE [step |-> "set", copy |-> db.device, pattern |-> exch.pattern]
  /\ UNCHANGED <<govVars, db, exch, savedPattern, complete, shutdown, crossed>>

ChangeNodePatternSet ==
  /\ rereg.step = "set"
  /\ db' = SetPattern([rereg.copy EXCEPT !.state = "configuring"], rereg.pattern)
  /\ rereg' = [rereg EXCEPT !.step = "configure"]
  /\ UNCHANGED <<govVars, exch, savedPattern, complete, shutdown, govQueue, crossed>>

\* UpdateConfigstate, called by governance: policy files are written, then the state; an error
\* leaves the record as it is.
ChangeNodePatternFiles ==
  /\ rereg.step = "configure" /\ ValidStateChange(db.device.state, "configured")
  /\ db' = SaveTable("policyFiles") /\ Late("policyFiles")
  /\ rereg' = [rereg EXCEPT !.step = "save", !.copy = db.device]
  /\ UNCHANGED <<govVars, exch, savedPattern, complete, shutdown, govQueue>>

ChangeNodePatternConfigure(ok) ==
  /\ rereg.step \in {"configure", "save"}
  /\ IF ok /\ rereg.step = "save"
     THEN db' = SetConfigstate(rereg.copy, "configured")
     ELSE UNCHANGED db
  /\ savedPattern' = NoPattern /\ rereg' = IdleRereg
  /\ UNCHANGED <<govVars, exch, complete, shutdown, govQueue, crossed>>

-----------------------------------------------------------------------------
(* The exchange, the agreement worker and the process.                       *)

\* An administrator changes the pattern of a registered node.
ExchangePatternChange(p) ==
  /\ Disturb
  /\ db.device # NoDevice /\ exch' = [exch EXCEPT !.pattern = p]
  /\ UNCHANGED <<db, savedPattern, request, pendingSaves, token, unconfiguring, complete, devicePattern, govQueue,
                 shutdown, rereg, crossed>>

\* checkNodePatternChanges of the agreement worker.
CheckNodePatternChanges ==
  /\ db.device # NoDevice /\ devicePattern # NoPattern /\ exch.pattern # NoPattern
  /\ devicePattern # exch.pattern /\ savedPattern = NoPattern
  /\ savedPattern' = exch.pattern /\ govQueue' = Append(govQueue, "pattern")
  /\ UNCHANGED <<db, exch, request, pendingSaves, token, unconfiguring, complete, devicePattern, shutdown, rereg,
                 crossed, disturbances>>

\* The process ends after UNCONFIGURE_COMPLETE, or crashes, and is started again: on init the
\* agreement worker asks for a registration if a new pattern was saved.
Restart ==
  /\ IF complete # "no" THEN UNCHANGED disturbances ELSE Disturb
  /\ request' = [r \in Requests |-> IdleRequest] /\ pendingSaves' = {} /\ token' = (db.device # NoDevice)
  /\ unconfiguring' = FALSE /\ complete' = "no"
  /\ devicePattern' = db.device.pattern
  /\ govQueue' = IF db.device # NoDevice /\ savedPattern # NoPattern THEN <<"rereg">> ELSE <<>>
  /\ shutdown' = IdleShutdown /\ rereg' = IdleRereg /\ crossed' = FALSE
  /\ UNCHANGED <<db, exch, savedPattern>>

Request(r) ==
  \/ \E p \in Patterns \cup {NoPattern} : CreateHorizonDevice(r, p)
  \/ CreateSave(r) \/ RequestSaves(r) \/ CreateAnnounce(r) \/ UpdateHorizonDevice(r) \/ UpdateSave(r)
  \/ UpdateConfigstate(r) \/ RequestRefused(r) \/ ConfigstateSave(r)
  \/ DeleteHorizonDevice(r) \/ DeleteSave(r)

ConfigNext ==
  \/ \E r \in Requests : Request(r)
  \/ \E ts \in Written : WriterReads(ts)
  \/ \E t \in Tables : WriterSaves(t)
  \/ HeartbeatRefused
  \/ NodeShutdownBegin \/ ExchangeStep \/ AgreementStep \/ LocalStep \/ AnnounceStep \/ CompletedWithError
  \/ \E valid \in BOOLEAN : PatternChanged(valid)
  \/ ChangeNodePattern \/ ChangeNodePatternSet \/ ChangeNodePatternFiles
  \/ \E ok \in BOOLEAN : ChangeNodePatternConfigure(ok)
  \/ \E p \in Patterns : ExchangePatternChange(p)
  \/ CheckNodePatternChanges \/ Restart

ConfigSpec == ConfigInit /\ [][ConfigNext]_configVars

-----------------------------------------------------------------------------
(* Properties.                                                               *)

\* When an unregistration announces its end without an error nothing of the node is left in the
\* database, wherever the process stopped before, whatever failed and whatever was registered in
\* between.  Excepted is what writers do that the shutdown does not wait for: a request or a worker
\* that found the node registered saves a table which the shutdown has already deleted; a
\* registration was under way when the shutdown was asked for, or began during a shutdown that
\* DELETE /node did not ask for (the exchange refused the node, or its pattern changed).
UnregisteredIsClean ==
  complete = "clean" /\ ~crossed => db = EmptyDatabase

\* The documentation of DELETE /node: "configstate will be changed to unconfiguring while the
\* agent quiesces, and then it will become unconfigured".  So nothing takes a node that is
\* unconfiguring back to work.
UnconfiguringIsFinal ==
  [][db.device.state = "unconfiguring" => db'.device.state \in {"unconfiguring", "unconfigured", "none"}]_configVars
=============================================================================
