------------------------------ MODULE NodeSync ------------------------------
(***************************************************************************)
(* The copies the agent keeps of the node policy and of the user input the *)
(* exchange holds.                                                         *)
(*                                                                         *)
(* The agreement worker copies a change it is told of; a request of the    *)
(* agent's API writes to the exchange first and copies the result back.  A *)
(* copy has a marker in the local database (the time of the last update of *)
(* the policy, a hash of the user input) that says which state of the      *)
(* exchange was copied.  Each of the two has a mutex; an administrator     *)
(* writes to the exchange without it, the node's unregistration deletes    *)
(* the copy and then the marker without it, and the process may stop       *)
(* between any two steps.                                                  *)
(***************************************************************************)
EXTENDS Naturals, Sequences, FiniteSets

CONSTANTS
  Deployments, Privileged,   \* contents of a deployment policy, and those that set allowPrivileged
  Inputs,                    \* values of the user input of a service
  Services,
  MaxWrites,                 \* bound on the writes to the exchange's policy (versions)
  MaxQueued,                 \* bound on the announcements under way when an operation starts
  MaxInputs, MaxStops        \* bounds on the changes of user input and on the restarts

VARIABLES
  xpol,       \* the exchange's node policy: [pol, ver]
  lpol, marker,      \* the local copy and the version that was copied (0: none)
  pmPolicy,          \* the deployment policy in the policy manager
  polLock,           \* holder of nodePolicyUpdateLock
  polActor,          \* [Actors -> [op, at, dep, got, code]]
  polEvents,         \* UPDATE_POLICY and DELETED_POLICY on their way to governance
  cancels,           \* governance cancelled the agreements for a policy change
  unregistering,     \* an unregistration has deleted the copy and not yet the marker
  markerLeft,        \* history: an unregistration deleted the copy, and its marker is, or will be, there
  xui, lui, hash,    \* user input: exchange, local copy, and the saved hash ({}: none)
  exchNode,          \* user input in the cached node of the exchange
  uiLock, uiActor, uiChanged,   \* and the services announced as changed
  versions, inputChanges, syncStops

policyVars == <<xpol, lpol, marker, pmPolicy, polLock, polActor, polEvents, cancels,
                unregistering, markerLeft, versions>>
inputVars == <<xui, lui, hash, exchNode, uiLock, uiActor, uiChanged, inputChanges>>
syncVars == <<policyVars, inputVars, syncStops>>

Actors == {"worker", "request"}
NoPolicy == [dep |-> "none", builtins |-> FALSE]
IdlePolicy == [op |-> "idle", at |-> "idle", dep |-> "none", got |-> [pol |-> NoPolicy, ver |-> 0], code |-> {}]
IdleInput == [op |-> "idle", at |-> "idle", new |-> "none", got |-> "none"]
Values == [Services -> Inputs \cup {"none"}]
NoInput == [s \in Services |-> "none"]

SyncInit ==
  /\ xpol = [pol |-> NoPolicy, ver |-> 0] /\ lpol = NoPolicy /\ marker = 0 /\ pmPolicy = "none"
  /\ polLock = "free" /\ polActor = [a \in Actors |-> IdlePolicy] /\ polEvents = <<>> /\ cancels = FALSE
  /\ unregistering = FALSE /\ markerLeft = FALSE /\ versions = 0
  /\ xui = NoInput /\ lui = NoInput /\ hash = {} /\ exchNode = NoInput
  /\ uiLock = "free" /\ uiActor = [a \in Actors |-> IdleInput] /\ uiChanged = {} /\ inputChanges = 0
  /\ syncStops = 0

-----------------------------------------------------------------------------
(* Node policy.                                                              *)

\* CompareWith: the codes of a change of the deployment policy.
CompareWith(old, new) ==
  IF old = new THEN {}
  ELSE {"changed"} \cup IF (old.dep \in Privileged) # (new.dep \in Privileged) THEN {"privileged"} ELSE {}

FindNodePolicy == lpol
GetNodePolicyLastUpdated == marker
SaveNodePolicy(p) == lpol' = p
SaveNodePolicyLastUpdated(v) == marker' = v
DeleteLocalNodePolicy == lpol' = NoPolicy
DeleteNodePolicyLastUpdated == marker' = 0

\* A write gives the exchange's policy a new time of last update.
PutExchangePolicy(p) ==
  /\ versions < MaxWrites /\ versions' = versions + 1
  /\ xpol' = [pol |-> p, ver |-> versions + 1]

At(a, step) == polActor[a].at = step
To(a, step) == polActor' = [polActor EXCEPT ![a].at = step]
Finish(a) == polActor' = [polActor EXCEPT ![a] = IdlePolicy]
AtExchange == UNCHANGED <<lpol, marker, pmPolicy, polLock, polEvents, cancels, unregistering, markerLeft>>
AtDatabase == UNCHANGED <<xpol, versions, pmPolicy, polEvents, cancels, unregistering>>

\* What starts: the worker's check after a notification, or a request.  A patch looks first
\* whether the exchange was changed; the initial setup puts the default if nothing is there.
ExchangeNodePolicyChanged == xpol.ver # marker

PolicyBegin(a, op, d) ==
  /\ At(a, "idle") /\ Len(polEvents) <= MaxQueued /\ AtExchange /\ UNCHANGED <<xpol, versions>>
  /\ polActor' = [polActor EXCEPT ![a] =
       [IdlePolicy EXCEPT !.op = op, !.dep = d, !.at =
          CASE op = "check" -> "lock"
            [] op = "setup" -> IF lpol = NoPolicy /\ xpol.pol = NoPolicy THEN "default" ELSE "lock"
            [] op = "update" -> "put"
            [] op = "patch" -> IF ExchangeNodePolicyChanged THEN "lock" ELSE "put"
            [] op = "delete" -> "lock"]]

CheckNodePolicyChanges == PolicyBegin("worker", "check", "none")
NodePolicyInitalSetup == PolicyBegin("request", "setup", "none")
UpdateNodePolicy(d) == PolicyBegin("request", "update", d)
PatchNodePolicy(d) == PolicyBegin("request", "patch", d)
DeleteNodePolicy == PolicyBegin("request", "delete", "none")

\* The default policy; without a file the marker is deleted first.
SetDefaultNodePolicy(a) ==
  /\ At(a, "default") /\ DeleteNodePolicyLastUpdated /\ To(a, "put")
  /\ UNCHANGED <<lpol, polLock, markerLeft>> /\ AtDatabase

\* The request's own write, with the built-in properties of the node.  A patch changes the local
\* copy it reads here; without one the request ends.
PutPolicy(a) ==
  /\ At(a, "put") /\ AtExchange
  /\ IF polActor[a].op = "patch" /\ FindNodePolicy = NoPolicy
     THEN Finish(a) /\ UNCHANGED <<xpol, versions>>
     ELSE /\ PutExchangePolicy([dep |-> polActor[a].dep, builtins |-> TRUE])
          /\ polActor' = [polActor EXCEPT ![a].at = "lock", ![a].op = "update"]

\* Mutant: the lock is not waited for.
LockAnyway(a) ==
  /\ At(a, "lock") /\ polLock' = a
  /\ To(a, IF polActor[a].op = "delete" THEN "delete" ELSE "get")
  /\ UNCHANGED <<lpol, marker, markerLeft>> /\ AtDatabase

Lock(a) ==
  /\ At(a, "lock") /\ polLock = "free" /\ polLock' = a
  /\ To(a, IF polActor[a].op = "delete" THEN "delete" ELSE "get")
  /\ UNCHANGED <<lpol, marker, markerLeft>> /\ AtDatabase

\* GetProcessedExchangeNodePolicy: built-in properties that are missing are put, and the policy
\* is read again (it may have been changed or deleted in between).
GetProcessed(a) ==
  /\ At(a, "get") /\ AtExchange
  /\ IF xpol.pol.builtins
     THEN polActor' = [polActor EXCEPT ![a].at = "save", ![a].got = xpol] /\ UNCHANGED <<xpol, versions>>
     ELSE PutExchangePolicy([xpol.pol EXCEPT !.builtins = TRUE]) /\ To(a, "reget")

GetAgain(a) ==
  /\ At(a, "reget") /\ AtExchange /\ UNCHANGED <<xpol, versions>>
  /\ polActor' = [polActor EXCEPT ![a].at = "save", ![a].got = xpol]

\* After a copy a patch goes on with its own write and forgets the codes of this copy.
AfterCopy(a) ==
  polActor' = IF polActor[a].op = "patch" THEN [polActor EXCEPT ![a].at = "put", ![a].code = {}]
              ELSE [polActor EXCEPT ![a].at = "announce"]

\* SyncNodePolicyWithExchange: the policy that was copied before is not copied again, ...
SyncUnchanged(a) ==
  /\ At(a, "save") /\ polActor[a].got.pol # NoPolicy /\ polActor[a].got.ver = GetNodePolicyLastUpdated
  /\ AfterCopy(a) /\ polLock' = "free" /\ UNCHANGED <<lpol, marker, markerLeft>> /\ AtDatabase

\* ... another one is saved, or the local copy deleted, ...
SyncSave(a) ==
  LET got == polActor[a].got IN
  /\ At(a, "save") /\ (got.pol = NoPolicy \/ got.ver # GetNodePolicyLastUpdated)
  /\ UNCHANGED <<marker, polLock>> /\ AtDatabase /\ markerLeft' = FALSE
  /\ IF got.pol = NoPolicy
     THEN /\ DeleteLocalNodePolicy
          /\ polActor' = [polActor EXCEPT ![a].at = "mark", ![a].code = IF lpol = NoPolicy THEN {} ELSE {"deleted"}]
     ELSE /\ SaveNodePolicy(got.pol)
          /\ polActor' = [polActor EXCEPT ![a].at = "mark", ![a].code = CompareWith(lpol, got.pol)]

\* ... and then the marker; the lock is released.
SyncMark(a) ==
  /\ At(a, "mark") /\ UNCHANGED <<lpol, markerLeft>> /\ AtDatabase /\ polLock' = "free" /\ AfterCopy(a)
  /\ IF polActor[a].got.pol = NoPolicy THEN DeleteNodePolicyLastUpdated ELSE SaveNodePolicyLastUpdated(polActor[a].got.ver)

\* DeleteNodePolicy, under the lock: the exchange, then the copy, then the marker.
DeletePolicyExchange(a) ==
  /\ At(a, "delete") /\ AtExchange /\ To(a, "deleteCopy")
  /\ IF xpol.pol = NoPolicy THEN UNCHANGED <<xpol, versions>>
     ELSE xpol' = [pol |-> NoPolicy, ver |-> 0] /\ UNCHANGED versions

DeletePolicyCopy(a) ==
  /\ At(a, "deleteCopy") /\ DeleteLocalNodePolicy /\ To(a, "deleteMarker")
  /\ UNCHANGED <<marker, polLock, markerLeft>> /\ AtDatabase

DeletePolicyMarker(a) ==
  /\ At(a, "deleteMarker") /\ DeleteNodePolicyLastUpdated /\ polLock' = "free"
  /\ polActor' = [polActor EXCEPT ![a].at = "announce", ![a].code = {"deleted"}]
  /\ UNCHANGED <<lpol, markerLeft>> /\ AtDatabase

\* nodeShutdown deletes the copy and then the marker, and takes no lock.  When the second
\* fails, or the process stops before it, the marker stays; a copy under way may save it again.
UnregisterCopy ==
  /\ ~unregistering /\ unregistering' = TRUE /\ DeleteLocalNodePolicy
  /\ markerLeft' = (markerLeft \/ marker # 0 \/ \E a \in Actors : At(a, "mark"))
  /\ UNCHANGED <<xpol, versions, marker, pmPolicy, polLock, polActor, polEvents, cancels>>

UnregisterMarker ==
  /\ unregistering /\ unregistering' = FALSE /\ DeleteNodePolicyLastUpdated
  /\ markerLeft' = (markerLeft /\ \E a \in Actors : At(a, "mark"))
  /\ UNCHANGED <<xpol, versions, lpol, pmPolicy, polLock, polActor, polEvents, cancels>>

UnregisterFails ==
  /\ unregistering /\ unregistering' = FALSE
  /\ UNCHANGED <<xpol, versions, lpol, marker, pmPolicy, polLock, polActor, polEvents, cancels, markerLeft>>

\* The worker announces a change, a request always does.
AnnouncePolicy(a) ==
  /\ At(a, "announce") /\ Finish(a)
  /\ polEvents' = IF a = "worker" /\ polActor[a].code = {} THEN polEvents ELSE Append(polEvents, polActor[a].code)
  /\ UNCHANGED <<xpol, versions, lpol, marker, pmPolicy, polLock, cancels, unregistering, markerLeft>>

\* Governance: the policy manager takes the local copy as it is by now.
HandleNodePolicyUpdateForDeployment(code) ==
  /\ pmPolicy' = IF "deleted" \in code THEN "none" ELSE FindNodePolicy.dep
  /\ cancels' = (cancels \/ "deleted" \in code \/ "privileged" \in code)

HandleNodePolicyUpdated ==
  /\ polEvents # <<>> /\ polEvents' = Tail(polEvents)
  /\ IF Head(polEvents) = {} THEN UNCHANGED <<pmPolicy, cancels>>
     ELSE HandleNodePolicyUpdateForDeployment(Head(polEvents))
  /\ UNCHANGED <<xpol, versions, lpol, marker, polLock, polActor, unregistering, markerLeft>>

\* hzn exchange node addpolicy or removepolicy: no lock of the agent is held.
AdminPolicy(d) ==
  /\ PutExchangePolicy([dep |-> d, builtins |-> FALSE]) /\ AtExchange /\ UNCHANGED polActor
AdminDelete ==
  /\ xpol.pol # NoPolicy /\ xpol' = [pol |-> NoPolicy, ver |-> 0] /\ AtExchange /\ UNCHANGED <<polActor, versions>>

PolicyNext ==
  \/ CheckNodePolicyChanges \/ NodePolicyInitalSetup \/ DeleteNodePolicy
  \/ \E d \in Deployments : UpdateNodePolicy(d) \/ PatchNodePolicy(d) \/ AdminPolicy(d)
  \/ \E a \in Actors : \/ SetDefaultNodePolicy(a) \/ PutPolicy(a) \/ Lock(a) \/ GetProcessed(a) \/ GetAgain(a)
                       \/ SyncUnchanged(a) \/ SyncSave(a) \/ SyncMark(a) \/ AnnouncePolicy(a)
                       \/ DeletePolicyExchange(a) \/ DeletePolicyCopy(a) \/ DeletePolicyMarker(a)
  \/ UnregisterCopy \/ UnregisterMarker \/ UnregisterFails
  \/ HandleNodePolicyUpdated \/ AdminDelete

-----------------------------------------------------------------------------
(* User input.                                                               *)

UIAt(a, step) == uiActor[a].at = step
UITo(a, step) == uiActor' = [uiActor EXCEPT ![a].at = step]
UIExchange == UNCHANGED <<lui, hash, uiLock, uiChanged>>

GetChangedServices(old, new) == {s \in Services : old[s] # new[s]}
MergeUserInputArrays(old, patch) == [s \in Services |-> IF patch[s] = "none" THEN old[s] ELSE patch[s]]
\* The hash stands for the value: a changed value has another hash.
HashUserInput(ui) == {ui}

\* SyncNodeWithExchange reads the node into the cache; the copy is made from the cache.
SyncNodeWithExchange ==
  /\ UIAt("worker", "idle") /\ uiActor' = [uiActor EXCEPT !["worker"] = [IdleInput EXCEPT !.op = "check", !.at = "cache", !.got = xui]]
  /\ UNCHANGED <<xui, exchNode, inputChanges>> /\ UIExchange

SetExchangeNode ==
  /\ UIAt("worker", "cache") /\ exchNode' = uiActor["worker"].got /\ UITo("worker", "lock")
  /\ UNCHANGED <<xui, inputChanges>> /\ UIExchange

\* PUT, PATCH or DELETE of /node/userinput: validated, then compared with the exchange.
ExchangeNodeUserInputChanged == HashUserInput(xui) # hash

UserInputBegin(op, new) ==
  /\ UIAt("request", "idle") /\ inputChanges < MaxInputs /\ inputChanges' = inputChanges + 1
  /\ op = "delete" => new = NoInput /\ lui # NoInput
  /\ uiActor' = [uiActor EXCEPT !["request"] =
       [op |-> op, new |-> IF op = "patch" THEN MergeUserInputArrays(xui, new) ELSE new, got |-> xui,
        at |-> IF op # "delete" /\ ExchangeNodeUserInputChanged THEN "lock" ELSE "save"]]
  /\ UNCHANGED <<xui, exchNode>> /\ UIExchange

UpdateNodeUserInput(new) == UserInputBegin("update", new)
PatchNodeUserInput(new) == new # NoInput /\ UserInputBegin("patch", new)
DeleteNodeUserInput == UserInputBegin("delete", NoInput)

\* SyncLocalUserInputWithExchange: the worker's from the cached node, a request's from the exchange.
SyncUserInputBegin(a) ==
  /\ UIAt(a, "lock") /\ uiLock = "free" /\ uiLock' = a
  /\ LET ui == IF a = "worker" THEN exchNode ELSE xui IN
     uiActor' = [uiActor EXCEPT ![a].got = ui, ![a].at = IF HashUserInput(ui) = hash THEN "unlock" ELSE "copy"]
  /\ UNCHANGED <<xui, exchNode, lui, hash, uiChanged, inputChanges>>

SyncUserInputCopy(a) ==
  /\ UIAt(a, "copy") /\ lui' = uiActor[a].got /\ UITo(a, "hash")
  /\ uiChanged' = IF a = "worker" THEN uiChanged \cup GetChangedServices(lui, uiActor[a].got) ELSE uiChanged
  /\ UNCHANGED <<xui, exchNode, hash, uiLock, inputChanges>>

SyncUserInputHash(a) ==
  /\ UIAt(a, "hash") /\ hash' = HashUserInput(uiActor[a].got) /\ UITo(a, "unlock")
  /\ UNCHANGED <<xui, exchNode, lui, uiLock, uiChanged, inputChanges>>

SyncUserInputEnd(a) ==
  /\ UIAt(a, "unlock") /\ uiLock' = "free"
  /\ UITo(a, IF a = "worker" \/ uiActor[a].op = "saved" THEN "idle" ELSE "save")
  /\ UNCHANGED <<xui, exchNode, lui, hash, uiChanged, inputChanges>>

\* SaveNodeUserInput, under the lock: the exchange is patched, the copy saved, and the hash is
\* that of the node as it is read back from the exchange.
SavePatch ==
  /\ UIAt("request", "save") /\ uiLock = "free" /\ uiLock' = "request"
  /\ xui' = uiActor["request"].new /\ UITo("request", "saveCopy")
  /\ UNCHANGED <<exchNode, lui, hash, uiChanged, inputChanges>>

SaveCopy ==
  /\ UIAt("request", "saveCopy") /\ lui' = uiActor["request"].new /\ UITo("request", "saveHash")
  /\ UNCHANGED <<xui, exchNode, hash, uiLock, uiChanged, inputChanges>>

SaveHash ==
  /\ UIAt("request", "saveHash") /\ hash' = HashUserInput(xui) /\ exchNode' = xui
  /\ uiChanged' = uiChanged \cup GetChangedServices(uiActor["request"].got, uiActor["request"].new)
  /\ uiActor' = [uiActor EXCEPT !["request"].at = "unlock", !["request"].op = "saved"]
  /\ UNCHANGED <<xui, lui, uiLock, inputChanges>>

AdminInput(v) ==
  /\ inputChanges < MaxInputs /\ inputChanges' = inputChanges + 1 /\ v # xui /\ xui' = v
  /\ UNCHANGED <<exchNode, uiActor>> /\ UIExchange

InputNext ==
  \/ SyncNodeWithExchange \/ SetExchangeNode \/ DeleteNodeUserInput
  \/ \E v \in Values : UpdateNodeUserInput(v) \/ PatchNodeUserInput(v) \/ AdminInput(v)
  \/ \E a \in Actors : SyncUserInputBegin(a) \/ SyncUserInputCopy(a) \/ SyncUserInputHash(a) \/ SyncUserInputEnd(a)
  \/ SavePatch \/ SaveCopy \/ SaveHash

-----------------------------------------------------------------------------

\* The process stops and starts: what is in memory is lost, and the policy manager is filled from
\* the local copy.
SyncRestart ==
  /\ syncStops < MaxStops /\ syncStops' = syncStops + 1
  /\ polLock' = "free" /\ uiLock' = "free" /\ polEvents' = <<>>
  /\ polActor' = [a \in Actors |-> IdlePolicy] /\ uiActor' = [a \in Actors |-> IdleInput]
  /\ pmPolicy' = FindNodePolicy.dep /\ exchNode' = xui /\ unregistering' = FALSE
  /\ UNCHANGED <<xpol, lpol, marker, cancels, markerLeft, versions, xui, lui, hash, uiChanged, inputChanges>>

\* The two halves share no state.
SyncPolicyStep == PolicyNext /\ UNCHANGED <<inputVars, syncStops>>
SyncInputStep == InputNext /\ UNCHANGED <<policyVars, syncStops>>

SyncNext == SyncPolicyStep \/ SyncInputStep \/ SyncRestart

SyncSpec == SyncInit /\ [][SyncNext]_syncVars

-----------------------------------------------------------------------------
(* Properties.                                                               *)

\* The marker of the node policy is truthful: when it names the exchange's current policy, the
\* local copy is that policy, whoever wrote in between and wherever a copy was cut short.  So a
\* change the agent skips (the same time of last update) is one it really has.  The exception
\* is a marker that outlives an unregistration: the copy is deleted first and without the
\* lock, and until another version is copied the agent takes it for the policy it has.
PolicyMarkerTruthful == marker # 0 /\ marker = xpol.ver /\ ~markerLeft => lpol = xpol.pol

\* The same for user input: the comment on checkNodeUserInputChanges says "The exchange is the
\* master", so user input whose hash the agent has saved is what the agent uses.
ExchangeIsMaster == uiLock = "free" /\ hash = HashUserInput(xui) => lui = xui
=============================================================================
