--------------------------- MODULE ExchangeCache ---------------------------
(***************************************************************************)
(* The client of the exchange, in the agbot or in the agent: the reads and *)
(* writes of single resources, the in-memory cache in front of them, the   *)
(* definitions of a service (cached as a map of versions that grows with   *)
(* what was asked for), and the change feed that invalidates the cache.    *)
(* The agbot asks the feed for the organizations it serves; what a node is *)
(* told of is up to the exchange.                                          *)
(***************************************************************************)
EXTENDS Integers, Sequences, FiniteSets, Functions

CONSTANTS Singles,          \* resources with one value
          ServiceOrg,       \* the organization of the service
          DefVersions,      \* versions of the service
          Callers,          \* goroutines that call the exchange
          HomeOrg,          \* the organization of the agbot, or of the node
          MaxExchangeEdits, \* bound on the changes of the exchange
          MaxFaults         \* bound on failed requests and restarts

VARIABLES program,    \* "agbot" or "agent"
          kind,       \* what each resource is
          held,       \* exchange: Singles -> value, 0 when absent
          defs,       \* exchange: DefVersions -> value, 0 when absent
          servedOrgs, \* exchange: what the agbot is to serve
          feed,       \* exchange: changes not yet fetched
          started,    \* whether the worker has a change id, and its organizations
          batch,      \* changes fetched and not yet processed
          asked,      \* the organizations the batch was fetched for; it has no other changes
          orgList,    \* the organizations the worker asks for
          cached,     \* Singles -> a value, Absent or Pointer
          cachedDefs, \* the cached map version -> value; empty when there is none
          call,       \* Callers -> the request under way
          raced,      \* history: invalidated while an older read was under way
          overlooked, \* history: changed, and the change deletes another key, or was never asked for
          changeCount, faults

exchangeSideVars == <<program, kind, held, defs, servedOrgs, feed>>
feedVars == <<started, batch, asked, orgList>>
historyVars == <<raced, overlooked>>
cacheVars == <<exchangeSideVars, feedVars, cached, cachedDefs, call, historyVars, changeCount, faults>>

Absent == -1     \* no entry
Pointer == -2    \* an entry of a type its reader does not accept
Torn == -3       \* names and contents of keys that never were together
NoCall == [op |-> "none"]
Service == "service"
Things == Singles \cup {Service}
OfService == {"keys", "auths", "policy"}
Kinds == {"node", "nodepolicy", "org", "hagroup"} \cup OfService
Orgs == {ServiceOrg, HomeOrg}

\* The organization that the key of an entry begins with.  The definition of an
\* organization is about the service's; its key is the name alone.
Home(r) == IF r = Service \/ kind[r] \in OfService \cup {"org"} THEN ServiceOrg ELSE HomeOrg

ASSUME CacheAssumption == Service \notin Singles /\ "served" \notin Singles

\* A change names a service as url_version_arch; an underscore in the url
\* misleads svcInformationFromSvcId.
CacheInit ==
  /\ program \in {"agbot", "agent"}
  /\ \E k \in [Singles -> Kinds], s \in {"plain", "underscored"} :
       kind = [r \in Things |-> IF r = Service THEN s ELSE k[r]]
  /\ held = [r \in Singles |-> 1] /\ defs = [v \in DefVersions |-> 1]
  /\ servedOrgs \in {Orgs} \cup (IF program = "agbot" THEN {{HomeOrg}} ELSE {}) /\ feed = <<>> /\ batch = <<>> /\ asked = {}
  /\ started = (IF program = "agbot" THEN "no" ELSE "yes")
  /\ orgList = (IF program = "agbot" THEN {} ELSE Orgs)
  /\ cached = [r \in Singles |-> Absent] /\ cachedDefs = <<>>
  /\ call = [c \in Callers |-> NoCall] /\ raced = {} /\ overlooked = {}
  /\ changeCount = 0 /\ faults = 0

-----------------------------------------------------------------------------
(* The exchange. *)

NextValue == changeCount + 2
Announce(r, modified) ==
  /\ changeCount < MaxExchangeEdits /\ changeCount' = changeCount + 1
  /\ feed' = Append(feed, [thing |-> r, modified |-> modified])
SetTo(r, new) ==
  /\ held' = [held EXCEPT ![r] = new] /\ Announce(r, held[r] # 0 /\ new # 0)
  /\ UNCHANGED <<program, kind, defs, servedOrgs>>

\* A resource is changed, created or deleted by somebody else.  The change of a node
\* may also be one of its agreements or of the state of its services.
EditSingle(r) ==
  /\ kind[r] \notin {"keys", "auths"} /\ \E new \in {0, NextValue} : SetTo(r, new)
  /\ UNCHANGED <<feedVars, cached, cachedDefs, call, historyVars, faults>>
\* A change of a service version is announced for the service, and covers its keys
\* and registry credentials.
EditService(v) ==
  /\ Announce(Service, TRUE)
  /\ \E new \in {0, NextValue} : defs' = [defs EXCEPT ![v] = new]
  /\ held' = [r \in Singles |-> IF kind[r] \in {"keys", "auths"} THEN NextValue ELSE held[r]]
  /\ UNCHANGED <<program, kind, servedOrgs, feedVars, cached, cachedDefs, call, historyVars, faults>>
EditServed(o) ==
  /\ program = "agbot" /\ o # HomeOrg /\ Announce("served", TRUE)
  /\ servedOrgs' = IF o \in servedOrgs THEN servedOrgs \ {o} ELSE servedOrgs \cup {o}
  /\ UNCHANGED <<program, kind, held, defs, feedVars, cached, cachedDefs, call, historyVars, faults>>

-----------------------------------------------------------------------------
(* Invalidation. *)

\* Mutant: a change of a service forgets the definitions only.
DeleteDefinitionsOnly(c) == {c.thing}

\* DeleteOrgCachedResources: the entries whose keys begin with the organization and a
\* slash, so never the definition of the organization.
DeleteOrgCachedResources(os) == {r \in Things : Home(r) \in os /\ kind[r] # "org"}

\* DeleteCacheResourceFromChange: the entries a change deletes.
DeleteCacheResourceFromChange(c) ==
  IF c.thing = Service
  THEN {r \in Things : kind[r] \in {"plain", "keys", "auths"}}
  ELSE IF kind[c.thing] = "org" /\ ~c.modified THEN DeleteOrgCachedResources({Home(c.thing)})
  ELSE {c.thing}

\* History: what has changed and is not among them.
Overlooks(c) ==
  {r \in {c.thing} : kind[r] = "underscored" \/ (kind[r] = "org" /\ ~c.modified)}

\* The changes in the batch are those of the organizations asked for.
Received(c) == Home(c.thing) \in asked

\* The reads under way that began before now: an entry they store is not invalidated.
UnderWay(rs) == {r \in rs : \E c \in Callers : call[c].op \in {"listed", "answered"} /\ call[c].thing = r}
\* A read of definitions also keeps the entries that were cached when it began.
Merging == \E c \in Callers : call[c].op = "asking" /\ call[c].thing = Service /\ call[c].old # <<>>

\* DeleteCacheResource.
Invalidate(rs, entries) ==
  /\ cached' = [r \in Singles |-> IF r \in rs THEN Absent ELSE entries[r]]
  /\ cachedDefs' = IF Service \in rs THEN <<>> ELSE cachedDefs
  /\ raced' = (raced \ rs) \cup UnderWay(rs) \cup (IF Service \in rs /\ Merging THEN {Service} ELSE {})

-----------------------------------------------------------------------------
(* The change feed. *)

Fault == faults < MaxFaults /\ faults' = faults + 1
Hit(r) == cached[r] \notin {Absent, Pointer}

\* verifyOrg: the definition of an organization, cached or there.
OrgDefs(o) == {r \in Singles : kind[r] = "org" /\ Home(r) = o}
VerifyOrg(o) == \A r \in OrgDefs(o) : Hit(r) \/ held[r] # 0
\* The cache after the organizations os were verified.
Verified(os) ==
  [r \in Singles |-> IF (\E o \in os : r \in OrgDefs(o)) /\ ~Hit(r) /\ held[r] # 0 THEN held[r] ELSE cached[r]]

\* gatherServedOrgs: the organizations in the lists that could be read, and verified;
\* the requests about those in failed do not succeed.
GatherServedOrgs(failed) ==
  /\ IF failed = {} THEN UNCHANGED faults ELSE Fault
  /\ orgList' = {HomeOrg} \cup {o \in servedOrgs \ failed : VerifyOrg(o)}
ToVerify(failed) == servedOrgs \ ({HomeOrg} \cup failed)

\* getChangeId: the feed begins at the newest change.
GetChangeId ==
  /\ started = "no" /\ started' = "id" /\ feed' = <<>>
  /\ overlooked' = overlooked \cup
       UNION {DeleteCacheResourceFromChange(c) \cup Overlooks(c) : c \in {d \in Range(feed) : d.thing # "served"}}
  /\ UNCHANGED <<program, kind, held, defs, servedOrgs, batch, asked, orgList, cached, cachedDefs, call, raced,
                 changeCount, faults>>
\* Initialize, or the first poll that finds a change id.
FirstServedOrgs ==
  /\ started = "id" /\ started' = "yes"
  /\ \E failed \in SUBSET (servedOrgs \ {HomeOrg}) :
       GatherServedOrgs(failed) /\ cached' = Verified(ToVerify(failed))
  /\ UNCHANGED <<exchangeSideVars, batch, asked, cachedDefs, call, historyVars, changeCount>>

\* GetExchangeChanges: the oldest changes, as many as MaxExchangeChanges allows.  A
\* request that fails is repeated with the next poll.
FetchChanges ==
  /\ started = "yes" /\ batch = <<>>
  /\ \E n \in 1 .. Len(feed) : batch' = SubSeq(feed, 1, n) /\ feed' = SubSeq(feed, n + 1, Len(feed))
  /\ asked' = orgList
  /\ UNCHANGED <<program, kind, held, defs, servedOrgs, started, orgList, cached, cachedDefs, call, historyVars,
                 changeCount, faults>>

\* updateServedOrgs: what is cached of organizations that come or go is forgotten.
UpdateServedOrgs(failed) ==
  LET changed == (orgList \ orgList') \cup (orgList' \ orgList) IN
  /\ GatherServedOrgs(failed)
  /\ Invalidate(DeleteOrgCachedResources(changed), Verified(ToVerify(failed)))
  /\ overlooked' = (overlooked \ DeleteOrgCachedResources(changed))
                     \cup {r \in Singles : kind[r] = "org" /\ Home(r) \in changed}

\* findAndProcessChanges: one change after the other.
ProcessChange ==
  /\ batch # <<>> /\ batch' = Tail(batch)
  /\ LET c == Head(batch) IN
       \/ /\ c.thing = "served"
          /\ \E failed \in SUBSET (servedOrgs \ {HomeOrg}) : UpdateServedOrgs(failed)
       \/ /\ c.thing # "served" /\ Received(c)
          /\ Invalidate(DeleteCacheResourceFromChange(c), cached)
          /\ overlooked' = (overlooked \ DeleteCacheResourceFromChange(c)) \cup Overlooks(c)
          /\ UNCHANGED <<orgList, faults>>
       \/ /\ c.thing # "served" /\ ~Received(c)
          /\ UNCHANGED <<orgList, faults, cached, cachedDefs, historyVars>>
  /\ UNCHANGED <<exchangeSideVars, started, asked, call, changeCount>>

\* ClearAllResourceCache: the agbot's search found nodes.
ClearAllResourceCache ==
  /\ program = "agbot" /\ cached' = [r \in Singles |-> Absent] /\ cachedDefs' = <<>>
  /\ UNCHANGED <<exchangeSideVars, feedVars, call, historyVars, changeCount, faults>>

-----------------------------------------------------------------------------
(* Reads. *)

Quiet == UNCHANGED <<exchangeSideVars, feedVars, historyVars, changeCount>>
Goes(c, k) == call' = [call EXCEPT ![c] = k]

\* A read of one resource that is not cached goes to the exchange.  For keys, registry
\* credentials and policies of a service version the caller reads the service first.
ReadSingle(c, r) ==
  /\ call[c] = NoCall /\ ~Hit(r) /\ Goes(c, [op |-> "asking", thing |-> r])
  /\ Quiet /\ UNCHANGED <<cached, cachedDefs, faults>>
GetExchangeDevice(c, r) == kind[r] = "node" /\ ReadSingle(c, r)
GetNodePolicy(c, r) == kind[r] = "nodepolicy" /\ ReadSingle(c, r)
GetOrganization(c, r) == kind[r] = "org" /\ ReadSingle(c, r)
GetHAGroup(c, r) == kind[r] = "hagroup" /\ program = "agbot" /\ ReadSingle(c, r)
GetServicePolicyWithId(c, r) == kind[r] = "policy" /\ ReadSingle(c, r)
GetServiceDockerAuthsWithId(c, r) == kind[r] = "auths" /\ ReadSingle(c, r)
GetObjectSigningKeys(c, r) == kind[r] = "keys" /\ ReadSingle(c, r)

\* getSearchVersion: one version, or all of them.
SearchVersions == {{v} : v \in DefVersions} \cup {{}}
\* getServiceFromCache: an exact version is found or not.  A version expression is
\* answered from the versions that happen to be cached, whatever they are; that there
\* is none is an error there, and the exchange is asked.
InCache(search, expression) ==
  cachedDefs # <<>> /\ IF search = {} THEN expression ELSE search \subseteq DOMAIN cachedDefs

\* GetService on a miss: the old map is kept to be completed.
GetService(c, search) ==
  /\ call[c] = NoCall /\ \E expression \in BOOLEAN : ~InCache(search, expression)
  /\ Goes(c, [op |-> "asking", thing |-> Service, search |-> search, old |-> cachedDefs])
  /\ Quiet /\ UNCHANGED <<cached, cachedDefs, faults>>
\* GetServiceWithId does not look into the cache, and replaces the map.
GetServiceWithId(c, v) ==
  /\ call[c] = NoCall
  /\ Goes(c, [op |-> "asking", thing |-> Service, search |-> {v}, old |-> <<>>])
  /\ Quiet /\ UNCHANGED <<cached, cachedDefs, faults>>

\* InvokeExchange: an answer; what is not found is an answer too.  Of keys it has the names.
InExchange(search) == {v \in DefVersions : defs[v] # 0 /\ (search = {} \/ v \in search)}
Answer(c) ==
  /\ call[c].op = "asking"
  /\ IF call[c].thing = Service
     THEN Goes(c, [op |-> "answered", thing |-> Service, old |-> call[c].old,
                   new |-> Restrict(defs, InExchange(call[c].search))])
     ELSE Goes(c, [op |-> IF kind[call[c].thing] = "keys" THEN "listed" ELSE "answered",
                   thing |-> call[c].thing, new |-> held[call[c].thing]])
  /\ Quiet /\ UNCHANGED <<cached, cachedDefs, faults>>
\* The contents of the keys are read one by one afterwards.
ReadKeyContents(c) ==
  /\ call[c].op = "listed"
  /\ Goes(c, [op |-> "answered", thing |-> call[c].thing,
              new |-> IF call[c].new = held[call[c].thing] THEN call[c].new ELSE Torn])
  /\ Quiet /\ UNCHANGED <<cached, cachedDefs, faults>>

\* InvokeExchangeRetryOnTransportError: after the last retry, or for an error of
\* another kind, the call fails and nothing is stored.
FailCall(c) ==
  /\ call[c].op \in {"asking", "listed", "answered", "writing"} /\ Fault /\ Goes(c, NoCall)
  /\ Quiet /\ UNCHANGED <<cached, cachedDefs>>

\* UpdateCache with the value of a resource that is there; of the resources of a service
\* the cache also keeps that there are none.  An entry with the same text is left as it is,
\* also if it is a pointer.
StoreSingle(c) ==
  /\ call[c].op = "answered" /\ call[c].thing \in Singles
  /\ LET r == call[c].thing IN
       \/ /\ call[c].new = 0 /\ kind[r] \notin OfService /\ UNCHANGED cached
       \/ /\ call[c].new # 0 \/ kind[r] \in OfService
          /\ \E e \in {call[c].new} \cup ({cached[r]} \cap {Pointer}) : cached' = [cached EXCEPT ![r] = e]
  /\ Goes(c, NoCall) /\ Quiet /\ UNCHANGED <<cachedDefs, faults>>

\* updateServiceDefCache: the versions found, and those that were cached before the
\* read, if any was found.
Merged(new, old) == [v \in DOMAIN new \cup DOMAIN old |-> IF v \in DOMAIN new THEN new[v] ELSE old[v]]
StoreService(c) ==
  /\ call[c].op = "answered" /\ call[c].thing = Service
  /\ cachedDefs' = IF call[c].new = <<>> THEN cachedDefs ELSE Merged(call[c].new, call[c].old)
  /\ Goes(c, NoCall) /\ Quiet /\ UNCHANGED <<cached, faults>>

-----------------------------------------------------------------------------
(* Writes, which only an agent makes. *)

\* What is left in the cache afterwards: after is "copy" for a changed copy that is put
\* back, "gone", or "as is".
StartWrite(c, r, entry, after) ==
  /\ program = "agent" /\ call[c] = NoCall
  /\ cached' = [cached EXCEPT ![r] = entry]
  /\ Goes(c, [op |-> "writing", thing |-> r, after |-> after])
  /\ Quiet /\ UNCHANGED <<cachedDefs, faults>>

\* PutExchangeDevice and PatchExchangeDevice take the node out of the cache before the
\* request (DeleteCacheNodeWriteThru) and, if a reader would have found it, put the changed
\* copy back; a field that the copy does not take makes it be dropped instead.
PutExchangeDevice(c, r) ==
  kind[r] = "node" /\ \E after \in (IF Hit(r) THEN {"copy", "gone"} ELSE {"as is"}) : StartWrite(c, r, Absent, after)
PostDeviceServicesConfigState(c, r) == kind[r] = "node" /\ StartWrite(c, r, Absent, "as is")
PutNodePolicy(c, r) == kind[r] = "nodepolicy" /\ StartWrite(c, r, cached[r], "copy")
DeleteNodePolicy(c, r) == kind[r] = "nodepolicy" /\ StartWrite(c, r, cached[r], "gone")
\* PutServicePolicyWithId and DeleteServicePolicyWithId leave the entry to the feed.
PutServicePolicyWithId(c, r) == kind[r] = "policy" /\ StartWrite(c, r, cached[r], "as is")

\* The exchange carries the write out.
CarriedOut(c) ==
  /\ call[c].op = "writing"
  /\ \E new \in {0, NextValue} :
       /\ CASE kind[call[c].thing] = "policy" -> TRUE
            [] kind[call[c].thing] = "nodepolicy" -> (new = 0) = (call[c].after = "gone")
            [] OTHER -> new # 0
       /\ SetTo(call[c].thing, new)
       /\ Goes(c, [op |-> "written", thing |-> call[c].thing, after |-> call[c].after, new |-> new])
  /\ UNCHANGED <<feedVars, cached, cachedDefs, historyVars, faults>>

\* UpdateCacheNodePutWriteThru, UpdateCacheNodePatchWriteThru, PutNodePolicy: the copy is
\* stored as a pointer where readers expect a value, unless an entry with the same text is there.
WriteThrough(c) ==
  /\ call[c].op = "written"
  /\ LET r == call[c].thing IN
       \/ call[c].after = "as is" /\ UNCHANGED cached
       \/ call[c].after = "gone" /\ cached' = [cached EXCEPT ![r] = Absent]
       \/ call[c].after = "copy"
            /\ \E e \in {Pointer} \cup ({cached[r]} \cap {call[c].new}) : cached' = [cached EXCEPT ![r] = e]
  /\ Goes(c, NoCall) /\ Quiet /\ UNCHANGED <<cachedDefs, faults>>

-----------------------------------------------------------------------------
\* The program stops: the cache is gone.  An agbot looks for a new place in the feed, an
\* agent goes on where it was.
CacheRestart ==
  /\ Fault
  /\ cached' = [r \in Singles |-> Absent] /\ cachedDefs' = <<>>
  /\ call' = [c \in Callers |-> NoCall] /\ raced' = {} /\ overlooked' = {} /\ batch' = <<>>
  /\ \/ program = "agbot" /\ started' = "no" /\ orgList' = {} /\ feed' = <<>>
     \/ program = "agent" /\ feed' = batch \o feed /\ UNCHANGED <<started, orgList>>
  /\ UNCHANGED <<program, kind, held, defs, servedOrgs, asked, changeCount>>

CacheNext ==
  \/ \E r \in Singles : EditSingle(r)
  \/ \E v \in DefVersions : EditService(v)
  \/ \E o \in Orgs : EditServed(o)
  \/ GetChangeId \/ FirstServedOrgs \/ FetchChanges \/ ProcessChange \/ ClearAllResourceCache \/ CacheRestart
  \/ \E c \in Callers, search \in SearchVersions : GetService(c, search)
  \/ \E c \in Callers, v \in DefVersions : GetServiceWithId(c, v)
  \/ \E c \in Callers, r \in Singles :
       \/ GetExchangeDevice(c, r) \/ GetNodePolicy(c, r) \/ GetOrganization(c, r) \/ GetHAGroup(c, r)
       \/ GetServicePolicyWithId(c, r) \/ GetServiceDockerAuthsWithId(c, r) \/ GetObjectSigningKeys(c, r)
       \/ PutExchangeDevice(c, r) \/ PostDeviceServicesConfigState(c, r)
       \/ PutNodePolicy(c, r) \/ DeleteNodePolicy(c, r) \/ PutServicePolicyWithId(c, r)
  \/ \E c \in Callers :
       \/ Answer(c) \/ ReadKeyContents(c) \/ FailCall(c) \/ StoreSingle(c) \/ StoreService(c)
       \/ CarriedOut(c) \/ WriteThrough(c)

CacheSpec == CacheInit /\ [][CacheNext]_cacheVars

-----------------------------------------------------------------------------
\* What a change that is still to be processed, or fetched, will invalidate.
Pending ==
  UNION ({DeleteCacheResourceFromChange(c) \cup Overlooks(c) : c \in {d \in Range(batch) : d.thing # "served" /\ Received(d)}}
         \cup {DeleteCacheResourceFromChange(c) \cup Overlooks(c) : c \in {d \in Range(feed) : d.thing # "served"}})

\* A cached value is the one the exchange holds, unless a change of it has yet to be
\* processed, a read that began before the change was processed stored its result
\* afterwards, or the change was one that does not name the entry: the creation or
\* deletion of an organization, or its return among those served, leaves its own definition
\* in the cache, a service with an underscore in its url keeps its definitions, and what
\* changed before the agbot had its first change id was never asked for.  Resources
\* of organizations the agbot does not serve are out of the feed's reach
\* (GetResourceFromCache, UpdateCache, DeleteCacheResourceFromChange, findAndProcessChanges,
\* updateServedOrgs).
StaleOnlyIfRaced ==
  started = "yes" =>
    \A r \in Things : Home(r) \in orgList /\ r \notin Pending \cup raced \cup overlooked =>
      IF r = Service THEN \A v \in DOMAIN cachedDefs : cachedDefs[v] = defs[v]
      ELSE Hit(r) => cached[r] = held[r]
=============================================================================
