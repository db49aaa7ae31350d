---------------------------- MODULE ModelObjects ----------------------------
(***************************************************************************)
(* Placement of model objects (MMS) by an agbot.  An object in the cloud   *)
(* sync service (CSS) has a destination policy, which names services, and  *)
(* a list of destination nodes.  The agbot polls the CSS for changed       *)
(* policies, keeps a cache of them, and puts the object on the nodes with  *)
(* an agreement for one of the services: when the policy changes, when an  *)
(* agreement is accepted by the node, and when the policy of a node        *)
(* changes.  Every one of these first evaluates what it reads and posts    *)
(* its destination changes to the CSS later.                               *)
(***************************************************************************)
EXTENDS Integers, FiniteSets, Sequences, SequencesExt

CONSTANTS Objects, ObjectNodes, ObjectServices,
          MaxPublished,      \* bound on the policies one object gets
          MaxMishaps,        \* bound on the changes of node policies, the steps with
                             \* failed calls and the polls that are repeated
          ObjectWorkers      \* agreement workers

ASSUME ObjectBounds == IsFiniteSet(Objects) /\ MaxPublished \in Nat

VARIABLES css,         \* the CSS: policy and destinations of every object
          changed,     \* objects whose policy changed since the last poll
          again,       \* objects that changed in the second of the last poll
          polled,      \* messages OBJECT_POLICIES_CHANGED, each a batch
          orgMap,      \* MMSObjectPolicyManager: the cached policies
          objectWork,  \* work items: changed policies, replies
          posting,     \* per worker: the destination changes it will post
          placements,  \* agreements: "none", "made", "replied", "running"
          gone,        \* deleted objects
          orgServed,   \* orgMap has the organization of the objects
          forgotten,   \* objects whose policy was dropped: not polled again before it changes
          recheck,     \* nodes whose policy change is still to be handled
          refusing,    \* <<object, node>>: the node's policy refuses the object
          nodeEdits,   \* changes of the policy of every node
          mishaps,     \* how many of what MaxMishaps bounds
          missed       \* <<object, node>>: a call for the placement failed

objectVars == <<css, changed, again, polled, orgMap, objectWork, posting, placements, gone, orgServed, forgotten,
                recheck, refusing, nodeEdits, mishaps, missed>>

\* A policy: its object, its version, the services and the nodes it admits.
Policy(o, v, ss, ns) == [obj |-> o, ver |-> v, services |-> ss, nodes |-> ns]
NoPolicy == [obj |-> "", ver |-> 0, services |-> {}, nodes |-> {}]
Nothing == [add |-> {}, delete |-> {}]
\* The agreement workers, and the thread of the agbot's commands.
Posters == ObjectWorkers \cup {"commands"}

\* The first read of the served policies, at the start of the agbot, may have failed.
ObjectsInit ==
  /\ css = [o \in Objects |-> [pol |-> NoPolicy, dests |-> {}]]
  /\ changed = {} /\ again = {} /\ polled = <<>> /\ orgMap = [o \in Objects |-> NoPolicy]
  /\ objectWork = <<>> /\ posting = [w \in Posters |-> Nothing]
  /\ placements = [x \in ObjectNodes \X ObjectServices |-> "none"]
  /\ gone = {} /\ recheck = {} /\ refusing = {} /\ nodeEdits = [n \in ObjectNodes |-> 0]
  /\ mishaps = 0 /\ missed = {} /\ orgServed \in BOOLEAN /\ forgotten = {}

-----------------------------------------------------------------------------
(* The CSS and the nodes. *)
Mishap(what) ==
  \/ what = {} /\ UNCHANGED mishaps
  \/ what # {} /\ mishaps < MaxMishaps /\ mishaps' = mishaps + 1

PublishObject(o, ss, ns) ==
  /\ o \notin gone /\ css[o].pol.ver < MaxPublished
  /\ css' = [css EXCEPT ![o] = [pol |-> Policy(o, css[o].pol.ver + 1, ss, ns), dests |-> css[o].dests]]
  /\ changed' = changed \cup {o}
  /\ UNCHANGED <<again, polled, orgMap, objectWork, posting, placements, gone, forgotten, orgServed, recheck, refusing, nodeEdits, mishaps, missed>>

DeleteObject(o) ==
  /\ css[o].pol # NoPolicy /\ o \notin gone
  /\ gone' = gone \cup {o} /\ changed' = changed \ {o} /\ again' = again \ {o}
  /\ UNCHANGED <<css, polled, orgMap, objectWork, posting, placements, forgotten, orgServed, recheck, refusing, nodeEdits, mishaps, missed>>

\* The policy of a node changes: it refuses another set of objects.
EditNodePolicy(n, os) ==
  /\ Mishap({n})
  /\ nodeEdits' = [nodeEdits EXCEPT ![n] = @ + 1]
  /\ refusing' = {x \in refusing : x[2] # n} \cup (os \X {n})
  /\ recheck' = recheck \cup {n}
  /\ UNCHANGED <<css, changed, again, polled, orgMap, objectWork, posting, placements, gone, forgotten, orgServed, missed>>

MakePlacement(n, s) ==
  /\ placements[<<n, s>>] = "none"
  /\ placements' = [placements EXCEPT ![<<n, s>>] = "made"]
  /\ objectWork' = Append(objectWork, [kind |-> "reply", node |-> n, service |-> s])
  /\ UNCHANGED <<css, changed, again, polled, orgMap, posting, gone, forgotten, orgServed, recheck, refusing, nodeEdits, mishaps, missed>>

\* The node reports the service in its status.
StartPlacement(n, s) ==
  /\ placements[<<n, s>>] = "replied"
  /\ placements' = [placements EXCEPT ![<<n, s>>] = "running"]
  /\ UNCHANGED <<css, changed, again, polled, orgMap, objectWork, posting, gone, forgotten, orgServed, recheck, refusing, nodeEdits, mishaps, missed>>

EndPlacement(n, s) ==
  /\ placements[<<n, s>>] \in {"replied", "running"}
  /\ placements' = [placements EXCEPT ![<<n, s>>] = "none"]
  /\ UNCHANGED <<css, changed, again, polled, orgMap, objectWork, posting, gone, forgotten, orgServed, recheck, refusing, nodeEdits, mishaps, missed>>

-----------------------------------------------------------------------------
(* The poll of the ChangesWorker: the policies that changed come with the
   destinations of that moment.  The time of the poll is taken before the
   request and in whole seconds, so the next poll may report them again. *)
GetUpdatedObjects ==
  /\ changed \cup again # {} /\ changed' = {}
  /\ again' \in SUBSET changed /\ Mishap(again')
  /\ \E order \in SetToSeqs(changed \cup again) :
       polled' = Append(polled, [i \in DOMAIN order |->
                   [pol |-> css[order[i]].pol, dests |-> css[order[i]].dests]])
  /\ UNCHANGED <<css, orgMap, objectWork, posting, placements, gone, forgotten, orgServed, recheck, refusing, nodeEdits, missed>>

\* The query for the organization of the objects failed and that for another one did
\* not: the time of the poll advances, and only what changed in its second is left.
PollSkipsOrg ==
  /\ changed # {} /\ Mishap({"query"})
  /\ changed' \in (SUBSET changed) \ {changed} /\ again' = {}
  /\ forgotten' = forgotten \cup (changed \ changed')
  /\ UNCHANGED <<css, polled, orgMap, objectWork, posting, placements, gone, orgServed, recheck, refusing, nodeEdits, missed>>

\* SetCurrentPolicyOrgs: the list of served policies changed, or could not be read and is
\* taken to be empty.  The cache of an organization that leaves is dropped (deleteOrg), and
\* one that comes back starts empty.
SetCurrentPolicyOrgs ==
  /\ orgServed' = ~orgServed /\ Mishap({"served"})
  /\ orgMap' = [o \in Objects |-> NoPolicy]
  /\ forgotten' = forgotten \cup {o \in Objects : orgMap[o] # NoPolicy}
  /\ UNCHANGED <<css, changed, again, polled, objectWork, posting, placements, gone, recheck, refusing, nodeEdits, missed>>

\* UpdatePolicies over a batch.  Whether a service of the policy was already
\* cached, and what was replaced, carry over from one policy to the next.
Shares(cached, item) == cached[item.pol.obj].services \cap item.pol.services # {}
foundService(cached, batch, i) == \E j \in 1..i : Shares(cached, batch[j])
policyReplaced(cached, batch, i) ==
  LET replaces == {j \in 1..i : /\ cached[batch[j].pol.obj] # NoPolicy
                                /\ Shares(cached, batch[j]) \/ ~foundService(cached, batch, j)}
  IN  IF replaces = {} THEN NoPolicy ELSE cached[batch[Max(replaces)].pol.obj]

UpdateObjectPolicies(cached, batch) ==
  LET at(o) == {i \in DOMAIN batch : batch[i].pol.obj = o} IN
  [o \in Objects |-> IF at(o) = {} THEN cached[o] ELSE batch[CHOOSE i \in at(o) : TRUE].pol]

changeEvents(cached, batch) ==
  [i \in DOMAIN batch |-> [kind |-> "object", new |-> batch[i].pol, dests |-> batch[i].dests,
                           old |-> policyReplaced(cached, batch, i)]]

\* When the interval of the garbage collection is over, the cached policies of
\* deleted objects are dropped first.
Collected(m) == [o \in Objects |-> IF o \in gone THEN NoPolicy ELSE m[o]]

HandleObjectPoliciesChange ==
  /\ orgServed /\ polled # <<>> /\ polled' = Tail(polled)
  /\ \E cached \in {orgMap, Collected(orgMap)} :
       /\ orgMap' = UpdateObjectPolicies(cached, Head(polled))
       /\ objectWork' = objectWork \o changeEvents(cached, Head(polled))
  /\ UNCHANGED <<css, changed, again, posting, placements, gone, forgotten, orgServed, recheck, refusing, nodeEdits, mishaps, missed>>

\* The policies of an organization that is not served are dropped.
UpdatePoliciesFails ==
  /\ ~orgServed /\ polled # <<>> /\ polled' = Tail(polled)
  /\ forgotten' = forgotten \cup {item.pol.obj : item \in Range(Head(polled))}
  /\ UNCHANGED <<css, changed, again, orgMap, objectWork, posting, placements, gone, orgServed, recheck, refusing,
                 nodeEdits, mishaps, missed>>

-----------------------------------------------------------------------------
\* Mutant: only the agreements of nodes that already report the service.
InProgressRunning == {x \in ObjectNodes \X ObjectServices : placements[x] = "running"}

InProgress == {x \in ObjectNodes \X ObjectServices : placements[x] # "none"}
hasRunningService(n, pol) == \E s \in pol.services : placements[<<n, s>>] = "running"

\* AssignObjectToNodes: one object, one node; the policy is the one the caller
\* has, the node's policy is read now.
Admits(pol, n) == n \in pol.nodes /\ <<pol.obj, n>> \notin refusing

AssignObjectToNodes(pol, n, dests) ==
  CASE pol.obj \in gone -> Nothing
    [] ~Admits(pol, n) /\ n \in dests -> [add |-> {}, delete |-> {<<pol.obj, n>>}]
    [] Admits(pol, n) /\ n \notin dests -> [add |-> {<<pol.obj, n>>}, delete |-> {}]
    [] OTHER -> Nothing

\* A node that lost the service of the old policy loses the object, unless it
\* runs another service of the new one.
UnassignObjectFromNodes(e, n, s) ==
  IF /\ e.old # NoPolicy /\ e.old.services # e.new.services /\ s \in e.old.services
     /\ n \in e.dests /\ ~hasRunningService(n, e.new)
  THEN [add |-> {}, delete |-> {<<e.new.obj, n>>}] ELSE Nothing

Lists(all) == [add |-> UNION {x.add : x \in all}, delete |-> UNION {x.delete : x \in all}]

\* HandleMMSObjectPolicy goes over the agreements, but for those for which the
\* policy or the status of the node cannot be read; the destinations are the
\* ones that came with the event.
HandleMMSObjectPolicy(e, unread) ==
  Lists({IF x[2] \in e.new.services THEN AssignObjectToNodes(e.new, x[1], e.dests)
         ELSE UnassignObjectFromNodes(e, x[1], x[2]) : x \in InProgress \ unread})

\* AgreementHandleMMSObjectPolicy: the cached policies of the services of one
\* agreement; the destinations are read from the CSS, none if that fails.
AgreementHandleMMSObjectPolicy(n, ss, unread) ==
  Lists({IF orgMap[o].services \cap ss # {}
         THEN AssignObjectToNodes(orgMap[o], n, IF o \in unread THEN {} ELSE css[o].dests)
         ELSE Nothing : o \in Objects})

\* A worker takes the next work item and evaluates it.
EvaluateChange(w) ==
  /\ posting[w] = Nothing /\ objectWork # <<>> /\ objectWork' = Tail(objectWork)
  /\ Head(objectWork).kind = "object"
  /\ LET e == Head(objectWork) IN
     \E unread \in SUBSET InProgress :
       /\ Mishap(unread)
       /\ posting' = [posting EXCEPT ![w] = HandleMMSObjectPolicy(e, unread)]
       /\ missed' = missed \cup {<<e.new.obj, x[1]>> : x \in {y \in unread : y[2] \in e.new.services}}
  /\ UNCHANGED <<css, changed, again, polled, orgMap, placements, gone, forgotten, orgServed, recheck, refusing, nodeEdits>>

EvaluateReply(w) ==
  /\ posting[w] = Nothing /\ objectWork # <<>> /\ objectWork' = Tail(objectWork)
  /\ Head(objectWork).kind = "reply"
  /\ LET e == Head(objectWork) IN
     /\ \E unread \in SUBSET Objects :
          /\ Mishap(unread)
          /\ posting' = [posting EXCEPT ![w] = AgreementHandleMMSObjectPolicy(e.node, {e.service}, unread)]
     /\ placements' = [placements EXCEPT ![<<e.node, e.service>>] = "replied"]
  /\ UNCHANGED <<css, changed, again, polled, orgMap, gone, forgotten, orgServed, recheck, refusing, nodeEdits, missed>>

\* HandleNodePolicyChanged, for the agreements that are still valid.
HandleNodePolicyChanged(n) ==
  /\ posting["commands"] = Nothing /\ n \in recheck /\ recheck' = recheck \ {n}
  /\ \E valid \in SUBSET {s \in ObjectServices : <<n, s>> \in InProgress}, unread \in SUBSET Objects :
       /\ Mishap(unread)
       /\ posting' = [posting EXCEPT !["commands"] = AgreementHandleMMSObjectPolicy(n, valid, unread)]
  /\ UNCHANGED <<css, changed, again, polled, orgMap, objectWork, placements, gone, forgotten, orgServed, refusing, nodeEdits, missed>>

\* AddDestinationsForObjects, then DeleteDestinationsForObjects: one call for
\* each object, and a call that fails is only logged.
PostDestinations(w) ==
  /\ posting[w] # Nothing
  /\ \E unadded, undeleted \in SUBSET Objects :
       LET added == {x \in posting[w].add : x[1] \notin unadded}
           deleted == {x \in posting[w].delete : x[1] \notin undeleted} IN
       /\ Mishap(unadded \cup undeleted)
       /\ css' = [o \in Objects |-> IF o \in gone THEN css[o] ELSE
             [pol |-> css[o].pol, dests |-> (css[o].dests \cup {n \in ObjectNodes : <<o, n>> \in added})
                                              \ {n \in ObjectNodes : <<o, n>> \in deleted}]]
       /\ missed' = missed \cup (posting[w].add \ added)
  /\ posting' = [posting EXCEPT ![w] = Nothing]
  /\ UNCHANGED <<changed, again, polled, orgMap, objectWork, placements, gone, forgotten, orgServed, recheck, refusing, nodeEdits>>

ObjectsNext ==
  \/ \E o \in Objects, ss \in (SUBSET ObjectServices) \ {{}}, ns \in SUBSET ObjectNodes :
        PublishObject(o, ss, ns)
  \/ \E n \in ObjectNodes, os \in SUBSET Objects : EditNodePolicy(n, os)
  \/ \E n \in ObjectNodes, s \in ObjectServices : 
        MakePlacement(n, s) \/ StartPlacement(n, s) \/ EndPlacement(n, s)
  \/ \E o \in Objects : DeleteObject(o)
  \/ \E n \in ObjectNodes : HandleNodePolicyChanged(n)
  \/ GetUpdatedObjects \/ PollSkipsOrg \/ SetCurrentPolicyOrgs
  \/ HandleObjectPoliciesChange \/ UpdatePoliciesFails
  \/ \E w \in ObjectWorkers : EvaluateChange(w) \/ EvaluateReply(w)
  \/ \E w \in Posters : PostDestinations(w)

ObjectsSpec == ObjectsInit /\ [][ObjectsNext]_objectVars

-----------------------------------------------------------------------------
ObjectPolicies == [obj : Objects, ver : 1..MaxPublished, services : (SUBSET ObjectServices) \ {{}},
                   nodes : SUBSET ObjectNodes]
ObjectItems == [pol : ObjectPolicies, dests : SUBSET ObjectNodes]
ObjectWork == [kind : {"reply"}, node : ObjectNodes, service : ObjectServices]
  \cup [kind : {"object"}, new : ObjectPolicies, dests : SUBSET ObjectNodes, old : ObjectPolicies \cup {NoPolicy}]

ObjectsTypeOK ==
  /\ css \in [Objects -> [pol : ObjectPolicies \cup {NoPolicy}, dests : SUBSET ObjectNodes]]
  /\ orgMap \in [Objects -> ObjectPolicies \cup {NoPolicy}]
  /\ \A o \in Objects : \A pol \in {css[o].pol, orgMap[o]} : pol = NoPolicy \/ pol.obj = o
  /\ changed \subseteq Objects /\ again \subseteq Objects /\ gone \subseteq Objects
  /\ forgotten \subseteq Objects /\ orgServed \in BOOLEAN
  /\ polled \in Seq(Seq(ObjectItems)) /\ objectWork \in Seq(ObjectWork)
  /\ posting \in [Posters -> [add : SUBSET (Objects \X ObjectNodes), delete : SUBSET (Objects \X ObjectNodes)]]
  /\ placements \in [ObjectNodes \X ObjectServices -> {"none", "made", "replied", "running"}]
  /\ recheck \subseteq ObjectNodes /\ nodeEdits \in [ObjectNodes -> Nat] /\ mishaps \in Nat
  /\ refusing \subseteq Objects \X ObjectNodes /\ missed \subseteq Objects \X ObjectNodes

ObjectsSettled == /\ changed \cup again = {} /\ recheck = {} /\ polled = <<>> /\ objectWork = <<>>
                  /\ \A w \in Posters : posting[w] = Nothing

Entitled(o, n) == /\ Admits(css[o].pol, n) /\ o \notin gone
                  /\ \E s \in css[o].pol.services : placements[<<n, s>>] \in {"replied", "running"}
                  /\ <<o, n>> \notin missed /\ o \notin forgotten

(* An object that was published once reaches every node with an agreement for
   one of its services whose policy did not change meanwhile, unless a call for
   the placement failed or the agbot dropped the object's policy (with the list of
   served organizations, or in a poll that skipped its organization), however the
   poll, which may report the object twice, the update of the cache, the handling
   of the change and the replies of the nodes interleave: a reply handled before
   the cache knows the object is caught by the change, which is handled after it
   (agreementbot/policy.go:256, agreementworker.go:1521). *)
PublishedObjectArrives ==
  ObjectsSettled => \A o \in Objects, n \in ObjectNodes :
     (css[o].pol.ver = 1 /\ nodeEdits[n] = 0 /\ Entitled(o, n)) => n \in css[o].dests

(* "if agreement's node is NOT in current obj dest list, then add the agreement's
   node to object's destination list" (agreementbot/policy.go:329): the list that
   is consulted came with the event, so an object whose policy changed twice may
   stay away from a node that is entitled to it. *)
CurrentDestinationsConsulted ==
  ObjectsSettled => \A o \in Objects, n \in ObjectNodes :
     (nodeEdits[n] = 0 /\ Entitled(o, n)) => n \in css[o].dests
=============================================================================
