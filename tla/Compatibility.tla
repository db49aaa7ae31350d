--------------------------- MODULE Compatibility ---------------------------
(***************************************************************************)
(* The compatibility check of a node and a deployment, as the CLI, the     *)
(* agbot API and the agbot itself run it: policies, privileges and         *)
(* namespaces, user input, and secret bindings, one after the other, each  *)
(* over the service versions the one before left.  It is a function of     *)
(* its request; the module asks it about every request of a small set, and *)
(* the version ranges and constraints it rests on about theirs.            *)
(***************************************************************************)
EXTENDS PolicyTerms

CONSTANTS CheckRequests,   \* requests to deployCompatible
          CheckRanges,     \* pairs of version ranges
          CheckVersions,   \* versions to look for in a range
          CheckTrees,      \* constraints, as trees
          CheckProps,      \* lists of properties
          CheckTokens,     \* sequences of tokens, constraints or not
          CheckPolicies, CheckServicePolicies,  \* policies, with their constraint as a tree
          DefaultNoData,   \* the interval of the configuration for data verification
          CheckNamespaces, CheckNamespaceTrees  \* namespaces, and constraints about them

VARIABLE probe             \* the question asked last

NoProbe == [kind |-> "none"]

(* A request: by policy or pattern; its service references, each a sequence
   of versions; node type, scope and namespace; whether the node runs
   privileged services; the deployment's namespace; user input of the
   deployment and the node; secret bindings; the secrets that exist; whether
   all versions are looked at.  A version: the node types it has a deployment
   for, its namespace, whether its policy and the node's agree, and its
   parts, itself and the services it depends on. *)

-----------------------------------------------------------------------------
(* Types, namespaces, privileges. *)
CheckTypeCompatibility(r, v) == r.nodeType \in v.types

NodeNamespace(r) == IF r.nodeNs = "" THEN "openhorizon-agent" ELSE r.nodeNs

\* A pattern must name the namespace of a scoped agent, and only of one.
ValidatePatternClusterNamespace(r) ==
  IF r.scoped THEN r.ns = NodeNamespace(r) ELSE r.ns = ""

CheckClusterNamespaceCompatibility(r, v) ==
  \/ r.nodeType = "device"
  \/ /\ r.policy \/ ValidatePatternClusterNamespace(r)
     /\ IF r.ns # "" THEN r.ns = NodeNamespace(r) \/ ~r.scoped
        ELSE ~r.scoped \/ v.ns \in {"", NodeNamespace(r)}

DeploymentRequiresPrivilege(part) == part.privileged
ServicesRequirePrivilege(v) == \E i \in 1..Len(v.parts) : DeploymentRequiresPrivilege(v.parts[i])

\* Every version of a pattern must do without privileges.
EvaluatePatternPrivilegeCompatability(r) ==
  r.nodePrivileged \/ \A i \in 1..Len(r.refs) : \A j \in 1..Len(r.refs[i]) :
                        ~ServicesRequirePrivilege(r.refs[i][j])

patternClusterNSCompatible(r) ==
  \/ r.nodeType = "device"
  \/ ~r.scoped /\ ValidatePatternClusterNamespace(r)
  \/ r.scoped /\ \A i \in 1..Len(r.refs) : \A j \in 1..Len(r.refs[i]) :
                   CheckClusterNamespaceCompatibility(r, r.refs[i][j])

-----------------------------------------------------------------------------
(* Policies: the privileges of a version become a constraint on the node. *)
SetServicePolicyPrivilege(r, v) == ServicesRequirePrivilege(v) => r.nodePrivileged
CheckPolicyCompatiblility(r, v) == v.agrees /\ SetServicePolicyPrivilege(r, v)

\* The output of a step: compatible, and the versions it found compatible.
Output(ok, vs) == [ok |-> ok, good |-> vs]

\* Unless all versions are asked for, the first compatible one ends the search.
policyCompatible(r) ==
  LET good == SelectSeq(r.refs[1], LAMBDA v : /\ CheckTypeCompatibility(r, v)
                                              /\ CheckClusterNamespaceCompatibility(r, v)
                                              /\ CheckPolicyCompatiblility(r, v))
  IN  Output(good # <<>>, IF r.all \/ good = <<>> THEN ToSet(good) ELSE {good[1]})

-----------------------------------------------------------------------------
(* The loop over the service references shared by the checks of user input  *)
(* and of secret bindings.                                                  *)
\* Mutant: the result of the step before is not looked at.
needHandleServiceAlways(v, toCheck) == TRUE
needHandleService(v, toCheck) == toCheck = {} \/ v \in toCheck

\* In one reference: the versions looked at, up to the first good one.
Seen(r, ref, toCheck, good) ==
  LET handled == SelectSeq(ref, LAMBDA v : needHandleService(v, toCheck))
      first   == {i \in 1..Len(handled) : handled[i] \in good}
  IN  ToSet(IF r.all \/ first = {} THEN handled ELSE SubSeq(handled, 1, Min(first)))

\* A policy needs a good version.  A pattern needs one in every reference,
\* unless all versions refused so far have a mismatch of another kind.
CheckServices(r, toCheck, good, mismatch) ==
  LET seen == [i \in 1..Len(r.refs) |-> Seen(r, r.refs[i], toCheck, good)]
      upTo(i) == UNION {seen[j] : j \in 1..i}
      bad(i) == /\ good \cap seen[i] = {}
                /\ r.policy \/ Cardinality(upTo(i) \ good) # Cardinality(upTo(i) \cap mismatch)
      all == upTo(Len(r.refs))
      pattern == ~r.policy /\ good \cap all = {} /\ mismatch \cap all # {}
  IN  Output(all # {} /\ ~pattern /\ \A i \in 1..Len(r.refs) : ~bad(i), good \cap all)
ReferredVersions(r) == UNION {ToSet(r.refs[i]) : i \in 1..Len(r.refs)}

-----------------------------------------------------------------------------
(* User input. *)
\* The node's values override the deployment's.
MergeUserInput(r, x) == IF r.nodeInput[x] # "absent" THEN r.nodeInput[x] ELSE r.input[x]

VerifyUserInputForSingleServiceDef(r, part) ==
  \/ part.required = {}
  \/ \A x \in part.required \cup part.defaults :
       MergeUserInput(r, x) # "bad" /\ (x \in part.required => MergeUserInput(r, x) # "absent")

VerifyUserInputForServiceCache(r, v) ==
  r.nodeType = "cluster" \/ \A i \in 1..Len(v.parts) : VerifyUserInputForSingleServiceDef(r, v.parts[i])

\* A mismatch of namespaces is noted, but does not make a version bad.
userInputCompatible(r, toCheck) ==
  CheckServices(r, toCheck,
    {v \in ReferredVersions(r) : VerifyUserInputForServiceCache(r, v) /\ CheckTypeCompatibility(r, v)},
    {v \in ReferredVersions(r) : ~CheckTypeCompatibility(r, v) \/ ~CheckClusterNamespaceCompatibility(r, v)})

-----------------------------------------------------------------------------
(* Secret bindings. *)
\* The first binding for the service whose version range has the version.
GetSecretBindingForService(r, part) ==
  LET fits == {i \in 1..Len(r.bindings) :
                 r.bindings[i].service = part.name /\ Is_within_range(r.bindings[i].range, part.version)}
  IN  IF fits = {} THEN {} ELSE r.bindings[Min(fits)].names

\* The containers of a service are gone through in the order of a map, and
\* each overwrites what was found for the one before: r.last decides.
checkSecretsInDeploymentConfig(r, part) ==
  LET n == Len(part.secrets) IN
  IF n = 0 THEN {} ELSE part.secrets[IF r.last = "first" THEN 1 ELSE n]
ValidateSecretBindingForSingleService(r, part) ==
  checkSecretsInDeploymentConfig(r, part) \subseteq GetSecretBindingForService(r, part)

VerifyVaultSecrets_strict(r, names) == names \subseteq r.vault
GroupSecretBindings(r, v) == UNION {checkSecretsInDeploymentConfig(r, v.parts[i]) : i \in 1..Len(v.parts)}

VerifySecretBindingForServiceCache(r, v) ==
  /\ \A i \in 1..Len(v.parts) : ValidateSecretBindingForSingleService(r, v.parts[i])
  /\ VerifyVaultSecrets_strict(r, GroupSecretBindings(r, v))

secretBindingCompatible(r, toCheck) ==
  CheckServices(r, toCheck,
    {v \in ReferredVersions(r) : VerifySecretBindingForServiceCache(r, v) /\ CheckTypeCompatibility(r, v)},
    {v \in ReferredVersions(r) : ~CheckTypeCompatibility(r, v)})

-----------------------------------------------------------------------------
\* The whole check.  Only the last one, of the secrets, which are looked at on devices
\* only, heeds what the caller asked about all versions; the others look at all.
deployCompatible(r) ==
  LET every == [r EXCEPT !.all = TRUE]
      pc == IF r.policy THEN policyCompatible(every) ELSE Output(TRUE, {})
      ui == userInputCompatible(every, pc.good)
      sb == secretBindingCompatible(r, ui.good)
  IN  IF r.policy /\ ~pc.ok THEN FALSE
      ELSE IF ~r.policy /\ ~EvaluatePatternPrivilegeCompatability(every) THEN FALSE
      ELSE IF ~r.policy /\ ~patternClusterNSCompatible(every) THEN FALSE
      ELSE IF ~ui.ok \/ r.nodeType = "cluster" THEN ui.ok
      ELSE sb.ok

-----------------------------------------------------------------------------
CompatibilityInit == probe = NoProbe

AskDeploy(r) == probe' = [kind |-> "deploy", req |-> r, ok |-> deployCompatible(r)]
AskPolicy(r) == r.policy /\ probe' = [kind |-> "policy", req |-> r, ok |-> policyCompatible(r).ok]
AskUserInput(r) == probe' = [kind |-> "userInput", req |-> r, ok |-> userInputCompatible(r, {}).ok]
AskSecretBinding(r) ==
  /\ r.nodeType = "device"
  /\ probe' = [kind |-> "secretBinding", req |-> r, ok |-> secretBindingCompatible(r, {}).ok]
AskRanges(x) ==
  LET required(n, r) == [spec |-> n, range |-> r] IN
  probe' = [kind |-> "ranges", a |-> x[1], b |-> x[2],
            met |-> IntersectsWith(x[1], x[2]),
            cut |-> ChangeCeiling(x[1], x[2].start, x[2].sInc),
            best |-> GetHighestVersion(CheckVersions, x[1]),
            common |-> GetCommonVersionRanges(<<required("s", x[1]), required("t", x[2]), required("s", x[2])>>)]
AskConstraint(t, all, ps) ==
  probe' = [kind |-> "constraint", tree |-> t, props |-> ps, valid |-> ValidConstraint(Write(t, all)),
            ok |-> IsSatisfiedBy(<<Write(t, all)>>, ps)]
AskTokens(s) ==
  probe' = [kind |-> "tokens", tokens |-> s, valid |-> ValidConstraint(s),
            err |-> parseConstraintExpression(s).err]

\* The policy with its constraint written out.
WrittenOut(pol) == [schema |-> pol.schema, props |-> pol.props, cons |-> <<Write(pol.tree, FALSE)>>,
                 protocols |-> pol.protocols, verify |-> pol.verify]

\* The policy of a node, and a deployment policy merged with the policy of the
\* service it deploys: compatible, and if so with which terms?
AskTerms(node, deployment, service) ==
  LET consumer == MergePolicyWithExternalPolicy(WrittenOut(deployment), WrittenOut(service))
  IN  probe' = [kind |-> "terms", node |-> node, deployment |-> deployment, service |-> service,
                ok |-> Are_Compatible(WrittenOut(node), consumer),
                terms |-> Create_Terms_And_Conditions(WrittenOut(node), consumer, DefaultNoData)]

\* Two policies of a node, merged, and a deployment policy.
AskProducers(a, b, deployment) ==
  probe' = [kind |-> "producers", first |-> a, second |-> b, deployment |-> deployment,
            ok |-> /\ CompatibleProducers(WrittenOut(a), WrittenOut(b))
                   /\ Are_Compatible(Are_Compatible_Producers(WrittenOut(a), WrittenOut(b), DefaultNoData),
                                     WrittenOut(deployment))]

\* A deployment policy for namespace ns whose constraint names namespaces.
AskNamespace(ns, t, ps) ==
  probe' = [kind |-> "namespace", ns |-> ns, tree |-> t, props |-> ps,
            refused |-> ValidateClusterNSWithConstraint(ns, <<Write(t, FALSE)>>)]

CompatibilityNext ==
  /\ probe = NoProbe
  /\ \/ \E r \in CheckRequests : AskDeploy(r) \/ AskPolicy(r) \/ AskUserInput(r) \/ AskSecretBinding(r)
     \/ \E x \in CheckRanges : AskRanges(x)
     \/ \E t \in CheckTrees, all \in BOOLEAN, ps \in CheckProps : AskConstraint(t, all, ps)
     \/ \E s \in CheckTokens : AskTokens(s)
     \/ \E n \in CheckPolicies, d \in CheckPolicies, v \in CheckServicePolicies :
          AskTerms(n, d, v) \/ AskProducers(n, v, d)
     \/ \E ns \in CheckNamespaces, t \in CheckNamespaceTrees, ps \in CheckProps : AskNamespace(ns, t, ps)

compatibilityVars == <<probe>>
CompatibilitySpec == CompatibilityInit /\ [][CompatibilityNext]_compatibilityVars

-----------------------------------------------------------------------------
\* One version passes every check there is, with all secrets of all its
\* containers bound and stored.
Deployable(r, v) ==
  /\ CheckTypeCompatibility(r, v) /\ CheckClusterNamespaceCompatibility(r, v)
  /\ SetServicePolicyPrivilege(r, v) /\ (r.policy => v.agrees)
  /\ r.nodeType = "device" =>
       /\ VerifyUserInputForServiceCache(r, v)
       /\ \A i \in 1..Len(v.parts) : \A j \in 1..Len(v.parts[i].secrets) :
            v.parts[i].secrets[j] \subseteq (GetSecretBindingForService(r, v.parts[i]) \cap r.vault)

OneContainer(r) == \A i \in 1..Len(r.refs) : \A j \in 1..Len(r.refs[i]) :
  \A k \in 1..Len(r.refs[i][j].parts) : Len(r.refs[i][j].parts[k].secrets) <= 1

(* A deployment policy is reported compatible exactly if a single service
   version passes every step (one version does not pass the policy check and
   another the check of user input), whether the caller asks for all versions
   or for the first.  Services with several containers are left out. *)
CompatibleVersionExists ==
  probe.kind = "deploy" /\ probe.req.policy /\ OneContainer(probe.req) =>
    LET r == probe.req
        deployable == \E j \in 1..Len(r.refs[1]) : Deployable(r, r.refs[1][j])
    IN  probe.ok <=> deployable

(* The intersection of two version ranges holds exactly the versions both
   hold, and fails only when they have none in common; a range cut off at a
   ceiling holds exactly the versions up to it; the highest version is in the
   range with none above it; and a service required twice gets the intersection
   while the others keep their range.  Ranges that meet in one end that only one
   of them includes, short ceilings, and versions that differ from an excluded
   end only in their spelling ("1.02.0" of "1.2.0") are left out: there the code
   keeps a version it should not. *)
RangesMeetExactly ==
  probe.kind = "ranges" /\ Proper(probe.a) /\ Proper(probe.b) =>
    /\ \A v \in CheckVersions :
         LET both == Denotes(probe.a, v) /\ Denotes(probe.b, v) IN
         IF probe.met.err THEN ~both
         ELSE Proper(probe.met.range) /\ ~Respelt(probe.met.range, v) =>
                (Is_within_range(probe.met.range, v) <=> both)
    /\ probe.cut.err \/ \A v \in CheckVersions : ~Respelt(probe.cut.range, v) =>
         (Is_within_range(probe.cut.range, v) <=>
            Denotes([probe.a EXCEPT !.end = probe.b.start, !.eInc = probe.b.sInc], v))
    /\ probe.best = {v \in CheckVersions : Holds(probe.a, v)
                        /\ \A w \in CheckVersions : Holds(probe.a, w) => CompareVersions(w, v) # 1}
    /\ {x.spec : x \in probe.common} = IF probe.met.err THEN {"t"} ELSE {"s", "t"}
    /\ \A x \in probe.common : SameRange(x.range, IF x.spec = "t" THEN probe.b ELSE probe.met.range)

\* The reference definition of a constraint's meaning.
RECURSIVE Means(_, _)
Means(t, ps) ==
  IF "args" \notin DOMAIN t THEN propertyInArray(t, ps)
  ELSE IF t.op = "and" THEN Means(t.args[1], ps) /\ Means(t.args[2], ps)
  ELSE Means(t.args[1], ps) \/ Means(t.args[2], ps)

NamesOf(ps) == {p.name : p \in ToSet(ps)}
ChainsMeet(a, b) == <<>> \in {a, b} \/ ToSet(a) \cap ToSet(b) # {}
Agree(n, d, s) ==
  /\ Means(d.tree, n.props) /\ Means(s.tree, n.props) /\ Means(n.tree, d.props \o s.props)
  /\ n.schema = d.schema
  /\ \/ <<>> \in {n.protocols, d.protocols}
     \/ /\ NamesOf(n.protocols) \cap NamesOf(d.protocols) # {}
        /\ \A p \in ToSet(n.protocols), q \in ToSet(d.protocols) : p.name = q.name => ChainsMeet(p.chains, q.chains)
  /\ VerifyCompatible(n.verify, d.verify)
InNamespace(ps, ns) == Append(ps, Property("namespace", "", <<"text", <<<<"word", ns>>>>>>))

\* The terms give a node the tokens it asks for, and no side waits longer for data
\* than it said.
TermsKeep(t, n, d) ==
  /\ \A x \in {n, d} : x.protocols # <<>> => NamesOf(t.protocols) \subseteq NamesOf(x.protocols)
  /\ n.verify.enabled => PerDay(t.verify.meter) >= PerDay(n.verify.meter)
  /\ \A x \in {n, d} : x.verify.enabled /\ x.verify.interval > 0 => t.verify.interval <= x.verify.interval

(* A constraint is understood as it is written: "and" binds stronger than
   "or", and parentheses, needed or not, group; and what Validate accepts can be
   parsed, unless a parenthesis closes where an expression is expected.  The same
   holds when policies meet: node, deployment and service are compatible exactly
   if each constraint holds in the properties of the other side, where the
   deployment policy's own properties go before its service's, the protocols
   meet, and the data verification of the deployment satisfies that of the node,
   which the terms of the agreement keep.  Who agrees with two merged policies of
   a node agrees with each of them.  And a namespace is refused to a deployment
   policy only if its constraint holds on no node with it. *)
ConstraintMeansWhatItSays ==
  /\ probe.kind = "constraint" => probe.valid /\ probe.ok = Means(probe.tree, probe.props)
  /\ probe.kind = "tokens" /\ probe.valid =>
       \/ ~probe.err
       \/ \E i \in 2..Len(probe.tokens) : probe.tokens[i - 1].tok \in {"(", "and", "or"} /\ probe.tokens[i].tok = ")"
  /\ probe.kind = "terms" =>
       /\ probe.ok = Agree(probe.node, probe.deployment, probe.service)
       /\ \A t \in probe.terms : TermsKeep(t, probe.node, probe.deployment)
  /\ probe.kind = "producers" /\ probe.ok =>
       \A x \in {probe.first, probe.second} :
         /\ Means(x.tree, probe.deployment.props)
         /\ probe.deployment.verify.meter # NoMeter => PerDay(probe.deployment.verify.meter) >= PerDay(x.verify.meter)
  /\ probe.kind = "namespace" /\ probe.refused => ~Means(probe.tree, InNamespace(probe.props, probe.ns))
=============================================================================
