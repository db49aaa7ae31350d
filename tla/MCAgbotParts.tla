---------------------------- MODULE MCAgbotParts ----------------------------
(* TLC instances of the parts of the agbot beside the agreement protocol and
   its coordination: deployment policies, model objects, prioritized workload
   versions, the compatibility check, the vault, the client of the exchange with
   its cache, and database partitions.

   Each part is a specification of its own.  A behaviour of this module is a
   behaviour of one of them, the part chosen at the start; the others keep
   their initial state. *)
EXTENDS DeploymentPolicies, ModelObjects, WorkloadRollback, Compatibility,
        SecretsListing, ExchangeCache, AgbotPartitions

\* The parts the run checks.
CONSTANTS Parts

\* Priorities listed out of order; the highest may be tried twice.
ListedOutOfOrder == <<2, 1, 3>>
TwoTriesOfFirst == [p \in {1, 2, 3} |-> IF p = 1 THEN 2 ELSE 1]
ShortTries == [p \in {1, 2, 3} |-> 1]

\* A secret of the organization, one of a user, one of a node, and one of a user for
\* a node with a name of two parts.
OrgSecret == <<"a">>
UserSecret == <<"user", "u", "b">>
NodeSecret == <<"node", "n", "e">>
UserNodeSecret == <<"user", "u", "node", "n", "c", "d">>
AllSecrets == {OrgSecret, UserSecret, NodeSecret, UserNodeSecret}
\* A caller may list everything, or nothing of the user, or nothing for the user's nodes.
RefusedDirs == {{}, {<<"user", "u">>}, {<<"user", "u", "node">>}}

-----------------------------------------------------------------------------
(* Inputs of the compatibility check. *)

\* Versions around one release: shorter, with leading zeros, with build words, later ones.
Release(n) == Ver(n, FALSE, <<>>)
Word(i) == <<"word", i>>
Number(i) == <<"number", i, 0>>
SomeVersions == {Release(n) : n \in 1..3} \cup {Ver(1, TRUE, <<>>), Padded(Release(2))}
                  \cup {Ver(1, FALSE, b) : b \in {<<Word(1)>>, <<Word(1), Number(2)>>, <<Number(1)>>,
                                                 <<<<"number", 1, 1>>>>}}

\* Pairs of ranges over the same ends, an open end is never included.
Span(s, sInc, e, eInc) == Version_Expression_Factory(s, sInc, e, eInc)
SomeEnds == {Release(1), Release(2), Padded(Release(1)), Ver(1, FALSE, <<Word(1)>>), Ver(1, FALSE, <<Number(1)>>)}
SomeRanges == {Span(s, a, e, b) : s \in SomeEnds, e \in SomeEnds, a \in BOOLEAN, b \in BOOLEAN}
                \cup {Span(s, a, INF, FALSE) : s \in SomeEnds, a \in BOOLEAN}
RangePairs == SomeRanges \X SomeRanges

\* Constraints of up to three operators over one property of every type.
Flag == Atom("a", "==", <<"bool", TRUE>>)
AtLeast == Atom("n", ">=", <<"number", 2>>)
OneOf == Atom("l", "in", <<"text", <<Word(1), Word(2)>>>>)
Atoms == {Flag, AtLeast, OneOf, Atom("n", "!=", <<"number", 2>>),
          Atom("v", "in", <<"text", <<<<"range", Span(Release(1), TRUE, Release(2), FALSE)>>>>>>)}
Joined(X, Y) == {[op |-> o, args |-> <<x, y>>] : o \in {"and", "or"}, x \in X, y \in Y}
SomeConstraints ==
  LET few == {Flag, AtLeast, OneOf}
  IN  Atoms \cup Joined(Atoms, Atoms) \cup Joined(Joined(few, few), few \cup Joined(few, few))
SomeProperties ==
  {<<Property("a", "boolean", <<"bool", b>>), Property("n", "int", <<"number", i>>),
     Property("l", "list", <<"text", <<Word(j), Word(3)>>>>),
     Property("v", "version", <<"text", <<<<"version", Release(i)>>>>>>)>> : b \in BOOLEAN, i \in 1..2, j \in {2, 3}}

\* Sequences of up to six tokens.  At the start, after "(" and after an operator the
\* lexer reads no operator.
SomeTokens ==
  {s \in UNION {[1..n -> {Flag, Token("and"), Token("("), Token(")")}] : n \in 1..6} :
     \A i \in 1..Len(s) : s[i].tok = "and" => i > 1 /\ s[i - 1].tok \in {"exp", ")"}}

\* Data verification: none, or at one of two places with tokens by the minute, hour or day.
Verify(on, url, interval, meter) ==
  [enabled |-> on, url |-> url, user |-> "", interval |-> interval, rate |-> 0, meter |-> meter]
Metered(n, unit) == [tokens |-> n, unit |-> unit, notify |-> 0]
NoVerify == Verify(FALSE, "", 0, NoMeter)

\* Policies of a node or a deployment, and of a service or another of the node, whose
\* properties may repeat those of the first.
PolicyOf(ps, t, x, v) == [schema |-> x[1], props |-> ps, tree |-> t, protocols |-> x[2], verify |-> v]
SomeProtocols == {<<"2", <<>>>>, <<"2", <<NoChains("Basic")>>>>,
                  <<"2", <<[name |-> "Other", chains |-> <<"c">>], NoChains("Basic")>>>>,
                  <<"2", <<[name |-> "Other", chains |-> <<"c", "d">>]>>>>,
                  <<"2", <<NoChains("Basic"), [name |-> "Other", chains |-> <<"d">>]>>>>, <<"1", <<NoChains("Basic")>>>>}
SomeVerify == {Verify(TRUE, "u", 0, Metered(1, "min")), Verify(TRUE, "u", 9, Metered(70, "hour")),
               Verify(TRUE, "w", 5, NoMeter), Verify(FALSE, "w", 3, Metered(1441, "day"))}
FewProperties == {ps \in SomeProperties : ps[1].value[2] /\ ps[3].value[2][1] = Word(2)}
SomePolicies ==
  {PolicyOf(ps, t, x, NoVerify) : ps \in SomeProperties, t \in {Flag, AtLeast} \cup Joined({Flag}, {OneOf}),
                                  x \in {<<"2", <<>>>>}}
  \cup {PolicyOf(ps, Flag, x, NoVerify) : ps \in FewProperties, x \in SomeProtocols}
  \cup {PolicyOf(ps, AtLeast, <<"2", <<>>>>, v) : ps \in FewProperties, v \in SomeVerify}
SomeServicePolicies ==
  {PolicyOf(<<Property("n", "int", <<"number", i>>), Property("a", "boolean", <<"bool", TRUE>>)>>,
            t, <<"2", <<>>>>, v) : i \in 1..2, t \in {Flag, AtLeast}, v \in {NoVerify, Verify(TRUE, "", 4, Metered(60, "hour"))}}

\* Namespaces, and constraints that name some of them next to something else.
SomeNamespaces == {"x", "y"}
InSpace(ns) == Atom("namespace", "==", <<"text", <<<<"word", ns>>>>>>)
SomeNamespaceTrees ==
  LET spaces == {InSpace(ns) : ns \in SomeNamespaces}
  IN  spaces \cup Joined(spaces, {Flag} \cup spaces) \cup Joined({Flag}, spaces)
        \cup Joined(Joined({Flag}, spaces), spaces \cup {AtLeast})

\* Two versions of one service, which differ in everything a check looks at;
\* the first may need a privilege the node does not give.
ServicePart(priv, inputs, secrets) ==
  [name |-> "s", version |-> Release(1), privileged |-> priv, required |-> inputs, defaults |-> {},
   secrets |-> secrets]
ServiceVersion(i, type, ns, agrees, p) ==
  [id |-> i, types |-> {type}, ns |-> ns, agrees |-> agrees, parts |-> <<p>>]
ServiceVersions(i) ==
  {ServiceVersion(i, "device", "", a, ServicePart(p, q, c)) :
     a \in BOOLEAN, p \in {i = 1, FALSE}, q \in {{}, {"u"}}, c \in {<<>>, <<{"k"}>>}}
  \cup {ServiceVersion(i, "cluster", ns, a, ServicePart(FALSE, {}, <<>>)) : ns \in {"", "x"}, a \in BOOLEAN}
AnyVersion == Span(Release(1), TRUE, INF, FALSE)
SomeRequests ==
  {[policy |-> pol, refs |-> IF pol THEN <<<<v, w>>>> ELSE <<<<v>>, <<w>>>>,
    nodeType |-> t[1], scoped |-> t[2], nodeNs |-> "", nodePrivileged |-> FALSE, ns |-> "",
    input |-> [x \in {"u"} |-> IF has[1] THEN "good" ELSE "absent"],
    nodeInput |-> [x \in {"u"} |-> "absent"],
    bindings |-> IF has[2] THEN <<[service |-> "s", range |-> AnyVersion, names |-> {"k"}]>> ELSE <<>>,
    vault |-> {"k"}, last |-> "last", all |-> al] :
       pol \in BOOLEAN, v \in ServiceVersions(1), w \in ServiceVersions(2), al \in BOOLEAN,
       t \in {<<"device", FALSE>>, <<"cluster", FALSE>>, <<"cluster", TRUE>>},
       has \in {<<FALSE, TRUE>>, <<TRUE, FALSE>>, <<TRUE, TRUE>>}}

-----------------------------------------------------------------------------
VARIABLE part

vars == <<part, policyVars, objectVars, rollbackVars, compatibilityVars, listingVars, cacheVars, partitionVars>>

Init == /\ part \in Parts
        /\ PoliciesInit /\ ObjectsInit /\ RollbackInit /\ CompatibilityInit /\ ListingInit /\ CacheInit
        /\ PartitionInit
        /\ part # "objects" => orgServed
        /\ part # "rollback" => fits = Prios
        /\ part # "vault" => agbotToken = "valid"
        /\ part # "cache" => /\ program = "agbot" /\ servedOrgs = Orgs
                             /\ kind = [r \in Things |-> IF r = Service THEN "plain" ELSE "node"]

PoliciesPart == part = "policies" /\ PoliciesNext
                /\ UNCHANGED <<part, objectVars, rollbackVars, compatibilityVars, listingVars,
                                cacheVars, partitionVars>>
ObjectsPart == part = "objects" /\ ObjectsNext
               /\ UNCHANGED <<part, policyVars, rollbackVars, compatibilityVars, listingVars,
                               cacheVars, partitionVars>>
RollbackPart == part = "rollback" /\ RollbackNext
                /\ UNCHANGED <<part, policyVars, objectVars, compatibilityVars, listingVars,
                                cacheVars, partitionVars>>
CompatibilityPart == part = "compatibility" /\ CompatibilityNext
                     /\ UNCHANGED <<part, policyVars, objectVars, rollbackVars, listingVars,
                                     cacheVars, partitionVars>>
\* The times of the writes, which no listing looks at, are those of one second.
VaultPart == part = "vault" /\ ListingNext /\ UNCHANGED second
             /\ UNCHANGED <<part, policyVars, objectVars, rollbackVars, compatibilityVars,
                             cacheVars, partitionVars>>
CachePart == part = "cache" /\ CacheNext
             /\ UNCHANGED <<part, policyVars, objectVars, rollbackVars, compatibilityVars,
                             listingVars, partitionVars>>
PartitionsPart == part = "partitions" /\ PartitionNext
                  /\ UNCHANGED <<part, policyVars, objectVars, rollbackVars, compatibilityVars,
                                  listingVars, cacheVars>>

Next == PoliciesPart \/ ObjectsPart \/ RollbackPart \/ CompatibilityPart \/ VaultPart
        \/ CachePart \/ PartitionsPart

Spec == Init /\ [][Next]_vars
=============================================================================
