--------------------------- MODULE MCAgentServices ---------------------------
(* TLC instances of the services of agreements, the Docker networks between
   them, their secrets, and the operators of services in a cluster.  A behaviour
   is one of one part; the others keep their initial state. *)
EXTENDS AgentServices, ContainerNetworks, AgentSecrets, KubeOperator

\* The parts the run checks.
CONSTANTS Parts

\* Agreement "a" requires a service it shares with "b" and one that is started
\* for each of its users.
SharedAndOwn == [g \in Agreements |-> IF g = "a" THEN <<"s", "t">> ELSE <<"s">>]

\* One of the agreements asks for retries.
RetriesOfOne == [g \in Agreements |-> IF g = "a" THEN 2 ELSE 0]

\* Workload "w" requires m, m requires c, and workload "v" requires c, which
\* has two containers.
ChainAndShare == [w |-> {"m"}, v |-> {"c"}, m |-> {"c"}, c |-> {}]
LeafFirst == <<"c", "m">>
TwoForTheLeaf == [o \in Owners |-> IF o = "c" THEN {"1", "2"} ELSE {"1"}]

\* Both agreements provide secret l, and x provides k too.
SharedSecret == [a \in SecretDeals |-> [i \in Instances |-> IF a = "x" THEN {"k", "l"} ELSE {"l"}]]

\* Agent g is restricted to its namespace, agent h is not.  Two agents, two
\* namespaces of one agent, and two agreements that follow each other in one.
AgentSpaces == [g |-> "g", h |-> "h"]
TwoAgents == [d |-> [agent |-> "g", space |-> NoSpace], e |-> [agent |-> "h", space |-> "t"]]
TwoSpaces == [d |-> [agent |-> "h", space |-> "s"], e |-> [agent |-> "h", space |-> "t"]]
OneSpace == [d |-> [agent |-> "h", space |-> "t"], e |-> [agent |-> "h", space |-> "t"]]
ThreePlaces == {TwoAgents, TwoSpaces, OneSpace}

\* The subject of the binding has a namespace or not; an operator that cannot be processed.
OperatorWith(subject, secretSpace, secrets) ==
  [meta |-> NoSpace, namespace |-> NoSpace, secretSpace |-> secretSpace, deploySpace |-> NoSpace,
   subject |-> subject, wellFormed |-> TRUE, wide |-> ~secrets, secrets |-> secrets, volume |-> ~secrets]
ThreeOperators ==
  {OperatorWith("z", NoSpace, TRUE), OperatorWith(NoSpace, NoSpace, FALSE),
   [OperatorWith("z", "s", TRUE) EXCEPT !.meta = "t"]}

VARIABLE part

vars == <<part, serviceVars, networkVars, agentSecretVars, kubeVars>>

Init == /\ part \in Parts
        /\ ServicesInit /\ NetworksInit /\ AgentSecretsInit /\ KubeInit
        /\ part # "services" => usePattern
        /\ part # "cluster" => place = TwoSpaces
        \* Agreements in two namespaces would share a subject, of which nothing is claimed.
        /\ (place = TwoSpaces) => operator.subject = NoSpace
        /\ (place = OneSpace) => operator.subject # NoSpace

ServicesPart == part = "services" /\ ServicesNext
                /\ UNCHANGED <<part, networkVars, agentSecretVars, kubeVars>>
NetworksPart == part = "networks" /\ NetworksNext
                /\ UNCHANGED <<part, serviceVars, agentSecretVars, kubeVars>>
SecretsPart == part = "secrets" /\ AgentSecretsNext
               /\ UNCHANGED <<part, serviceVars, networkVars, kubeVars>>
ClusterPart == part = "cluster" /\ KubeNext
               /\ UNCHANGED <<part, serviceVars, networkVars, agentSecretVars>>

Next == ServicesPart \/ NetworksPart \/ SecretsPart \/ ClusterPart

Spec == Init /\ [][Next]_vars

\* Any two of a fault, a restart and a new version come together, with a pattern
\* not the first two; and any two of a container that stops, a Docker error and a restart.
TwoTroubles ==
  /\ faults + stops + newest <= 3 /\ (usePattern => faults + stops <= 1)
  /\ boxStops + dockerErrors + workerStops <= 2

\* Nothing is claimed of agreements that were raced: once all were there is nothing to check.
NotAllRaced == raced # KubeDeals
=============================================================================
