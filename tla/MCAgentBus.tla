----------------------------- MODULE MCAgentBus -----------------------------
(***************************************************************************)
(* Small groups of workers, each the part of the agent (or of the agbot)   *)
(* that one question about the shutdown needs.                             *)
(***************************************************************************)
EXTENDS AgentBus

WithWorkloads == {"API", "Governance", "Resource", "Container"}
WithFeed == {"ExchangeChanges", "Governance", "Resource"}
WithPolicyWatcher == {"ExchangeChanges", "Governance", "Resource", "Agreement"}
WithNodeManagement == {"ExchangeChanges", "Governance", "Resource", "NodeManagement"}
OnCluster == {"API", "Governance", "Resource", "Kube"}
Agbot == {"AgBot", "AgBot API"}

MCWorkerSets == {WithWorkloads, WithFeed, WithPolicyWatcher, WithNodeManagement, OnCluster, Agbot}
\* From the feed come as many requests to shut down as fill a TermChan that nobody reads any more:
\* three when it has one place.  Two shutdowns at the same time where there are workloads, one elsewhere.
MCTermPlaces == [ws \in MCWorkerSets |-> IF ws = WithFeed THEN 1 ELSE 2]
MCMaxArrivals == [ws \in MCWorkerSets |-> CASE ws = WithFeed -> 3 [] ws = WithWorkloads -> 2 [] OTHER -> 1]
\* As small as a command needs; with three requests they hold all commands, as the 200 places do.
MCCommandQueueSize == [ws \in MCWorkerSets |-> IF ws = WithFeed THEN 8 ELSE 2]
MCMaxWork == [ws \in MCWorkerSets |-> IF ws = WithFeed THEN 0 ELSE 1]
MCSavedPatterns == [ws \in MCWorkerSets |-> IF ws = WithFeed THEN {FALSE} ELSE BOOLEAN]
MCSubWorkers == [w \in {"Governance", "Agreement", "NodeManagement", "AgBot"} |-> {"s1"}]
MCArrivals == [w \in {"ExchangeChanges", "API", "AgBot API"} |->
                 CASE w = "ExchangeChanges" -> {"NODE_HEARTBEAT_RESTORED"}
                   [] w = "API" -> {"API_AGREEMENT_ENDED"}
                   [] w = "AgBot API" -> {"START_AGBOT_QUIESCE"}]
=============================================================================
