---------------------------- MODULE MCAgentParts ----------------------------
(* TLC instances of the parts of the agent beside the agreement protocol and
   the bus: registration, the synchronisation of node policy and user input
   with the exchange, node management policies and the feed of changes.

   Each part is a specification of its own.  A behaviour of this module is a
   behaviour of one of them, the part chosen at the start; the others keep
   their initial state.  Node policy and user input share no state and are
   checked apart. *)
EXTENDS NodeConfig, NodeSync, NodeManagement, ChangeFeed

\* The parts the run checks.
CONSTANTS Parts

\* Both NMPs are due at once: "p" asks for an older version, "q" for the latest.
DueAtOnce == [n \in NMPs |-> 0]
OldAndLatest == [n \in NMPs |-> IF n = "p" THEN 1 ELSE 0]

\* Node and organization ask for nothing, or for the shortest interval always.
FewConfigs == {[min |-> 0, max |-> 0, increment |-> 0], [min |-> 0, max |-> 1, increment |-> 0]}

VARIABLE part

vars == <<part, configVars, syncVars, managementVars, feedVars>>

Init == /\ part \in Parts
        /\ ConfigInit /\ SyncInit /\ ManagementInit /\ FeedInit
        /\ part # "config" => exch = NewExchangeNode(NoPattern)
        /\ part # "management" => kind = [cluster |-> FALSE, haGroup |-> FALSE]

ConfigPart == part = "config" /\ ConfigNext
              /\ UNCHANGED <<part, syncVars, managementVars, feedVars>>
PolicyPart == part = "policy" /\ (SyncPolicyStep \/ SyncRestart)
              /\ UNCHANGED <<part, configVars, managementVars, feedVars>>
InputPart == part = "input" /\ (SyncInputStep \/ SyncRestart)
             /\ UNCHANGED <<part, configVars, managementVars, feedVars>>
ManagementPart == part = "management" /\ ManagementNext
                  /\ UNCHANGED <<part, configVars, syncVars, feedVars>>
FeedPart == part = "feed" /\ FeedNext
            /\ UNCHANGED <<part, configVars, syncVars, managementVars>>

Next == ConfigPart \/ PolicyPart \/ InputPart \/ ManagementPart \/ FeedPart

Spec == Init /\ [][Next]_vars
=============================================================================
