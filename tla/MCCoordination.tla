--------------------------- MODULE MCCoordination ---------------------------
(* TLC instances of the parts that coordinate the workers of an agbot and the
   agbots of a group: the lock of an agreement, the work queue, the agreement
   records, the search for nodes, the rolling upgrade of an HA group and the
   threads that bring a changed secret to the agreements.

   Each part is a specification of its own.  A behaviour of this module is a
   behaviour of one of them, the part chosen at the start; the others keep
   their initial state. *)
EXTENDS AgreementLock, WorkQueue, AgreementStore, NodeSearch, HAUpgrade, SecretUpdates

\* The parts the run checks.
CONSTANTS Parts

\* Two agbots, the second of which serves member d2; or one for both members.
CONSTANTS a1, a2, d1, d2
ServesTwo(d) == IF d = d2 THEN a2 ELSE a1
ServesOne(d) == a1

\* A policy and a pattern that bind one secret of the organization.
OnePath == {<<"a">>}
BothBind == [d \in {"pol", "pat"} |-> OnePath]

VARIABLE part

vars == <<part, lockVars, queueVars, storeVars, searchVars, upgradeVars, secretVars>>

Init == /\ part \in Parts
        /\ LockInit /\ QueueInit /\ StoreInit /\ SearchInit /\ UpgradeInit /\ SecretsInit
        /\ part # "store" => db = "bolt"
        /\ part # "secrets" => agbotToken = "valid"

LockPart == part = "lock" /\ LockNext
            /\ UNCHANGED <<part, queueVars, storeVars, searchVars, upgradeVars, secretVars>>
QueuePart == part = "queue" /\ QueueNext
             /\ UNCHANGED <<part, lockVars, storeVars, searchVars, upgradeVars, secretVars>>
StorePart == part = "store" /\ StoreNext
             /\ UNCHANGED <<part, lockVars, queueVars, searchVars, upgradeVars, secretVars>>
SearchPart == part = "search" /\ SearchNext
              /\ UNCHANGED <<part, lockVars, queueVars, storeVars, upgradeVars, secretVars>>
UpgradePart == part = "upgrade" /\ UpgradeNext
               /\ UNCHANGED <<part, lockVars, queueVars, storeVars, searchVars, secretVars>>
\* Requests that only read, or are refused, change nothing but their answer; they are
\* left to the run of the vault.
SecretsPart == part = "secrets" /\ SecretsNext /\ (answer' # 0 => vault' # vault)
               /\ UNCHANGED <<part, lockVars, queueVars, storeVars, searchVars, upgradeVars>>

Next == LockPart \/ QueuePart \/ StorePart \/ SearchPart \/ UpgradePart \/ SecretsPart

Spec == Init /\ [][Next]_vars

\* The fairness of each part (LockFairness, QueueFairness, ...) while it runs.
Fairness ==
  /\ \A w \in LockWorkers : /\ WF_lockVars(part = "lock" /\ Step(w))
                            /\ SF_lockVars(part = "lock" /\ Lock(w))
  /\ WF_queueVars(part = "queue" /\ Prepare)
  /\ SF_queueVars(part = "queue" /\ ReceiveHigh)
  /\ SF_queueVars(part = "queue" /\ \E w \in Workers : Dispatch(w))
  /\ \A w \in Workers : WF_queueVars(part = "queue" /\ Finish(w))
  /\ \A s \in Senders : SF_queueVars(part = "queue" /\ Send(s))
  /\ \A a \in Searchers : /\ WF_searchVars(part = "search" /\ SearchStep(a))
                          /\ WF_searchVars(part = "search" /\ PolicyNoticed(a))
  /\ \A a \in Agbots : /\ WF_upgradeVars(part = "upgrade" /\ MainStep(a))
                       /\ WF_upgradeVars(part = "upgrade" /\ GovStep(a))
  /\ \A d \in Members : WF_upgradeVars(part = "upgrade" /\ MemberStep(d))

FairSpec == Spec /\ Fairness

\* Bound: with Postgresql one update at a time, raced by the deletes; the
\* updates overlap with bolt, which the properties about overlaps are about.
OneUpdateInPostgresql ==
  db = "postgresql" => Cardinality({w \in Threads : ~IdleWriter(w)}) <= 1

-----------------------------------------------------------------------------
(* Properties *)

\* EveryNodeTaken of NodeSearch where the search runs: every node that a policy
\* may be deployed to is, in the end, handed to an agbot by the search.
SearchTakesEveryNode == part = "search" => EveryNodeTaken
=============================================================================
