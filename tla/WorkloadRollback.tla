-------------------------- MODULE WorkloadRollback --------------------------
(***************************************************************************)
(* The choice among the prioritized versions of a service, for one node    *)
(* and one deployment policy.  A workload usage record remembers the       *)
(* priority in use, the retries it has used and the time of its first try. *)
(* An agreement worker picks a workload from it, the reply of the node     *)
(* creates or moves it, and it is deleted when the choice has to start     *)
(* over: at the end of an agreement, or when the policy changes.  These    *)
(* are different workers, and they meet in the database only.              *)
(***************************************************************************)
EXTENDS Integers, FiniteSets, Sequences, SequencesExt, FiniteSetsExt

CONSTANTS Order,           \* the priorities in the order of the policy
          RetryLimit, RetryDuration,
          MaxContent,      \* bound on the versions of one workload
          MaxDeals, MaxClock, MaxPolicyEdits

Prios == {Order[i] : i \in DOMAIN Order}

\* A workload without a priority has priority 0, and is the only one of its policy.
ASSUME RollbackAssumption ==
  Order \in Seq(Nat \ {0}) /\ RetryLimit \in [Prios -> Nat] /\ RetryDuration \in [Prios -> Nat]

VARIABLES policy,    \* the policy: version of the workload of a priority, or 0
          fits,      \* the priorities whose workload the node can run
          usage,     \* the workload usage record
          attempt,   \* the worker that makes an agreement
          deal,      \* the agreement
          cancels,   \* queued cancellations of it
          news,      \* changes the agbot has not handled: "policy", "node"
          clock, policyEdits, dealCount,
          tries, offered   \* history of the record, see RollbackIsEarned

rollbackVars == <<policy, fits, usage, attempt, deal, cancels, news, clock, policyEdits,
                  dealCount, tries, offered>>
worldVars == <<policy, fits, clock, policyEdits>>

NoUsage == [prio |-> -1, retries |-> 0, dur |-> 0, first |-> 0, agid |-> 0, reqs |-> FALSE]
Resting == [pc |-> "idle", id |-> 0, pol |-> [p \in Prios |-> 0], last |-> 0, choice |-> 0]
NoDeal == [id |-> 0, prio |-> 0, pol |-> [p \in Prios |-> 0], state |-> "none"]

Offered(pol) == {p \in Prios : pol[p] # 0}

RollbackInit ==
  /\ policy = [p \in Prios |-> 1] /\ fits \in SUBSET Prios
  /\ usage = NoUsage /\ attempt = Resting /\ deal = NoDeal /\ cancels = {} /\ news = {}
  /\ clock = 0 /\ policyEdits = 0 /\ dealCount = 0
  /\ tries = [p \in Prios |-> 0] /\ offered = {}

-----------------------------------------------------------------------------
(* The record in the database.  An agreement id is replaced only from or to
   the empty one. *)
AgId(u, id) == IF (u.agid = 0) # (id = 0) THEN id ELSE u.agid

NewWorkloadUsage(p, reqs, id) ==
  [prio |-> p, retries |-> 0, dur |-> RetryDuration[p], first |-> clock, agid |-> id, reqs |-> reqs]
UpdatePriority(u, p, id) ==
  [u EXCEPT !.prio = p, !.retries = 0, !.dur = RetryDuration[p], !.first = clock, !.agid = AgId(u, id)]
UpdateRetryCount(u, n, id) ==
  LET late == u.first + u.dur < clock
  IN  [u EXCEPT !.retries = IF late THEN 1 ELSE n, !.first = IF late THEN clock ELSE @, !.agid = AgId(u, id)]

\* The history ends with the record.
WriteUsage(u) == usage' = u /\ UNCHANGED <<tries, offered>>
DeleteWorkloadUsage == usage' = NoUsage /\ tries' = [p \in Prios |-> 0] /\ offered' = {}
KeepUsage == UNCHANGED <<usage, tries, offered>>

\* NextHighestPriorityWorkload: stay while retries are left or the time is
\* over, else go down, else the lowest.
NextHighestPriorityWorkload(pol, cur, retries, first) ==
  LET ws == Offered(pol)
      lower == {p \in ws : p > cur}
  IN  CASE Cardinality(ws) = 1 -> CHOOSE p \in ws : TRUE
        [] OTHER ->
           IF cur \in ws /\ (RetryLimit[cur] > retries \/ clock - first > RetryDuration[cur]) THEN cur
           ELSE IF lower # {} THEN Min(lower)
           ELSE IF cur \in ws THEN cur
           ELSE Order[Min({i \in DOMAIN Order : Order[i] \in ws})]

-----------------------------------------------------------------------------
(* InitiateNewAgreement. *)
StartAttempt ==
  /\ attempt = Resting /\ deal = NoDeal /\ dealCount < MaxDeals /\ Offered(policy) # {}
  /\ dealCount' = dealCount + 1
  /\ attempt' = [Resting EXCEPT !.pc = "choose", !.id = dealCount + 1, !.pol = policy]
  /\ KeepUsage /\ UNCHANGED worldVars /\ UNCHANGED <<deal, cancels, news>>

Chosen ==
  IF usage = NoUsage \/ Cardinality(Offered(attempt.pol)) = 1
  THEN NextHighestPriorityWorkload(attempt.pol, 0, 0, 0)
  ELSE NextHighestPriorityWorkload(attempt.pol, usage.prio, usage.retries + 1, usage.first)

\* The same workload twice in a row: no workload of the policy fits.
NothingFits ==
  /\ attempt.pc = "choose" /\ Chosen = attempt.last
  /\ attempt' = Resting /\ DeleteWorkloadUsage
  /\ UNCHANGED worldVars /\ UNCHANGED <<deal, cancels, news, dealCount>>

ProposeWorkload ==
  /\ attempt.pc = "choose" /\ Chosen # attempt.last /\ Chosen \in fits
  /\ deal' = [id |-> attempt.id, prio |-> Chosen, pol |-> attempt.pol, state |-> "proposed"]
  /\ attempt' = Resting
  /\ KeepUsage /\ UNCHANGED worldVars /\ UNCHANGED <<cancels, news, dealCount>>

RejectWorkload ==
  /\ attempt.pc = "choose" /\ Chosen # attempt.last /\ Chosen \notin fits
  /\ attempt' = [attempt EXCEPT !.pc = "record", !.choice = Chosen]
  /\ KeepUsage /\ UNCHANGED worldVars /\ UNCHANGED <<deal, cancels, news, dealCount>>

\* A record that is missing, or one that is already there, ends the attempt.
RecordMisfit ==
  /\ attempt.pc = "record"
  /\ LET first == attempt.last = 0
         ok == first <=> usage = NoUsage
     IN  IF ok THEN /\ attempt' = [attempt EXCEPT !.pc = "bump"]
                    /\ usage' = IF first THEN NewWorkloadUsage(attempt.choice, TRUE, attempt.id)
                                ELSE UpdatePriority(usage, attempt.choice, attempt.id)
                    /\ offered' = Offered(attempt.pol) \cap (IF first THEN Prios ELSE offered)
                    /\ UNCHANGED tries
         ELSE attempt' = Resting /\ KeepUsage
  /\ UNCHANGED worldVars /\ UNCHANGED <<deal, cancels, news, dealCount>>

BumpRetries ==
  /\ attempt.pc = "bump"
  /\ IF usage # NoUsage
     THEN /\ WriteUsage(UpdateRetryCount(usage, RetryLimit[attempt.choice] + 1, attempt.id))
          /\ attempt' = [attempt EXCEPT !.pc = "choose", !.last = attempt.choice]
     ELSE attempt' = Resting /\ KeepUsage
  /\ UNCHANGED worldVars /\ UNCHANGED <<deal, cancels, news, dealCount>>

\* An error of the exchange, a suspended service, the wrong architecture.
AttemptFails ==
  /\ attempt.pc = "choose" /\ attempt' = Resting
  /\ KeepUsage /\ UNCHANGED worldVars /\ UNCHANGED <<deal, cancels, news, dealCount>>

-----------------------------------------------------------------------------
(* HandleAgreementReply: the node accepted the proposal. *)
\* Mutant: the priority is not checked again when the record is gone.
ReplyWithoutRecordAtAnyPriority ==
  /\ deal.state = "proposed" /\ usage = NoUsage
  /\ deal' = [deal EXCEPT !.state = "accepted"]
  /\ usage' = NewWorkloadUsage(deal.prio, FALSE, deal.id)
  /\ tries' = [tries EXCEPT ![deal.prio] = @ + 1] /\ offered' = Offered(deal.pol)
  /\ UNCHANGED worldVars /\ UNCHANGED <<attempt, cancels, news, dealCount>>

ReplyWithoutRecord ==
  /\ deal.state = "proposed" /\ usage = NoUsage
  /\ IF deal.prio = NextHighestPriorityWorkload(deal.pol, 0, 0, 0)
     THEN /\ deal' = [deal EXCEPT !.state = "accepted"]
          /\ usage' = NewWorkloadUsage(deal.prio, FALSE, deal.id)
          /\ tries' = [tries EXCEPT ![deal.prio] = @ + 1] /\ offered' = Offered(deal.pol)
     ELSE deal' = [deal EXCEPT !.state = "rejected"] /\ KeepUsage
  /\ UNCHANGED worldVars /\ UNCHANGED <<attempt, cancels, news, dealCount>>

ReplyWithRecord ==
  /\ deal.state = "proposed" /\ usage # NoUsage
  /\ deal' = [deal EXCEPT !.state = "accepted"]
  /\ usage' = LET u == IF deal.prio # usage.prio THEN UpdatePriority(usage, deal.prio, deal.id)
                       ELSE UpdateRetryCount(usage, usage.retries + 1, deal.id)
              IN  [u EXCEPT !.agid = AgId(u, deal.id)]
  /\ tries' = [tries EXCEPT ![deal.prio] = @ + 1] /\ offered' = offered \cap Offered(deal.pol)
  /\ UNCHANGED <<attempt, cancels, news, dealCount>> /\ UNCHANGED worldVars

Finalize ==
  /\ deal.state = "accepted" /\ deal' = [deal EXCEPT !.state = "final"]
  /\ KeepUsage /\ UNCHANGED worldVars /\ UNCHANGED <<attempt, cancels, news, dealCount>>

\* A negative reply or ack, a failed workload, a timeout; a node that leaves.
Fail(reason) ==
  /\ deal # NoDeal /\ reason \in {"other", "shutdown"} /\ cancels' = cancels \cup {reason}
  /\ KeepUsage /\ UNCHANGED worldVars /\ UNCHANGED <<attempt, deal, news, dealCount>>

\* CancelAgreement: the record forgets the agreement, and is deleted if the
\* next agreement has to start with the highest priority.
CancelAgreement(reason) ==
  /\ reason \in cancels /\ deal # NoDeal
  /\ deal' = NoDeal /\ cancels' = {}
  /\ IF usage = NoUsage THEN KeepUsage
     ELSE IF usage.reqs \/ usage.prio = 0 \/ reason # "other" THEN DeleteWorkloadUsage
     ELSE WriteUsage([usage EXCEPT !.agid = 0])
  /\ UNCHANGED worldVars /\ UNCHANGED <<attempt, news, dealCount>>

\* HandleWorkloadUpgrade, an upgrade forced by the API.
HandleWorkloadUpgrade ==
  /\ usage # NoUsage \/ deal # NoDeal
  /\ deal' = NoDeal /\ cancels' = {} /\ DeleteWorkloadUsage
  /\ UNCHANGED worldVars /\ UNCHANGED <<attempt, news, dealCount>>

-----------------------------------------------------------------------------
(* Changes of the policy and of the node. *)
EditPolicyOf(p, c) ==
  /\ policyEdits < MaxPolicyEdits /\ c # policy[p]
  /\ policy' = [policy EXCEPT ![p] = c] /\ Offered(policy') # {}
  /\ policyEdits' = policyEdits + 1 /\ news' = news \cup {"policy"}
  /\ KeepUsage /\ UNCHANGED <<fits, clock, attempt, deal, cancels, dealCount>>

EditNode(ps) ==
  /\ policyEdits < MaxPolicyEdits /\ ps # fits /\ fits' = ps
  /\ policyEdits' = policyEdits + 1 /\ news' = news \cup {"node"}
  /\ KeepUsage /\ UNCHANGED <<policy, clock, attempt, deal, cancels, dealCount>>

\* GetNextWorkloadChoice looks for a smaller priority value than the current.
GetNextWorkloadChoice(pol, cur) ==
  LET ps == {p \in Offered(pol) : cur = -1 \/ p < cur} IN IF ps = {} THEN 0 ELSE Min(ps)

\* The workloads that HandlePolicyChangeForAgreement compares with the old
\* policy: the first choice, and the choices after it.
Compared(pol, upTo) ==
  LET c1 == GetNextWorkloadChoice(pol, -1)
      c2 == IF c1 # 0 /\ c1 <= upTo THEN GetNextWorkloadChoice(pol, c1) ELSE 0
  IN  {c1, c2} \ {0}

\* HandlePolicyChangeForAgreement: is the agreement still valid?
HandlePolicyChangeForAgreement(checkOld) ==
  LET used == IF usage = NoUsage THEN 0 ELSE usage.prio
  IN  \/ deal.state # "final"
      \/ /\ used \in Offered(policy)
         /\ checkOld => \A p \in Compared(policy, used) : deal.pol[p] = policy[p]

\* CancelAgreement of the protocol handler, outside an HA group.
EndInvalid == DeleteWorkloadUsage /\ cancels' = cancels \cup {"policy"} /\ UNCHANGED deal

HandlePolicyChanged ==
  /\ "policy" \in news /\ news' = news \ {"policy"}
  /\ IF deal # NoDeal /\ deal.pol # policy
     THEN \/ deal.prio \notin fits /\ EndInvalid
          \/ deal.prio \in fits /\ ~HandlePolicyChangeForAgreement(TRUE) /\ EndInvalid
          \/ /\ deal.prio \in fits /\ HandlePolicyChangeForAgreement(TRUE)
             \* an update was sent, which the node may refuse
             /\ \E pol \in {deal.pol, policy} :
                  deal' = IF deal.state = "final" THEN [deal EXCEPT !.pol = pol] ELSE deal
             /\ IF usage.agid = 0 THEN DeleteWorkloadUsage ELSE KeepUsage
             /\ UNCHANGED cancels
     ELSE /\ IF usage.agid = 0 THEN DeleteWorkloadUsage ELSE KeepUsage
          /\ UNCHANGED <<deal, cancels>>
  /\ UNCHANGED worldVars /\ UNCHANGED <<attempt, dealCount>>

HandleNodeChanged ==
  /\ "node" \in news /\ news' = news \ {"node"}
  /\ IF deal # NoDeal /\ (deal.prio \notin fits \/ ~HandlePolicyChangeForAgreement(FALSE))
     THEN EndInvalid ELSE KeepUsage /\ UNCHANGED <<deal, cancels>>
  /\ UNCHANGED worldVars /\ UNCHANGED <<attempt, dealCount>>

RollbackTick ==
  /\ clock < MaxClock /\ clock' = clock + 1
  /\ KeepUsage /\ UNCHANGED <<policy, fits, policyEdits, attempt, deal, cancels, news, dealCount>>

RollbackNext ==
  \/ StartAttempt \/ NothingFits \/ ProposeWorkload \/ RejectWorkload \/ RecordMisfit \/ BumpRetries
  \/ AttemptFails \/ ReplyWithoutRecord \/ ReplyWithRecord \/ Finalize
  \/ \E reason \in {"other", "shutdown", "policy"} : Fail(reason) \/ CancelAgreement(reason)
  \/ HandleWorkloadUpgrade \/ HandlePolicyChanged \/ HandleNodeChanged \/ RollbackTick
  \/ \E p \in Prios, c \in 0..MaxContent : EditPolicyOf(p, c)
  \/ \E ps \in SUBSET Prios : EditNode(ps)

RollbackSpec == RollbackInit /\ [][RollbackNext]_rollbackVars

-----------------------------------------------------------------------------
RollbackTypeOK ==
  /\ usage = NoUsage \/ usage.prio \in Prios
  /\ attempt.pc \in {"idle", "choose", "record", "bump"} /\ attempt.last \in Prios \cup {0}
  /\ deal.state \in {"none", "proposed", "rejected", "accepted", "final"}
  /\ cancels \subseteq {"other", "shutdown", "policy"} /\ offered \subseteq Prios

(* A record that outlives its agreement (it is not marked reqsNotMet) is at a
   lower priority only if every higher one that was on offer to each of the
   agreements made under the record was tried as often as its retries ask; also
   when the policy changes, and the record is deleted, between the choice of a
   workload and the reply of the node (agreementworker.go:1071). *)
RollbackIsEarned ==
  (usage # NoUsage /\ ~usage.reqs) =>
    \A q \in offered : q < usage.prio => tries[q] >= RetryLimit[q]

(* "If the service is not successfully started, the next highest version will be
   attempted" (docs/deployment_policy.md:45): an attempt whose choice does not
   fit goes on to the next one.  With a record from an earlier agreement the
   first choice is recorded by creating a record that is already there, and the
   attempt ends (agreementworker.go:730). *)
NextVersionAttempted ==
  [][attempt.pc = "record" /\ attempt'.pc = "idle" => usage = NoUsage]_rollbackVars

(* "for every priority (in order highest to lowest) in the new policy with
   priority lower than the current wl if it's not in the old policy, cancel"
   (consumer_protocol_handler.go:470): a running agreement that keeps its place
   has no changed workload above it.  Only the highest one is compared
   (policy/workload.go:231). *)
HigherPriorityCancels ==
  [][("policy" \in news /\ news' = news \ {"policy"} /\ deal.state = "final" /\ cancels' = cancels) =>
       \A p \in Prios : (p <= usage.prio /\ policy[p] # 0) => deal.pol[p] = policy[p]]_rollbackVars
=============================================================================
