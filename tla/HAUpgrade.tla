----------------------------- MODULE HAUpgrade ------------------------------
(***************************************************************************)
(* Rolling upgrade of a service in a high availability group: when the     *)
(* deployment policy changes, the members' agreements are ended one member *)
(* at a time.  The turn is a row of the table ha_workload_upgrade, which   *)
(* all agbots share; a member's workload usage record says whether it is   *)
(* waiting for its turn (PendingUpgradeTime), and is seen by the agbot     *)
(* that serves the member only.  An agbot works on two threads: the        *)
(* handler of policy changes, and governance.  One group and one policy    *)
(* are modelled; a changed policy still fits every member but asks for     *)
(* another service version, and all agbots are told of it at once.         *)
(***************************************************************************)
EXTENDS Naturals

CONSTANTS Agbots, Members,
          Serves(_),    \* the agbot that serves a member: the partition of its records
          Nobody,       \* no member's turn
          KeepUsage,    \* whether a workload usage record outlives a failed agreement
          MaxPolicy, MaxFail, MaxDeath, MaxRead, MaxMatch  \* bounds on events

ASSUME HAAssumption ==
  /\ \A d \in Members : Serves(d) \in Agbots
  /\ Nobody \notin Members
  /\ KeepUsage \in BOOLEAN

VARIABLES version,   \* of the policy
          ag,        \* the agbots' record of each member's last agreement
          wlu,       \* workload_usages
          turn,      \* ha_workload_upgrade: the member whose turn it is
          changed,   \* agbots that have a policy change to handle
          main,      \* HandlePolicyChanged of each agbot
          gov,       \* governHAPartners of each agbot
          alive,     \* members that send heartbeats
          down,      \* history: members stopped for an upgrade and not running since
          spent

upgradeVars == <<version, ag, wlu, turn, changed, main, gov, alive, down, spent>>

\* An agreement: its id, the version of its policy, how far it got ("none": it is
\* archived), whether it is timed out, and whether a cancel of it is queued, and why.
Stages == {"none", "making", "final", "running"}
Reasons == {"no", "upgrade", "failed"}
Agreement == [n : Nat \ {0}, ver : Nat, st : Stages, timedout : BOOLEAN, cancel : Reasons]
NoUsage == [made |-> FALSE, pending |-> FALSE, n |-> 0]
Usage == [made : BOOLEAN, pending : BOOLEAN, n : Nat]

\* A copy of a record that a thread works on: the member, the agreement, and
\* whether it must be ended for the policy (main) or is finalized.
Item == [d : Members \cup {Nobody}, n : Nat, ver : Nat, final : BOOLEAN]
NoItem == [d |-> Nobody, n |-> 0, ver |-> 0, final |-> FALSE]
MainAt == {"idle", "next", "find", "pending", "get", "insert", "delete", "cancel"}
GovAt == {"idle", "remove", "list", "next", "get", "insert", "delete", "terminate"}
Thread(At) == [at : At, item : Item, todo : SUBSET Item]
IdleThread == [at |-> "idle", item |-> NoItem, todo |-> {}]

Mine(a) == {d \in Members : Serves(d) = a}
Open(d) == ag[d].st # "none"
Finalized(d) == ag[d].st \in {"final", "running"}
InProgress(d) == Open(d) /\ ~ag[d].timedout

Events == {"policy", "fail", "death", "read", "match"}
Limit(e) == CASE e = "policy" -> MaxPolicy [] e = "fail" -> MaxFail
              [] e = "death" -> MaxDeath [] e = "read" -> MaxRead [] OTHER -> MaxMatch
Spend(e) == spent[e] < Limit(e) /\ spent' = [spent EXCEPT ![e] = @ + 1]

UpgradeTypeOK ==
  /\ version \in Nat
  /\ ag \in [Members -> Agreement] /\ wlu \in [Members -> Usage]
  /\ \A d \in Members : ~wlu[d].made => ~wlu[d].pending /\ wlu[d].n = 0
  /\ turn \in Members \cup {Nobody}
  /\ main \in [Agbots -> Thread(MainAt)] /\ gov \in [Agbots -> Thread(GovAt)]
  /\ changed \subseteq Agbots /\ alive \subseteq Members /\ down \subseteq Members
  /\ spent \in [Events -> Nat]

\* Every member runs the service.
UpgradeInit ==
  /\ version = 1 /\ changed = {} /\ alive = Members /\ down = {}
  /\ ag = [d \in Members |-> [n |-> 1, ver |-> 1, st |-> "running",
                              timedout |-> FALSE, cancel |-> "no"]]
  /\ wlu = [d \in Members |-> [made |-> TRUE, pending |-> FALSE, n |-> 1]]
  /\ turn = Nobody
  /\ main = [a \in Agbots |-> IdleThread] /\ gov = [a \in Agbots |-> IdleThread]
  /\ spent = [e \in Events |-> 0]

-----------------------------------------------------------------------------
(* The database. *)

DeleteWorkloadUsage(d) == wlu' = [wlu EXCEPT ![d] = NoUsage]

\* Mutant: the mark is not written.
UpdatePendingLost(d) == wlu' = wlu

\* A usage that is gone is not written again.
UpdatePendingUpgrade(d) == wlu' = [wlu EXCEPT ![d].pending = wlu[d].made]

\* ha_workload_add_if_not_present, which holds a lock on the table.
Insert(d) == turn' = IF turn = Nobody THEN d ELSE turn

\* A cancel is queued for agreement n of d; it does nothing to a later agreement,
\* and the first of two cancels archives the record.
Queued(d, n, why) ==
  IF ag[d].n = n /\ Open(d) /\ ag[d].cancel = "no"
    THEN [ag EXCEPT ![d].cancel = why] ELSE ag

-----------------------------------------------------------------------------
(* The handler of policy changes. *)

Goes(t, to) == [t EXCEPT !.at = to, !.item = IF to \in {"next", "list"} THEN NoItem ELSE @]
MainGoes(a, to) == main' = [main EXCEPT ![a] = Goes(@, to)]
MainDoes(a, at) == main[a].at = at
UnchangedByMain == UNCHANGED <<version, gov, alive, down>>

\* The agreements in progress are read; each is then compared with the policy.
HandlePolicyChanged(a) ==
  /\ MainDoes(a, "idle") /\ a \in changed
  /\ changed' = changed \ {a}
  /\ main' = [main EXCEPT ![a] =
       [at |-> "next", item |-> NoItem,
        todo |-> {[d |-> d, n |-> ag[d].n, ver |-> ag[d].ver, final |-> Finalized(d)] :
                    d \in {e \in Mine(a) : InProgress(e)}}]]
  /\ UNCHANGED <<ag, wlu, turn, spent>> /\ UnchangedByMain

\* An agreement of the current policy, or one that is not finalized, is kept.
Outdated(i) == i.ver # version /\ i.final
MainNext(a) ==
  /\ MainDoes(a, "next")
  /\ \E i \in main[a].todo :
       main' = [main EXCEPT ![a] = Goes([at |-> "find", item |-> i, todo |-> @.todo \ {i}],
                                        IF Outdated(i) THEN "find" ELSE "next")]
  /\ UNCHANGED <<ag, wlu, turn, changed, spent>> /\ UnchangedByMain

\* HandlePolicyChangeForAgreement could not read the exchange: it answers that
\* the policy does not fit.
MatchFails(a) ==
  /\ MainDoes(a, "next") /\ Spend("match")
  /\ \E i \in main[a].todo :
       /\ i.ver # version
       /\ main' = [main EXCEPT ![a] = [at |-> "delete", item |-> i, todo |-> @.todo \ {i}]]
  /\ UNCHANGED <<ag, wlu, turn, changed>> /\ UnchangedByMain

FindUsage(a) ==
  /\ MainDoes(a, "find")
  /\ MainGoes(a, IF wlu[main[a].item.d].made THEN "pending" ELSE "delete")
  /\ UNCHANGED <<ag, wlu, turn, changed, spent>> /\ UnchangedByMain

\* The usage cannot be read: it is taken for one of a node outside any group.
UsageReadFails(a) ==
  /\ MainDoes(a, "find") /\ Spend("match")
  /\ MainGoes(a, "delete")
  /\ UNCHANGED <<ag, wlu, turn, changed>> /\ UnchangedByMain

\* The exchange (GetDevice) or the table cannot be read: the agreement is left as it is.
MainGivesUp(a) ==
  /\ main[a].at \in {"pending", "get", "insert"} /\ Spend("read")
  /\ MainGoes(a, "next")
  /\ UNCHANGED <<ag, wlu, turn, changed>> /\ UnchangedByMain

MainPending(a) ==
  /\ MainDoes(a, "pending")
  /\ UpdatePendingUpgrade(main[a].item.d)
  /\ MainGoes(a, "get")
  /\ UNCHANGED <<ag, turn, changed, spent>> /\ UnchangedByMain

MainGet(a) ==
  /\ MainDoes(a, "get")
  /\ MainGoes(a, IF turn = Nobody THEN "insert" ELSE "next")
  /\ UNCHANGED <<ag, wlu, turn, changed, spent>> /\ UnchangedByMain

MainInsert(a) ==
  /\ MainDoes(a, "insert")
  /\ Insert(main[a].item.d)
  /\ MainGoes(a, IF turn' = main[a].item.d THEN "delete" ELSE "next")
  /\ UNCHANGED <<ag, wlu, changed, spent>> /\ UnchangedByMain

MainDelete(a) ==
  /\ MainDoes(a, "delete")
  /\ DeleteWorkloadUsage(main[a].item.d)
  /\ MainGoes(a, "cancel")
  /\ UNCHANGED <<ag, turn, changed, spent>> /\ UnchangedByMain

MainCancel(a) ==
  /\ MainDoes(a, "cancel")
  /\ ag' = Queued(main[a].item.d, main[a].item.n, "upgrade")
  /\ MainGoes(a, "next")
  /\ UNCHANGED <<wlu, turn, changed, spent>> /\ UnchangedByMain

\* Workload usages that have no agreement are removed at the end.
MainDone(a) ==
  /\ MainDoes(a, "next") /\ main[a].todo = {}
  /\ wlu' = [d \in Members |-> IF d \in Mine(a) /\ wlu[d].n = 0 THEN NoUsage ELSE wlu[d]]
  /\ main' = [main EXCEPT ![a] = IdleThread]
  /\ UNCHANGED <<ag, turn, changed, spent>> /\ UnchangedByMain

-----------------------------------------------------------------------------
(* governHAPartners *)

GovGoes(a, to) == gov' = [gov EXCEPT ![a] = Goes(@, to)]
GovDoes(a, at) == gov[a].at = at
UnchangedByGov == UNCHANGED <<version, changed, main, alive, down>>

\* Mutant: a member without a usage has nothing left to do.
UpgradedWithoutUsage(d) ==
  \/ ~wlu[d].made
  \/ /\ ~wlu[d].pending
     /\ ag[d].n = wlu[d].n /\ ag[d].st = "running" /\ ~ag[d].timedout

\* checkWorkloadStatus, on the agbot that serves the member whose turn it is: a
\* member without a usage, or with one that waits, is still upgrading.
Upgraded(d) ==
  /\ wlu[d].made /\ ~wlu[d].pending
  /\ ag[d].n = wlu[d].n /\ ag[d].st = "running" /\ ~ag[d].timedout

governHAPartners(a) ==
  /\ GovDoes(a, "idle")
  /\ gov' = [gov EXCEPT ![a] =
       IF turn \in Mine(a) /\ Upgraded(turn)
         THEN [at |-> "remove", item |-> [NoItem EXCEPT !.d = turn], todo |-> {}]
         ELSE [IdleThread EXCEPT !.at = "list"]]
  /\ UNCHANGED <<ag, wlu, turn, spent>> /\ UnchangedByGov

DeleteHAUpgradingWorkload(a) ==
  /\ GovDoes(a, "remove")
  /\ turn' = IF turn = gov[a].item.d THEN Nobody ELSE turn
  /\ GovGoes(a, "list")
  /\ UNCHANGED <<ag, wlu, spent>> /\ UnchangedByGov

ListPending(a) ==
  /\ GovDoes(a, "list")
  /\ gov' = [gov EXCEPT ![a] =
       [at |-> "next", item |-> NoItem,
        todo |-> {[NoItem EXCEPT !.d = d, !.n = wlu[d].n] : d \in {e \in Mine(a) : wlu[e].pending}}]]
  /\ UNCHANGED <<ag, wlu, turn, spent>> /\ UnchangedByGov

GovNext(a) ==
  /\ GovDoes(a, "next")
  /\ \/ \E i \in gov[a].todo :
          gov' = [gov EXCEPT ![a] = [at |-> "get", item |-> i, todo |-> @.todo \ {i}]]
     \/ gov[a].todo = {} /\ gov' = [gov EXCEPT ![a] = IdleThread]
  /\ UNCHANGED <<ag, wlu, turn, spent>> /\ UnchangedByGov

\* The exchange (GetDevice) or the table cannot be read: all wait for the next time.
\* The row cannot be written: the next one is tried.
GovGivesUp(a) ==
  /\ Spend("read")
  /\ \/ /\ (GovDoes(a, "next") /\ gov[a].todo # {}) \/ GovDoes(a, "get")
        /\ gov' = [gov EXCEPT ![a] = IdleThread]
     \/ GovDoes(a, "insert") /\ GovGoes(a, "next")
  /\ UNCHANGED <<ag, wlu, turn>> /\ UnchangedByGov

GovGet(a) ==
  /\ GovDoes(a, "get")
  /\ GovGoes(a, IF turn = Nobody THEN "insert" ELSE "next")
  /\ UNCHANGED <<ag, wlu, turn, spent>> /\ UnchangedByGov

GovInsert(a) ==
  /\ GovDoes(a, "insert")
  /\ Insert(gov[a].item.d)
  /\ GovGoes(a, IF turn' = gov[a].item.d THEN "delete" ELSE "next")
  /\ UNCHANGED <<ag, wlu, spent>> /\ UnchangedByGov

GovDelete(a) ==
  /\ GovDoes(a, "delete")
  /\ DeleteWorkloadUsage(gov[a].item.d)
  /\ GovGoes(a, "terminate")
  /\ UNCHANGED <<ag, turn, spent>> /\ UnchangedByGov

\* TerminateAgreement, when the usage named an agreement that is not archived.
GovTerminate(a) ==
  /\ GovDoes(a, "terminate")
  /\ LET d == gov[a].item.d
         n == gov[a].item.n
     IN ag' = IF ag[d].n = n /\ Open(d)
                THEN [Queued(d, n, "upgrade") EXCEPT ![d].timedout = TRUE] ELSE ag
  /\ GovGoes(a, "next")
  /\ UNCHANGED <<wlu, turn, spent>> /\ UnchangedByGov

-----------------------------------------------------------------------------
(* The agreements' life. *)

\* CancelAgreement of an agreement worker: the usage loses its agreement, or is
\* removed, and the record is archived.
CancelAgreement(d) ==
  /\ Open(d) /\ ag[d].cancel # "no"
  /\ wlu' = [wlu EXCEPT ![d] = IF KeepUsage /\ ag[d].cancel = "failed"
                                 THEN [@ EXCEPT !.n = 0] ELSE NoUsage]
  /\ ag' = [ag EXCEPT ![d].st = "none", ![d].timedout = TRUE, ![d].cancel = "no"]
  /\ down' = IF ag[d].cancel = "upgrade" THEN down \cup {d} ELSE down
  /\ UNCHANGED <<version, turn, changed, main, gov, alive, spent>>

\* A thread that is between two accesses of the database for member d.
AtWork(d) ==
  \E a \in Agbots : \/ main[a].item.d = d /\ main[a].at \in {"get", "insert", "delete", "cancel"}
                    \/ gov[a].item.d = d /\ gov[a].at \in {"insert", "delete", "terminate"}

\* A proposal is made under the current policy and the reply is received, which
\* writes the usage.  It takes several messages to and from the member: longer
\* than a few accesses of the database.
Agree(d) ==
  /\ ~Open(d) /\ d \in alive /\ ~AtWork(d)
  /\ ag' = [ag EXCEPT ![d] = [n |-> @.n + 1, ver |-> version, st |-> "making",
                              timedout |-> FALSE, cancel |-> "no"]]
  /\ wlu' = [wlu EXCEPT ![d] = [made |-> TRUE, pending |-> @.pending, n |-> ag[d].n + 1]]
  /\ UNCHANGED <<version, turn, changed, main, gov, alive, down, spent>>

Finalize(d) ==
  /\ ag[d].st = "making" /\ InProgress(d) /\ d \in alive
  /\ ag' = [ag EXCEPT ![d].st = "final"]
  /\ UNCHANGED <<version, wlu, turn, changed, main, gov, alive, down, spent>>

\* The member reports that the service runs.
Runs(d) ==
  /\ ag[d].st = "final" /\ InProgress(d) /\ d \in alive
  /\ ag' = [ag EXCEPT ![d].st = "running"]
  /\ down' = down \ {d}
  /\ UNCHANGED <<version, wlu, turn, changed, main, gov, alive, spent>>

PolicyChanges ==
  /\ Spend("policy")
  /\ version' = version + 1 /\ changed' = Agbots
  /\ UNCHANGED <<ag, wlu, turn, main, gov, alive, down>>

\* Governance ends an agreement for a reason of its own.
Fail(d) ==
  /\ InProgress(d) /\ Spend("fail")
  /\ ag' = [Queued(d, ag[d].n, "failed") EXCEPT ![d].timedout = TRUE]
  /\ UNCHANGED <<version, wlu, turn, changed, main, gov, alive, down>>

Die(d) ==
  /\ d \in alive /\ Spend("death")
  /\ alive' = alive \ {d}
  /\ UNCHANGED <<version, ag, wlu, turn, changed, main, gov, down>>

-----------------------------------------------------------------------------
MainStep(a) ==
  \/ HandlePolicyChanged(a) \/ MainNext(a) \/ FindUsage(a) \/ MainPending(a)
  \/ MainGet(a) \/ MainInsert(a) \/ MainDelete(a) \/ MainCancel(a) \/ MainDone(a)
GovStep(a) ==
  \/ governHAPartners(a) \/ DeleteHAUpgradingWorkload(a) \/ ListPending(a) \/ GovNext(a)
  \/ GovGet(a) \/ GovInsert(a) \/ GovDelete(a) \/ GovTerminate(a)
Error(a) == MatchFails(a) \/ UsageReadFails(a) \/ MainGivesUp(a) \/ GovGivesUp(a)
MemberStep(d) == CancelAgreement(d) \/ Agree(d) \/ Finalize(d) \/ Runs(d)

UpgradeNext ==
  \/ \E a \in Agbots : MainStep(a) \/ GovStep(a) \/ Error(a)
  \/ \E d \in Members : MemberStep(d) \/ Fail(d) \/ Die(d)
  \/ PolicyChanges

UpgradeSpec == UpgradeInit /\ [][UpgradeNext]_upgradeVars

\* Each thread goes on, governance is called again and again, queued cancels are
\* worked on, and a member that is alive makes its agreement and starts the service.
UpgradeFairSpec ==
  /\ UpgradeSpec
  /\ \A a \in Agbots : WF_upgradeVars(MainStep(a)) /\ WF_upgradeVars(GovStep(a))
  /\ \A d \in Members : WF_upgradeVars(MemberStep(d))

-----------------------------------------------------------------------------
(* Properties *)

\* The inductive invariant behind OneAtATime.  What is stopped, or may be
\* stopped without looking at the table again, has the turn ...
MemberInv(d) ==
  /\ wlu[d].n = IF Open(d) /\ wlu[d].made THEN ag[d].n ELSE 0
  /\ d \in down => turn = d /\ ag[d].st # "running"
  /\ Open(d) /\ ag[d].cancel = "upgrade" => ~wlu[d].made
  /\ Open(d) /\ ~wlu[d].made => turn = d
OwnItem(a, t) ==
  /\ \A i \in t.todo : i.d \in Mine(a)
  /\ t.at \notin {"idle", "next", "list"} => t.item.d \in Mine(a)
ItemHasTurn(t) ==
  t.at \in {"delete", "cancel", "terminate"} /\ Open(t.item.d) => turn = t.item.d
\* ... a usage that the policy handler is about to delete is marked, and one that
\* was deleted is not made again before its agreement is ended ...
ItemMarked(t) ==
  t.at \in {"get", "insert", "delete"} => (wlu[t.item.d].made => wlu[t.item.d].pending)
ItemGone(t) == t.at \in {"cancel", "terminate"} => ~wlu[t.item.d].made
\* ... and governance gives the turn up for a member that is not, and will not be, stopped.
SafeToRemove(a) ==
  LET d == gov[a].item.d IN
  /\ turn = d /\ d \notin down
  /\ Open(d) => wlu[d].made
  /\ main[a].item.d = d =>
       /\ main[a].at # "insert"
       /\ main[a].at \in {"delete", "cancel"} => ~Open(d)
OwnItems(a) == OwnItem(a, main[a]) /\ OwnItem(a, gov[a])
ThreadInv(a) ==
  /\ ItemHasTurn(main[a]) /\ ItemHasTurn(gov[a])
  /\ ItemMarked(main[a])
  /\ ItemGone(main[a]) /\ ItemGone(gov[a])
  /\ gov[a].at = "remove" => SafeToRemove(a)
HAInv ==
  /\ UpgradeTypeOK
  /\ \A d \in Members : MemberInv(d)
  /\ \A a \in Agbots : OwnItems(a) /\ ThreadInv(a)

\* At most one member of the group is stopped for an upgrade: the next one is
\* stopped when the one before runs the service again (governHAPartners and
\* CancelAgreement, which only act for the member whose row is in the table).
OneAtATime == \A d, e \in down : d = e

\* A member whose turn it is does not wait for its turn for ever
\* (checkWorkloadStatus takes a usage that waits for one that is upgrading).
TurnIsUsed == \A d \in Members : (turn = d /\ wlu[d].pending) ~> ~(turn = d /\ wlu[d].pending)

\* Every member that is alive runs the service of the last policy in the end,
\* and goes on running it (HandlePolicyChanged marks it, governHAPartners gives
\* it its turn).
EveryMemberUpgraded ==
  <>[](\A d \in alive : ag[d].st = "running" /\ ag[d].ver = version)
=============================================================================
