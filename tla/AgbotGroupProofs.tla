-------------------------- MODULE AgbotGroupProofs --------------------------
(***************************************************************************)
(* Proofs about what the agbots of a group share.                          *)
(*                                                                         *)
(* HAUpgrade, for any agbots, members and partition: its types, and that   *)
(* one member at a time is stopped for an upgrade when no comparison of a  *)
(* policy fails.                                                           *)
(*                                                                         *)
(* NodeSearch, for any nodes: its types, and that the search misses no     *)
(* node, for several agbots that take turns at the pages of one session    *)
(* and for one agbot through restarts, retries and policy changes.         *)
(***************************************************************************)
EXTENDS HAUpgrade, NodeSearch, FiniteSetTheorems, TLAPS

\* A thread that goes on keeps its type (Goes, the threads' program counters).
LEMMA GoesType ==
  ASSUME NEW At, NEW t \in Thread(At), NEW to \in At
  PROVE  /\ Goes(t, to) \in Thread(At)
         /\ Goes(t, to).at = to
         /\ Goes(t, to).item = IF to \in {"next", "list"} THEN NoItem ELSE t.item
         /\ Goes(t, to).todo = t.todo
<1>1. NoItem \in Item
  BY DEF NoItem, Item
<1> QED
  BY <1>1 DEF Goes, Thread

\* The types of the usages, as TypeOK states them.
UsagesOK == /\ wlu \in [Members -> Usage]
            /\ \A d \in Members : ~wlu[d].made => ~wlu[d].pending /\ wlu[d].n = 0

\* One usage is replaced by one that is in order (DeleteWorkloadUsage,
\* UpdatePendingUpgrade, UpdateWUAgreementId).
LEMMA UsageReplaced ==
  ASSUME UpgradeTypeOK, NEW d \in Members, NEW u \in Usage, wlu' = [wlu EXCEPT ![d] = u],
         ~u.made => ~u.pending /\ u.n = 0
  PROVE  UsagesOK'
BY DEF UpgradeTypeOK, UsagesOK

\* A queued cancel keeps the records' type (Queued, NewCancelAgreement).
LEMMA QueuedType ==
  ASSUME UpgradeTypeOK, NEW d \in Members, NEW n, NEW why \in Reasons
  PROVE  /\ Queued(d, n, why) \in [Members -> Agreement]
         /\ [Queued(d, n, why) EXCEPT ![d].timedout = TRUE] \in [Members -> Agreement]
BY DEF UpgradeTypeOK, Queued, Agreement

\* Every handler's step keeps the types of its records and threads.
LEMMA MainType ==
  ASSUME UpgradeTypeOK, NEW a \in Agbots, OwnItems(a), MainStep(a) \/ MatchFails(a) \/ UsageReadFails(a) \/ MainGivesUp(a)
  PROVE  UpgradeTypeOK'
<1> USE DEF UnchangedByMain
<1>0. main[a] \in Thread(MainAt) /\ main[a].item \in Item /\ main[a].todo \subseteq Item
  BY DEF UpgradeTypeOK, Thread
<1>d. main[a].at \notin {"idle", "next"} => main[a].item.d \in Members
  BY <1>0 DEF OwnItems, OwnItem, Mine, MainAt, Thread
<1>g. ASSUME NEW to \in MainAt, MainGoes(a, to)
      PROVE  main' \in [Agbots -> Thread(MainAt)]
  <2>1. Goes(main[a], to) \in Thread(MainAt)
    BY <1>0, GoesType
  <2> QED BY <1>g, <2>1 DEF UpgradeTypeOK, MainGoes
<1>1. CASE HandlePolicyChanged(a)
  <2>1. {[d |-> d, n |-> ag[d].n, ver |-> ag[d].ver, final |-> Finalized(d)] :
            d \in {e \in Mine(a) : InProgress(e)}} \subseteq Item
    <3>1. ASSUME NEW d \in Members
          PROVE  [d |-> d, n |-> ag[d].n, ver |-> ag[d].ver, final |-> Finalized(d)] \in Item
      <4>1. ag[d].n \in Nat /\ ag[d].ver \in Nat /\ Finalized(d) \in BOOLEAN
        BY DEF UpgradeTypeOK, Agreement, Finalized
      <4> QED BY <4>1 DEF Item
    <3> QED BY <3>1 DEF Mine
  <2>2. NoItem \in Item
    BY DEF NoItem, Item
  <2>3. main' \in [Agbots -> Thread(MainAt)]
    BY <1>1, <2>1, <2>2 DEF HandlePolicyChanged, UpgradeTypeOK, Thread, MainAt
  <2> QED BY <1>1, <2>3 DEF HandlePolicyChanged, UpgradeTypeOK
<1>2. CASE MainNext(a) \/ MatchFails(a)
  <2>1. main' \in [Agbots -> Thread(MainAt)]
    <3>1. PICK i \in main[a].todo :
            \/ main' = [main EXCEPT ![a] = Goes([at |-> "find", item |-> i, todo |-> main[a].todo \ {i}],
                                        IF Outdated(i) THEN "find" ELSE "next")]
            \/ main' = [main EXCEPT ![a] = [at |-> "delete", item |-> i, todo |-> main[a].todo \ {i}]]
      BY <1>2, <1>0 DEF MainNext, MatchFails, UpgradeTypeOK
    <3>2. [at |-> "find", item |-> i, todo |-> main[a].todo \ {i}] \in Thread(MainAt)
      BY <1>0 DEF Thread, MainAt
    <3>3. [at |-> "delete", item |-> i, todo |-> main[a].todo \ {i}] \in Thread(MainAt)
      BY <1>0 DEF Thread, MainAt
    <3>4. Goes([at |-> "find", item |-> i, todo |-> main[a].todo \ {i}],
                IF Outdated(i) THEN "find" ELSE "next") \in Thread(MainAt)
      BY <3>2, GoesType DEF MainAt
    <3> QED BY <3>1, <3>3, <3>4 DEF UpgradeTypeOK
  <2> QED BY <1>2, <2>1 DEF MainNext, MatchFails, UpgradeTypeOK, Spend, Events
<1>3. CASE FindUsage(a) \/ UsageReadFails(a) \/ MainGivesUp(a) \/ MainGet(a)
  <2>1. main' \in [Agbots -> Thread(MainAt)]
    BY <1>3, <1>g DEF FindUsage, UsageReadFails, MainGivesUp, MainGet, MainAt
  <2> QED BY <1>3, <2>1 DEF FindUsage, UsageReadFails, MainGivesUp, MainGet, UpgradeTypeOK, Spend, Events
<1>4. CASE MainPending(a)
  <2>1. main' \in [Agbots -> Thread(MainAt)]
    BY <1>4, <1>g DEF MainPending, MainAt
  <2>2. UsagesOK'
    <3> DEFINE e == main[a].item.d
               u == [wlu[e] EXCEPT !.pending = wlu[e].made]
    <3>1. e \in Members /\ wlu[e] \in Usage
      BY <1>4, <1>0, <1>d DEF MainPending, MainDoes, UpgradeTypeOK
    <3>2. u \in Usage /\ u.made = wlu[e].made /\ u.pending = wlu[e].made /\ u.n = wlu[e].n
      BY <3>1 DEF Usage
    <3>3. wlu' = [wlu EXCEPT ![e] = u]
      BY <1>4 DEF MainPending, UpdatePendingUpgrade
    <3> HIDE DEF e, u
    <3>4. ~u.made => ~u.pending /\ u.n = 0
      BY <3>1, <3>2 DEF UpgradeTypeOK
    <3> QED BY <3>1, <3>2, <3>3, <3>4, UsageReplaced
  <2> QED BY <1>4, <2>1, <2>2 DEF MainPending, UpgradeTypeOK, UsagesOK
<1>5. CASE MainInsert(a)
  <2>1. main' \in [Agbots -> Thread(MainAt)]
    BY <1>5, <1>g DEF MainInsert, MainAt
  <2>2. turn' \in Members \cup {Nobody}
    BY <1>5, <1>0, <1>d DEF MainInsert, MainDoes, Insert, UpgradeTypeOK
  <2> QED BY <1>5, <2>1, <2>2 DEF MainInsert, UpgradeTypeOK
<1>6. CASE MainDelete(a)
  <2>1. main' \in [Agbots -> Thread(MainAt)]
    BY <1>6, <1>g DEF MainDelete, MainAt
  <2>2. UsagesOK'
    <3>1. main[a].item.d \in Members /\ wlu' = [wlu EXCEPT ![main[a].item.d] = NoUsage]
      BY <1>6, <1>0, <1>d DEF MainDelete, MainDoes, DeleteWorkloadUsage
    <3>2. NoUsage \in Usage /\ ~NoUsage.pending /\ NoUsage.n = 0
      BY DEF NoUsage, Usage
    <3> QED BY <3>1, <3>2, UsageReplaced
  <2> QED BY <1>6, <2>1, <2>2 DEF MainDelete, UpgradeTypeOK, UsagesOK
<1>7. CASE MainCancel(a)
  <2>1. main' \in [Agbots -> Thread(MainAt)]
    BY <1>7, <1>g DEF MainCancel, MainAt
  <2>2. ag' \in [Members -> Agreement]
    BY <1>7, <1>0, <1>d, QueuedType DEF MainCancel, MainDoes, Reasons
  <2> QED BY <1>7, <2>1, <2>2 DEF MainCancel, UpgradeTypeOK
<1>8. CASE MainDone(a)
  <2>1. main' \in [Agbots -> Thread(MainAt)]
    BY <1>8 DEF MainDone, UpgradeTypeOK, Thread, MainAt, IdleThread, NoItem, Item
  <2>2. UsagesOK'
    BY <1>8 DEF MainDone, UpgradeTypeOK, Usage, NoUsage, UsagesOK
  <2> QED BY <1>8, <2>1, <2>2 DEF MainDone, UpgradeTypeOK, UsagesOK
<1> QED
  BY <1>1, <1>2, <1>3, <1>4, <1>5, <1>6, <1>7, <1>8 DEF MainStep

\* The same for governance (governHAPartners).
LEMMA GovType ==
  ASSUME UpgradeTypeOK, NEW a \in Agbots, OwnItems(a), GovStep(a) \/ GovGivesUp(a)
  PROVE  UpgradeTypeOK'
<1> USE DEF UnchangedByGov
<1>0. gov[a] \in Thread(GovAt) /\ gov[a].item \in Item /\ gov[a].todo \subseteq Item
  BY DEF UpgradeTypeOK, Thread
<1>d. gov[a].at \notin {"idle", "next", "list"} => gov[a].item.d \in Members
  BY <1>0 DEF OwnItems, OwnItem, Mine, GovAt, Thread
<1>i. NoItem \in Item
  BY DEF NoItem, Item
<1>g. ASSUME NEW to \in GovAt, GovGoes(a, to)
      PROVE  gov' \in [Agbots -> Thread(GovAt)]
  <2>1. Goes(gov[a], to) \in Thread(GovAt)
    BY <1>0, GoesType
  <2> QED BY <1>g, <2>1 DEF UpgradeTypeOK, GovGoes
<1>1. CASE governHAPartners(a)
  <2>1. [NoItem EXCEPT !.d = turn] \in Item
    BY DEF UpgradeTypeOK, NoItem, Item
  <2>2. [at |-> "remove", item |-> [NoItem EXCEPT !.d = turn], todo |-> {}] \in Thread(GovAt)
    BY <2>1 DEF Thread, GovAt
  <2>3. [IdleThread EXCEPT !.at = "list"] \in Thread(GovAt)
    BY <1>i DEF IdleThread, Thread, GovAt
  <2>4. gov' \in [Agbots -> Thread(GovAt)]
    BY <1>1, <2>2, <2>3 DEF governHAPartners, UpgradeTypeOK
  <2> QED BY <1>1, <2>4 DEF governHAPartners, UpgradeTypeOK
<1>2. CASE DeleteHAUpgradingWorkload(a)
  <2>1. gov' \in [Agbots -> Thread(GovAt)]
    BY <1>2, <1>g DEF DeleteHAUpgradingWorkload, GovAt
  <2> QED BY <1>2, <2>1 DEF DeleteHAUpgradingWorkload, UpgradeTypeOK
<1>3. CASE ListPending(a)
  <2>1. {[NoItem EXCEPT !.d = d, !.n = wlu[d].n] : d \in {e \in Mine(a) : wlu[e].pending}}
          \subseteq Item
    <3>1. ASSUME NEW d \in Members PROVE [NoItem EXCEPT !.d = d, !.n = wlu[d].n] \in Item
      <4>1. wlu[d].n \in Nat
        BY DEF UpgradeTypeOK, Usage
      <4> QED BY <4>1 DEF NoItem, Item
    <3> QED BY <3>1 DEF Mine
  <2>2. gov' \in [Agbots -> Thread(GovAt)]
    BY <1>3, <1>i, <2>1 DEF ListPending, UpgradeTypeOK, Thread, GovAt
  <2> QED BY <1>3, <2>2 DEF ListPending, UpgradeTypeOK
<1>4. CASE GovNext(a) \/ GovGivesUp(a)
  <2>1. IdleThread \in Thread(GovAt)
    BY <1>i DEF IdleThread, Thread, GovAt
  <2>2. ASSUME NEW i \in gov[a].todo
        PROVE  [at |-> "get", item |-> i, todo |-> gov[a].todo \ {i}] \in Thread(GovAt)
    BY <1>0 DEF Thread, GovAt
  <2>3. gov' \in [Agbots -> Thread(GovAt)]
    BY <1>4, <1>g, <2>1, <2>2 DEF GovNext, GovGivesUp, UpgradeTypeOK, GovAt
  <2> QED BY <1>4, <2>3 DEF GovNext, GovGivesUp, UpgradeTypeOK, Spend, Events
<1>5. CASE GovGet(a)
  <2>1. gov' \in [Agbots -> Thread(GovAt)]
    BY <1>5, <1>g DEF GovGet, GovAt
  <2> QED BY <1>5, <2>1 DEF GovGet, UpgradeTypeOK
<1>6. CASE GovInsert(a)
  <2>1. gov' \in [Agbots -> Thread(GovAt)]
    BY <1>6, <1>g DEF GovInsert, GovAt
  <2>2. turn' \in Members \cup {Nobody}
    BY <1>6, <1>d DEF GovInsert, GovDoes, Insert, UpgradeTypeOK
  <2> QED BY <1>6, <2>1, <2>2 DEF GovInsert, UpgradeTypeOK
<1>7. CASE GovDelete(a)
  <2>1. gov' \in [Agbots -> Thread(GovAt)]
    BY <1>7, <1>g DEF GovDelete, GovAt
  <2>2. UsagesOK'
    <3>1. gov[a].item.d \in Members /\ wlu' = [wlu EXCEPT ![gov[a].item.d] = NoUsage]
      BY <1>7, <1>0, <1>d DEF GovDelete, GovDoes, DeleteWorkloadUsage
    <3>2. NoUsage \in Usage /\ ~NoUsage.pending /\ NoUsage.n = 0
      BY DEF NoUsage, Usage
    <3> QED BY <3>1, <3>2, UsageReplaced
  <2> QED BY <1>7, <2>1, <2>2 DEF GovDelete, UpgradeTypeOK, UsagesOK
<1>8. CASE GovTerminate(a)
  <2>1. gov' \in [Agbots -> Thread(GovAt)]
    BY <1>8, <1>g DEF GovTerminate, GovAt
  <2>2. ag' \in [Members -> Agreement]
    BY <1>8, <1>d, QueuedType DEF GovTerminate, GovDoes, Reasons, UpgradeTypeOK
  <2> QED BY <1>8, <2>1, <2>2 DEF GovTerminate, UpgradeTypeOK
<1> QED
  BY <1>1, <1>2, <1>3, <1>4, <1>5, <1>6, <1>7, <1>8 DEF GovStep

\* The same for the agreements' life (CancelAgreement, HandleAgreementReply).
LEMMA MemberType ==
  ASSUME UpgradeTypeOK, NEW d \in Members, MemberStep(d) \/ Fail(d) \/ Die(d)
  PROVE  UpgradeTypeOK'
<1>0. ag[d] \in Agreement /\ wlu[d] \in Usage
  BY DEF UpgradeTypeOK
<1>1. CASE CancelAgreement(d)
  <2> DEFINE u == IF KeepUsage /\ ag[d].cancel = "failed" THEN [wlu[d] EXCEPT !.n = 0] ELSE NoUsage
  <2>1. u \in Usage /\ (~u.made => ~u.pending /\ u.n = 0)
    BY <1>0 DEF Usage, NoUsage, UpgradeTypeOK
  <2>2. UsagesOK'
    <3>1. wlu' = [wlu EXCEPT ![d] = u]
      BY <1>1 DEF CancelAgreement
    <3> HIDE DEF u
    <3> QED BY <2>1, <3>1, UsageReplaced
  <2>3. ag' \in [Members -> Agreement]
    BY <1>1, <1>0 DEF CancelAgreement, UpgradeTypeOK, Agreement, Stages, Reasons
  <2> QED BY <1>1, <2>2, <2>3 DEF CancelAgreement, UpgradeTypeOK, UsagesOK
<1>2. CASE Agree(d)
  <2>1. ag[d].n + 1 \in Nat \ {0} /\ wlu[d].pending \in BOOLEAN
    BY <1>0 DEF Agreement, Usage
  <2> DEFINE u == [made |-> TRUE, pending |-> wlu[d].pending, n |-> ag[d].n + 1]
  <2>2. UsagesOK'
    <3>1. u \in Usage /\ u.made
      BY <2>1 DEF Usage
    <3>2. wlu' = [wlu EXCEPT ![d] = u]
      BY <1>2 DEF Agree
    <3> HIDE DEF u
    <3> QED BY <3>1, <3>2, UsageReplaced
  <2>3. [n |-> ag[d].n + 1, ver |-> version, st |-> "making", timedout |-> FALSE, cancel |-> "no"]
          \in Agreement
    BY <2>1 DEF Agreement, Stages, Reasons, UpgradeTypeOK
  <2> QED BY <1>2, <2>2, <2>3 DEF Agree, UpgradeTypeOK, UsagesOK
<1>3. CASE Finalize(d) \/ Runs(d)
  BY <1>3, <1>0 DEF Finalize, Runs, UpgradeTypeOK, Agreement, Stages
<1>4. CASE Fail(d)
  <2>1. ag' \in [Members -> Agreement]
    BY <1>4, QueuedType DEF Fail, Reasons
  <2> QED BY <1>4, <2>1 DEF Fail, UpgradeTypeOK, Spend, Events
<1>5. CASE Die(d)
  BY <1>5 DEF Die, UpgradeTypeOK, Spend, Events
<1> QED BY <1>1, <1>2, <1>3, <1>4, <1>5 DEF MemberStep

-----------------------------------------------------------------------------
(* A thread works on members of its own agbot. *)

\* No step gives a thread a member of another agbot (FindAgreements and
\* FindWorkloadUsages read the agbot's own partition).
LEMMA OwnItemsStep ==
  ASSUME UpgradeTypeOK, NEW b \in Agbots, OwnItems(b), UpgradeNext
  PROVE  OwnItems(b)'
<1> USE DEF OwnItem, OwnItems
<1>0. main[b] \in Thread(MainAt) /\ gov[b] \in Thread(GovAt)
  BY DEF UpgradeTypeOK
<1>1. ASSUME NEW a \in Agbots, MainStep(a) \/ MatchFails(a) \/ UsageReadFails(a) \/ MainGivesUp(a)
      PROVE  OwnItems(b)'
  <2>1. gov' = gov
    BY <1>1 DEF MainStep, MatchFails, UsageReadFails, MainGivesUp, HandlePolicyChanged, MainNext,
           FindUsage, MainPending, MainGet, MainInsert, MainDelete, MainCancel, MainDone, UnchangedByMain
  <2>2. CASE a # b
    <3>1. main'[b] = main[b]
      BY <1>1, <2>2 DEF MainStep, MatchFails, UsageReadFails, MainGivesUp, HandlePolicyChanged, MainNext,
           FindUsage, MainPending, MainGet, MainInsert, MainDelete, MainCancel, MainDone, MainGoes, UpgradeTypeOK
    <3> QED BY <2>1, <3>1
  <2>3. CASE a = b
    <3>1. CASE HandlePolicyChanged(a)
      BY <3>1, <2>1, <2>3 DEF HandlePolicyChanged, UpgradeTypeOK
    <3>2. CASE MainNext(a)
      <4>1. PICK i \in main[a].todo :
              main' = [main EXCEPT ![a] = Goes([at |-> "find", item |-> i, todo |-> main[a].todo \ {i}],
                                        IF Outdated(i) THEN "find" ELSE "next")]
        BY <3>2 DEF MainNext, UpgradeTypeOK
      <4>2. [at |-> "find", item |-> i, todo |-> main[a].todo \ {i}] \in Thread(MainAt)
        BY <1>0, <2>3 DEF Thread, MainAt
      <4>3. /\ main'[a].todo = main[a].todo \ {i}
            /\ main'[a].at \notin {"idle", "next", "list"} => main'[a].item = i
        BY <4>1, <4>2, GoesType DEF UpgradeTypeOK, MainAt
      <4> QED BY <2>1, <2>3, <4>3
    <3>3. CASE MatchFails(a)
      BY <3>3, <2>1, <2>3 DEF MatchFails, UpgradeTypeOK
    <3>4. CASE MainDone(a)
      BY <3>4, <2>1, <2>3 DEF MainDone, UpgradeTypeOK, IdleThread
    <3>5. ASSUME NEW to \in MainAt, MainGoes(a, to), main[a].at \notin {"idle", "next"}
          PROVE  OwnItems(b)'
      <4>1. main'[a] = Goes(main[a], to)
        BY <3>5 DEF MainGoes, UpgradeTypeOK
      <4>2. /\ main'[a].todo = main[a].todo
            /\ to \notin {"next", "list"} => main'[a].item = main[a].item
            /\ main'[a].at = to
        BY <4>1, <1>0, <2>3, GoesType
      <4>3. main[a].at # "list"
        BY <1>0, <2>3 DEF Thread, MainAt
      <4> QED BY <3>5, <2>1, <2>3, <4>2, <4>3
    <3>6. CASE FindUsage(a) \/ UsageReadFails(a) \/ MainGivesUp(a) \/ MainGet(a) \/ MainPending(a)
      BY <3>6, <3>5 DEF FindUsage, UsageReadFails, MainGivesUp, MainGet, MainPending, MainDoes, MainAt
    <3>7. CASE MainInsert(a) \/ MainDelete(a) \/ MainCancel(a)
      BY <3>7, <3>5 DEF MainInsert, MainDelete, MainCancel, MainDoes, MainAt
    <3> QED BY <1>1, <3>1, <3>2, <3>3, <3>4, <3>6, <3>7 DEF MainStep
  <2> QED BY <2>2, <2>3
<1>2. ASSUME NEW a \in Agbots, GovStep(a) \/ GovGivesUp(a)
      PROVE  OwnItems(b)'
  <2>1. main' = main
    BY <1>2 DEF GovStep, GovGivesUp, governHAPartners, DeleteHAUpgradingWorkload, ListPending,
           GovNext, GovGet, GovInsert, GovDelete, GovTerminate, UnchangedByGov
  <2>2. CASE a # b
    <3>1. gov'[b] = gov[b]
      BY <1>2, <2>2 DEF GovStep, GovGivesUp, governHAPartners, DeleteHAUpgradingWorkload, ListPending,
           GovNext, GovGet, GovInsert, GovDelete, GovTerminate, GovGoes, UpgradeTypeOK
    <3> QED BY <2>1, <3>1
  <2>3. CASE a = b
    <3>1. CASE governHAPartners(a)
      <4>1. gov'[a].todo = {} /\ (gov'[a].at \notin {"idle", "next", "list"} => gov'[a].item.d \in Mine(a))
        BY <3>1 DEF governHAPartners, UpgradeTypeOK, IdleThread, NoItem
      <4> QED BY <2>1, <2>3, <4>1
    <3>2. CASE ListPending(a)
      <4>1. \A i \in gov'[a].todo : i.d \in Mine(a)
        BY <3>2 DEF ListPending, UpgradeTypeOK, NoItem
      <4>2. gov'[a].at = "next"
        BY <3>2 DEF ListPending, UpgradeTypeOK
      <4> QED BY <2>1, <2>3, <4>1, <4>2
    <3>5. ASSUME NEW to \in GovAt, GovGoes(a, to),
                 gov[a].at \notin {"idle", "next", "list"} \/ to \in {"next", "list"}
          PROVE  OwnItems(b)'
      <4>1. gov'[a] = Goes(gov[a], to)
        BY <3>5 DEF GovGoes, UpgradeTypeOK
      <4>2. /\ gov'[a].todo = gov[a].todo
            /\ to \notin {"next", "list"} => gov'[a].item = gov[a].item
            /\ gov'[a].at = to
        BY <4>1, <1>0, <2>3, GoesType
      <4> QED BY <3>5, <2>1, <2>3, <4>2
    <3>3. CASE GovNext(a) \/ GovGivesUp(a)
      <4>1. CASE gov' = [gov EXCEPT ![a] = IdleThread]
        BY <4>1, <2>1, <2>3 DEF IdleThread, UpgradeTypeOK
      <4>2. CASE \E i \in gov[a].todo :
                   gov' = [gov EXCEPT ![a] = [at |-> "get", item |-> i, todo |-> gov[a].todo \ {i}]]
        BY <4>2, <2>1, <2>3 DEF UpgradeTypeOK
      <4>3. CASE GovGoes(a, "next")
        BY <4>3, <3>5 DEF GovAt
      <4> QED BY <3>3, <4>1, <4>2, <4>3 DEF GovNext, GovGivesUp, UpgradeTypeOK
    <3>4. CASE DeleteHAUpgradingWorkload(a) \/ GovGet(a) \/ GovInsert(a) \/ GovDelete(a) \/ GovTerminate(a)
      BY <3>4, <3>5 DEF DeleteHAUpgradingWorkload, GovGet, GovInsert, GovDelete, GovTerminate, GovDoes, GovAt
    <3> QED BY <1>2, <3>1, <3>2, <3>3, <3>4 DEF GovStep
  <2> QED BY <2>2, <2>3
<1>3. ASSUME NEW d \in Members, MemberStep(d) \/ Fail(d) \/ Die(d)
      PROVE  OwnItems(b)'
  BY <1>3 DEF MemberStep, CancelAgreement, Agree, Finalize, Runs, Fail, Die
<1>4. CASE PolicyChanges
  BY <1>4 DEF PolicyChanges
<1> QED BY <1>1, <1>2, <1>3, <1>4 DEF UpgradeNext, Error

\* Every step keeps the types.
LEMMA TypeStep ==
  ASSUME UpgradeTypeOK, \A a \in Agbots : OwnItems(a), UpgradeNext
  PROVE  UpgradeTypeOK'
<1>1. CASE PolicyChanges
  BY <1>1 DEF PolicyChanges, UpgradeTypeOK, Spend, Events
<1> QED BY <1>1, MainType, GovType, MemberType DEF UpgradeNext, Error

\* Every member runs the service at the start.
LEMMA InitTypes == UpgradeInit => UpgradeTypeOK
<1> SUFFICES ASSUME UpgradeInit PROVE UpgradeTypeOK
  OBVIOUS
<1>1. IdleThread \in Thread(MainAt) /\ IdleThread \in Thread(GovAt)
  BY DEF IdleThread, Thread, MainAt, GovAt, NoItem, Item
<1>2. ag \in [Members -> Agreement]
  BY DEF UpgradeInit, Agreement, Stages, Reasons
<1>3. UsagesOK
  BY DEF UpgradeInit, Usage, UsagesOK
<1> QED BY <1>1, <1>2, <1>3 DEF UpgradeInit, UpgradeTypeOK, UsagesOK

\* The variables always have their types, and a usage that is gone stays empty
\* until a reply makes one (the guards of the threads and of the usage updates).
THEOREM HATypeCorrect == UpgradeSpec => []UpgradeTypeOK
<1> DEFINE Inv == UpgradeTypeOK /\ \A a \in Agbots : OwnItems(a)
<1>1. UpgradeInit => Inv
  <2> SUFFICES ASSUME UpgradeInit PROVE Inv
    OBVIOUS
  <2>1. \A a \in Agbots : OwnItems(a)
    BY DEF UpgradeInit, OwnItems, OwnItem, IdleThread
  <2> QED BY <2>1, InitTypes
<1>2. Inv /\ [UpgradeNext]_upgradeVars => Inv'
  <2> SUFFICES ASSUME Inv, [UpgradeNext]_upgradeVars PROVE Inv'
    OBVIOUS
  <2>1. CASE UpgradeNext
    BY <2>1, TypeStep, OwnItemsStep
  <2>2. CASE UNCHANGED upgradeVars
    BY <2>2 DEF upgradeVars, UpgradeTypeOK, OwnItems, OwnItem
  <2> QED BY <2>1, <2>2
<1> QED BY <1>1, <1>2, PTL DEF UpgradeSpec

-----------------------------------------------------------------------------
(* One member at a time is stopped. *)

\* A step that leaves a member's records and its turn as they are.
Same(d) == /\ ag'[d] = ag[d] /\ wlu'[d] = wlu[d]
           /\ (turn' = d <=> turn = d) /\ (d \in down' <=> d \in down)

\* What is known of member d is known after such a step.
LEMMA FrameMember ==
  ASSUME NEW d \in Members, MemberInv(d), Same(d)
  PROVE  MemberInv(d)'
BY DEF MemberInv, Same, Open

\* The threads of an agbot that did not step are not disturbed by changes to
\* members that the agbot does not serve (the partition).
LEMMA FrameThread ==
  ASSUME UpgradeTypeOK, NEW b \in Agbots, OwnItems(b), ThreadInv(b),
         main'[b] = main[b], gov'[b] = gov[b], \A d \in Mine(b) : Same(d)
  PROVE  ThreadInv(b)'
<1>1. main[b].at \in MainAt /\ gov[b].at \in GovAt
  BY DEF UpgradeTypeOK, Thread
<1>2. ItemHasTurn(main[b])'
  BY <1>1 DEF ThreadInv, ItemHasTurn, OwnItems, OwnItem, Same, Open
<1>3. ItemHasTurn(gov[b])'
  BY <1>1 DEF ThreadInv, ItemHasTurn, OwnItems, OwnItem, Same, Open
<1>4. ItemMarked(main[b])'
  BY <1>1 DEF ThreadInv, ItemMarked, OwnItems, OwnItem, Same
<1>5. (gov[b].at = "remove" => SafeToRemove(b))'
  BY <1>1 DEF ThreadInv, SafeToRemove, OwnItems, OwnItem, Same, Open
<1>6. ItemGone(main[b])' /\ ItemGone(gov[b])'
  BY <1>1 DEF ThreadInv, ItemGone, OwnItems, OwnItem, Same
<1> QED BY <1>2, <1>3, <1>4, <1>5, <1>6 DEF ThreadInv

\* A step of agbot a, or of a member d that it serves, that changes nothing
\* of any other member or agbot, disturbs neither.
LEMMA FrameOthers ==
  ASSUME HAInv, NEW a \in Agbots, NEW d \in Mine(a),
         \A e \in Members \ {d} : Same(e),
         \A b \in Agbots \ {a} : main'[b] = main[b] /\ gov'[b] = gov[b]
  PROVE  /\ \A e \in Members \ {d} : MemberInv(e)'
         /\ \A b \in Agbots \ {a} : ThreadInv(b)'
<1>1. ASSUME NEW e \in Members \ {d} PROVE MemberInv(e)'
  BY <1>1, FrameMember DEF HAInv
<1>2. ASSUME NEW b \in Agbots \ {a} PROVE ThreadInv(b)'
  <2>1. \A e \in Mine(b) : Same(e)
    BY DEF Mine
  <2> QED BY <2>1, FrameThread DEF HAInv
<1> QED BY <1>1, <1>2

\* The same for a step of a thread that changes nothing but the thread.
LEMMA FrameAll ==
  ASSUME HAInv, NEW a \in Agbots, ag' = ag, wlu' = wlu, turn' = turn, down' = down,
         \A b \in Agbots \ {a} : main'[b] = main[b] /\ gov'[b] = gov[b]
  PROVE  /\ \A e \in Members : MemberInv(e)'
         /\ \A b \in Agbots \ {a} : ThreadInv(b)'
<1>0. \A e \in Members : Same(e)
  BY DEF Same
<1>1. ASSUME NEW e \in Members PROVE MemberInv(e)'
  BY <1>0, FrameMember DEF HAInv
<1>2. ASSUME NEW b \in Agbots \ {a} PROVE ThreadInv(b)'
  BY <1>0, FrameThread DEF HAInv, Mine
<1> QED BY <1>1, <1>2

\* Where a thread is after it went on (MainGoes, GovGoes).
LEMMA MainMoves ==
  ASSUME UpgradeTypeOK, NEW a \in Agbots, NEW to \in MainAt, MainGoes(a, to)
  PROVE  /\ main'[a].at = to
         /\ main'[a].item = IF to \in {"next", "list"} THEN NoItem ELSE main[a].item
         /\ \A b \in Agbots \ {a} : main'[b] = main[b]
<1>1. main[a] \in Thread(MainAt)
  BY DEF UpgradeTypeOK
<1>2. main'[a] = Goes(main[a], to) /\ \A b \in Agbots \ {a} : main'[b] = main[b]
  BY DEF UpgradeTypeOK, MainGoes
<1> QED BY <1>1, <1>2, GoesType

\* The same for governance.
LEMMA GovMoves ==
  ASSUME UpgradeTypeOK, NEW a \in Agbots, NEW to \in GovAt, GovGoes(a, to)
  PROVE  /\ gov'[a].at = to
         /\ gov'[a].item = IF to \in {"next", "list"} THEN NoItem ELSE gov[a].item
         /\ \A b \in Agbots \ {a} : gov'[b] = gov[b]
<1>1. gov[a] \in Thread(GovAt)
  BY DEF UpgradeTypeOK
<1>2. gov'[a] = Goes(gov[a], to) /\ \A b \in Agbots \ {a} : gov'[b] = gov[b]
  BY DEF UpgradeTypeOK, GovGoes
<1> QED BY <1>1, <1>2, GoesType

\* Steps of the policy handler that change nothing but the thread.
LEMMA MainThinks ==
  ASSUME HAInv, NEW a \in Agbots,
         \/ HandlePolicyChanged(a) \/ MainNext(a) \/ FindUsage(a) \/ MainGet(a) \/ MainGivesUp(a)
  PROVE  /\ \A e \in Members : MemberInv(e)'
         /\ \A b \in Agbots : ThreadInv(b)'
<1> USE DEF UnchangedByMain
<1>0. UpgradeTypeOK /\ OwnItems(a) /\ ThreadInv(a)
  BY DEF HAInv
<1>t. main[a] \in Thread(MainAt) /\ main[a].at \in MainAt /\ gov[a].at \in GovAt
  BY <1>0 DEF UpgradeTypeOK, Thread
<1>1. ag' = ag /\ wlu' = wlu /\ turn' = turn /\ down' = down /\ gov' = gov
  BY DEF HandlePolicyChanged, MainNext, FindUsage, MainGet, MainGivesUp
<1>2. \A b \in Agbots \ {a} : main'[b] = main[b]
  BY <1>0 DEF HandlePolicyChanged, MainNext, FindUsage, MainGet, MainGivesUp, MainGoes, UpgradeTypeOK
<1>3. /\ main'[a].at \in {"next", "find", "pending"}
         \/ /\ main'[a].at = "delete" /\ main[a].at = "find"
            /\ ~wlu[main[a].item.d].made /\ main'[a].item = main[a].item
         \/ /\ main'[a].at = "insert" /\ main[a].at = "get" /\ turn = Nobody
            /\ main'[a].item = main[a].item
  <2>1. CASE HandlePolicyChanged(a)
    BY <2>1, <1>0 DEF HandlePolicyChanged, UpgradeTypeOK
  <2>2. CASE MainNext(a)
    <3>1. PICK i \in main[a].todo :
            main' = [main EXCEPT ![a] = Goes([at |-> "find", item |-> i, todo |-> main[a].todo \ {i}],
                                      IF Outdated(i) THEN "find" ELSE "next")]
      BY <2>2, <1>0 DEF MainNext, UpgradeTypeOK
    <3>2. [at |-> "find", item |-> i, todo |-> main[a].todo \ {i}] \in Thread(MainAt)
      BY <1>t DEF Thread, MainAt
    <3> QED BY <1>0, <3>1, <3>2, GoesType DEF UpgradeTypeOK, MainAt
  <2>3. CASE FindUsage(a)
    BY <2>3, <1>0, MainMoves DEF FindUsage, MainDoes, MainAt
  <2>4. CASE MainGet(a)
    BY <2>4, <1>0, MainMoves DEF MainGet, MainDoes, MainAt
  <2>5. CASE MainGivesUp(a)
    BY <2>5, <1>0, MainMoves DEF MainGivesUp, MainAt
  <2> QED BY <2>1, <2>2, <2>3, <2>4, <2>5
<1>4. ThreadInv(a)'
  <2>1. ItemHasTurn(main[a])'
    <3>1. CASE main'[a].at = "delete"
      <4>1. main[a].item.d \in Members
        BY <1>3, <3>1, <1>0 DEF OwnItems, OwnItem, Mine
      <4>2. MemberInv(main[a].item.d)
        BY <4>1 DEF HAInv
      <4> QED BY <1>1, <1>3, <3>1, <4>2 DEF ItemHasTurn, MemberInv, Open
    <3> QED BY <1>3, <3>1 DEF ItemHasTurn
  <2>2. ItemHasTurn(gov[a])'
    BY <1>0, <1>1 DEF ThreadInv, ItemHasTurn, Open
  <2>3. ItemMarked(main[a])'
    BY <1>0, <1>1, <1>3 DEF ThreadInv, ItemMarked
  <2>4. (gov[a].at = "remove" => SafeToRemove(a))'
    <3> SUFFICES ASSUME gov[a].at = "remove" PROVE SafeToRemove(a)'
      BY <1>1
    <3>1. SafeToRemove(a) /\ gov[a].item.d \in Members
      BY <1>0 DEF ThreadInv, OwnItems, OwnItem, Mine
    <3>2. gov[a].item.d # Nobody
      BY <3>1, HAAssumption
    <3> QED BY <1>1, <1>3, <3>1, <3>2 DEF SafeToRemove, Open
  <2>5. ItemGone(main[a])' /\ ItemGone(gov[a])'
    BY <1>0, <1>1, <1>3 DEF ThreadInv, ItemGone
  <2> QED BY <2>1, <2>2, <2>3, <2>4, <2>5 DEF ThreadInv
<1> QED BY <1>1, <1>2, <1>4, FrameAll

\* The mark that a member waits is written (UpdatePendingUpgrade).
LEMMA MainPendingInv ==
  ASSUME HAInv, NEW a \in Agbots, MainPending(a)
  PROVE  /\ \A e \in Members : MemberInv(e)'
         /\ \A b \in Agbots : ThreadInv(b)'
<1> USE DEF UnchangedByMain
<1>0. UpgradeTypeOK /\ OwnItems(a) /\ ThreadInv(a)
  BY DEF HAInv
<1>t. main[a].at = "pending" /\ gov[a].at \in GovAt
  BY <1>0 DEF UpgradeTypeOK, Thread, MainPending, MainDoes
<1>p. PICK d \in Mine(a) : d = main[a].item.d
  BY <1>0, <1>t DEF OwnItems, OwnItem
<1>d. d \in Members /\ MemberInv(d)
  BY DEF Mine, HAInv
<1>1. ag' = ag /\ turn' = turn /\ down' = down /\ gov' = gov
  BY DEF MainPending
<1>2. /\ main'[a].at = "get" /\ main'[a].item = main[a].item
      /\ \A b \in Agbots \ {a} : main'[b] = main[b]
  BY <1>0, MainMoves DEF MainPending, MainAt
<1>3. /\ wlu'[d].made = wlu[d].made /\ wlu'[d].pending = wlu[d].made /\ wlu'[d].n = wlu[d].n
      /\ \A e \in Members \ {d} : wlu'[e] = wlu[e]
  BY <1>0, <1>p, <1>d DEF MainPending, UpdatePendingUpgrade, UpgradeTypeOK, Usage
<1>4. \A e \in Members \ {d} : Same(e)
  BY <1>1, <1>3 DEF Same
<1>5. MemberInv(d)'
  BY <1>1, <1>3, <1>d DEF MemberInv, Open
<1>6. ThreadInv(a)'
  <2>1. ItemHasTurn(main[a])' /\ ItemHasTurn(gov[a])'
    BY <1>0, <1>1, <1>2 DEF ThreadInv, ItemHasTurn, Open
  <2>2. ItemMarked(main[a])'
    BY <1>2, <1>3, <1>p DEF ItemMarked
  <2>3. (gov[a].at = "remove" => SafeToRemove(a))'
    <3> SUFFICES ASSUME gov[a].at = "remove" PROVE SafeToRemove(a)'
      BY <1>1
    <3>1. SafeToRemove(a) /\ gov[a].item.d \in Members
      BY <1>0 DEF ThreadInv, OwnItems, OwnItem, Mine
    <3>2. wlu'[gov[a].item.d].made = wlu[gov[a].item.d].made
      BY <1>3, <3>1
    <3> QED BY <1>1, <1>2, <3>1, <3>2 DEF SafeToRemove, Open
  <2>4. ItemGone(main[a])' /\ ItemGone(gov[a])'
    <3>1. gov[a].at = "terminate" => gov[a].item.d \in Members
      BY <1>0 DEF OwnItems, OwnItem, Mine
    <3>2. gov[a].at # "cancel"
      BY <1>t DEF GovAt
    <3> QED BY <1>0, <1>1, <1>2, <1>3, <3>1, <3>2 DEF ThreadInv, ItemGone
  <2> QED BY <2>1, <2>2, <2>3, <2>4 DEF ThreadInv
<1>7. \A b \in Agbots \ {a} : main'[b] = main[b] /\ gov'[b] = gov[b]
  BY <1>1, <1>2
<1>8. /\ \A e \in Members \ {d} : MemberInv(e)'
      /\ \A b \in Agbots \ {a} : ThreadInv(b)'
  BY <1>4, <1>7, <1>d, FrameOthers
<1> QED BY <1>5, <1>6, <1>8

\* The row is written by the policy handler (ha_workload_add_if_not_present).
LEMMA MainInsertInv ==
  ASSUME HAInv, NEW a \in Agbots, MainInsert(a)
  PROVE  /\ \A e \in Members : MemberInv(e)'
         /\ \A b \in Agbots : ThreadInv(b)'
<1> USE DEF UnchangedByMain
<1>0. UpgradeTypeOK /\ OwnItems(a) /\ ThreadInv(a)
  BY DEF HAInv
<1>t. main[a].at = "insert" /\ gov[a].at \in GovAt
  BY <1>0 DEF UpgradeTypeOK, Thread, MainInsert, MainDoes
<1>p. PICK d \in Mine(a) : d = main[a].item.d
  BY <1>0, <1>t DEF OwnItems, OwnItem
<1>d. d \in Members /\ d # Nobody /\ MemberInv(d)
  BY HAAssumption DEF Mine, HAInv
<1>1. ag' = ag /\ wlu' = wlu /\ down' = down /\ gov' = gov
  BY DEF MainInsert
<1>2. /\ main'[a].at = IF turn' = d THEN "delete" ELSE "next"
      /\ turn' = d => main'[a].item = main[a].item
      /\ turn' # d => main'[a].item = NoItem
      /\ \A b \in Agbots \ {a} : main'[b] = main[b]
  BY <1>0, <1>p, MainMoves DEF MainInsert, MainAt
<1>3. turn' = IF turn = Nobody THEN d ELSE turn
  BY <1>p DEF MainInsert, Insert
<1>4. \A e \in Members \ {d} : Same(e)
  BY <1>1, <1>3, HAAssumption DEF Same
<1>5. MemberInv(d)'
  BY <1>1, <1>3, <1>d DEF MemberInv, Open
<1>6. ThreadInv(a)'
  <2>1. ItemHasTurn(main[a])'
    BY <1>1, <1>2, <1>p DEF ItemHasTurn
  <2>2. ItemHasTurn(gov[a])'
    <3> SUFFICES ASSUME gov[a].at \in {"delete", "cancel", "terminate"}, Open(gov[a].item.d)
                 PROVE  turn' = gov[a].item.d
      BY <1>1 DEF ItemHasTurn, Open
    <3>1. turn = gov[a].item.d /\ gov[a].item.d \in Members
      BY <1>0 DEF ThreadInv, ItemHasTurn, OwnItems, OwnItem, Mine
    <3> QED BY <1>3, <3>1, HAAssumption
  <2>3. ItemMarked(main[a])'
    BY <1>0, <1>1, <1>2, <1>t DEF ThreadInv, ItemMarked
  <2>4. (gov[a].at = "remove" => SafeToRemove(a))'
    <3> SUFFICES ASSUME gov[a].at = "remove" PROVE SafeToRemove(a)'
      BY <1>1
    <3>1. SafeToRemove(a) /\ gov[a].item.d \in Members /\ turn = gov[a].item.d
      BY <1>0 DEF ThreadInv, OwnItems, OwnItem, Mine, SafeToRemove
    <3>2. turn' = turn /\ turn # d
      BY <1>3, <1>p, <1>t, <3>1, HAAssumption DEF SafeToRemove
    <3>3. main'[a].item.d # gov[a].item.d
      BY <1>2, <1>p, <3>1, <3>2, HAAssumption DEF NoItem
    <3> QED BY <1>1, <3>1, <3>2, <3>3 DEF SafeToRemove, Open
  <2>5. ItemGone(main[a])' /\ ItemGone(gov[a])'
    BY <1>0, <1>1, <1>2 DEF ThreadInv, ItemGone
  <2> QED BY <2>1, <2>2, <2>3, <2>4, <2>5 DEF ThreadInv
<1>7. \A b \in Agbots \ {a} : main'[b] = main[b] /\ gov'[b] = gov[b]
  BY <1>1, <1>2
<1>8. /\ \A e \in Members \ {d} : MemberInv(e)'
      /\ \A b \in Agbots \ {a} : ThreadInv(b)'
  BY <1>4, <1>7, <1>d, FrameOthers
<1> QED BY <1>5, <1>6, <1>8

\* The usage is deleted before the agreement is cancelled (DeleteWorkloadUsage).
LEMMA MainDeleteInv ==
  ASSUME HAInv, NEW a \in Agbots, MainDelete(a)
  PROVE  /\ \A e \in Members : MemberInv(e)'
         /\ \A b \in Agbots : ThreadInv(b)'
<1> USE DEF UnchangedByMain
<1>0. UpgradeTypeOK /\ OwnItems(a) /\ ThreadInv(a)
  BY DEF HAInv
<1>t. main[a].at = "delete" /\ gov[a].at \in GovAt
  BY <1>0 DEF UpgradeTypeOK, Thread, MainDelete, MainDoes
<1>p. PICK d \in Mine(a) : d = main[a].item.d
  BY <1>0, <1>t DEF OwnItems, OwnItem
<1>d. d \in Members /\ MemberInv(d)
  BY DEF Mine, HAInv
<1>1. ag' = ag /\ turn' = turn /\ down' = down /\ gov' = gov
  BY DEF MainDelete
<1>2. /\ main'[a].at = "cancel" /\ main'[a].item = main[a].item
      /\ \A b \in Agbots \ {a} : main'[b] = main[b]
  BY <1>0, MainMoves DEF MainDelete, MainAt
<1>3. /\ wlu'[d] = NoUsage /\ ~wlu'[d].made /\ wlu'[d].n = 0
      /\ \A e \in Members \ {d} : wlu'[e] = wlu[e]
  BY <1>0, <1>p, <1>d DEF MainDelete, DeleteWorkloadUsage, UpgradeTypeOK, NoUsage
<1>4. \A e \in Members \ {d} : Same(e)
  BY <1>1, <1>3 DEF Same
<1>5. MemberInv(d)'
  <2>1. Open(d) => turn = d
    BY <1>0, <1>p, <1>t DEF ThreadInv, ItemHasTurn
  <2> QED BY <1>1, <1>3, <1>d, <2>1 DEF MemberInv, Open
<1>6. ThreadInv(a)'
  <2>1. ItemHasTurn(main[a])' /\ ItemHasTurn(gov[a])'
    BY <1>0, <1>t, <1>1, <1>2 DEF ThreadInv, ItemHasTurn, Open
  <2>2. ItemMarked(main[a])'
    BY <1>2 DEF ItemMarked
  <2>3. (gov[a].at = "remove" => SafeToRemove(a))'
    <3> SUFFICES ASSUME gov[a].at = "remove" PROVE SafeToRemove(a)'
      BY <1>1
    <3>1. SafeToRemove(a) /\ gov[a].item.d \in Members
      BY <1>0 DEF ThreadInv, OwnItems, OwnItem, Mine
    <3>2. Open(gov[a].item.d) => gov[a].item.d # d
      BY <3>1, <1>t, <1>p DEF SafeToRemove
    <3>3. Open(gov[a].item.d) => wlu'[gov[a].item.d] = wlu[gov[a].item.d]
      BY <1>3, <3>1, <3>2
    <3> QED BY <1>1, <1>2, <1>t, <3>1, <3>3 DEF SafeToRemove, Open
  <2>4. ItemGone(main[a])' /\ ItemGone(gov[a])'
    <3>1. gov[a].at = "terminate" => gov[a].item.d \in Members
      BY <1>0 DEF OwnItems, OwnItem, Mine
    <3>2. gov[a].at # "cancel"
      BY <1>t DEF GovAt
    <3> QED BY <1>0, <1>p, <1>1, <1>2, <1>3, <3>1, <3>2 DEF ThreadInv, ItemGone
  <2> QED BY <2>1, <2>2, <2>3, <2>4 DEF ThreadInv
<1>7. \A b \in Agbots \ {a} : main'[b] = main[b] /\ gov'[b] = gov[b]
  BY <1>1, <1>2
<1>8. /\ \A e \in Members \ {d} : MemberInv(e)'
      /\ \A b \in Agbots \ {a} : ThreadInv(b)'
  BY <1>4, <1>7, FrameOthers
<1> QED BY <1>5, <1>6, <1>8

\* A queued cancel changes nothing but an open agreement's mark.
LEMMA QueuedIs ==
  ASSUME UpgradeTypeOK, NEW d \in Members, NEW n, NEW why \in Reasons
  PROVE  LET q == Queued(d, n, why)
             r == [q EXCEPT ![d].timedout = TRUE] IN
         /\ \A e \in Members \ {d} : q[e] = ag[e] /\ r[e] = ag[e]
         /\ q[d].st = ag[d].st /\ q[d].n = ag[d].n
         /\ q[d].cancel # ag[d].cancel => q[d].cancel = why /\ Open(d)
         /\ r[d].st = ag[d].st /\ r[d].n = ag[d].n /\ r[d].cancel = q[d].cancel
BY DEF UpgradeTypeOK, Queued, Agreement

\* The agreement of the member in hand is marked as cancelled, or is not; its
\* usage is gone when it is.
LEMMA CancelledMember ==
  ASSUME HAInv, NEW d \in Members, ag'[d].st = ag[d].st, ag'[d].n = ag[d].n,
         ag'[d].cancel = "upgrade" => ag[d].cancel = "upgrade" \/ ~wlu[d].made,
         wlu' = wlu, turn' = turn, down' = down
  PROVE  MemberInv(d)'
<1>1. MemberInv(d)
  BY DEF HAInv
<1> QED BY <1>1 DEF MemberInv, Open

\* The cancel is queued by the policy handler (NewCancelAgreement).
LEMMA MainCancelInv ==
  ASSUME HAInv, NEW a \in Agbots, MainCancel(a)
  PROVE  /\ \A e \in Members : MemberInv(e)'
         /\ \A b \in Agbots : ThreadInv(b)'
<1> USE DEF UnchangedByMain
<1>0. UpgradeTypeOK /\ OwnItems(a) /\ ThreadInv(a)
  BY DEF HAInv
<1>t. main[a].at = "cancel" /\ gov[a].at \in GovAt
  BY <1>0 DEF UpgradeTypeOK, Thread, MainCancel, MainDoes
<1>p. PICK d \in Mine(a) : d = main[a].item.d
  BY <1>0, <1>t DEF OwnItems, OwnItem
<1>d. d \in Members
  BY DEF Mine
<1>1. wlu' = wlu /\ turn' = turn /\ down' = down /\ gov' = gov
  BY DEF MainCancel
<1>2. /\ main'[a].at = "next" /\ main'[a].item = NoItem
      /\ \A b \in Agbots \ {a} : main'[b] = main[b]
  BY <1>0, MainMoves DEF MainCancel, MainAt
<1>3. /\ ag'[d].st = ag[d].st /\ ag'[d].n = ag[d].n
      /\ \A e \in Members \ {d} : ag'[e] = ag[e]
  <2>1. ag' = Queued(d, main[a].item.n, "upgrade")
    BY <1>p DEF MainCancel
  <2> QED BY <1>0, <1>d, <2>1, QueuedIs DEF Reasons
<1>4. \A e \in Members \ {d} : Same(e)
  BY <1>1, <1>3 DEF Same
<1>5. MemberInv(d)'
  <2>1. ~wlu[d].made
    BY <1>0, <1>p, <1>t DEF ThreadInv, ItemGone
  <2> QED BY <1>1, <1>3, <1>d, <2>1, CancelledMember
<1>o. \A e \in Members : ag'[e].st = ag[e].st
  BY <1>3
<1>6. ThreadInv(a)'
  <2>1. ItemHasTurn(main[a])' /\ ItemMarked(main[a])' /\ ItemGone(main[a])'
    BY <1>2 DEF ItemHasTurn, ItemMarked, ItemGone
  <2>2. ItemHasTurn(gov[a])' /\ ItemGone(gov[a])'
    BY <1>0, <1>t, <1>1, <1>o DEF ThreadInv, ItemHasTurn, ItemGone, Open, OwnItems, OwnItem, Mine
  <2>3. (gov[a].at = "remove" => SafeToRemove(a))'
    <3> SUFFICES ASSUME gov[a].at = "remove" PROVE SafeToRemove(a)'
      BY <1>1
    <3>1. SafeToRemove(a) /\ gov[a].item.d \in Members /\ gov[a].item.d # Nobody
      BY <1>0, HAAssumption DEF ThreadInv, OwnItems, OwnItem, Mine
    <3> QED BY <1>1, <1>2, <1>o, <3>1 DEF SafeToRemove, Open, NoItem
  <2> QED BY <2>1, <2>2, <2>3 DEF ThreadInv
<1>7. \A b \in Agbots \ {a} : main'[b] = main[b] /\ gov'[b] = gov[b]
  BY <1>1, <1>2
<1>8. /\ \A e \in Members \ {d} : MemberInv(e)'
      /\ \A b \in Agbots \ {a} : ThreadInv(b)'
  BY <1>4, <1>7, FrameOthers
<1> QED BY <1>5, <1>6, <1>8

\* The handler's last sweep takes no usage of an open agreement.
LEMMA MainDoneInv ==
  ASSUME HAInv, NEW a \in Agbots, MainDone(a)
  PROVE  /\ \A e \in Members : MemberInv(e)'
         /\ \A b \in Agbots : ThreadInv(b)'
<1> USE DEF UnchangedByMain
<1>0. UpgradeTypeOK /\ OwnItems(a) /\ ThreadInv(a)
  BY DEF HAInv
<1>t. gov[a].at \in GovAt
  BY <1>0 DEF UpgradeTypeOK, Thread
<1>1. ag' = ag /\ turn' = turn /\ down' = down /\ gov' = gov
  BY DEF MainDone
<1>2. /\ main'[a].at = "idle" /\ main'[a].item = NoItem
      /\ \A b \in Agbots \ {a} : main'[b] = main[b]
  BY <1>0 DEF MainDone, UpgradeTypeOK, IdleThread
<1>3. ASSUME NEW d \in Members
      PROVE  /\ Open(d) /\ wlu[d].made => wlu'[d] = wlu[d]
             /\ wlu'[d] = wlu[d] \/ (~wlu'[d].made /\ wlu'[d].n = 0)
             /\ d \notin Mine(a) => wlu'[d] = wlu[d]
             /\ wlu'[d].made => wlu[d].made
  <2>1. wlu'[d] = IF d \in Mine(a) /\ wlu[d].n = 0 THEN NoUsage ELSE wlu[d]
    BY DEF MainDone
  <2>2. Open(d) /\ wlu[d].made => wlu[d].n # 0
    BY <1>0 DEF HAInv, MemberInv, UpgradeTypeOK, Agreement
  <2> QED BY <2>1, <2>2 DEF NoUsage
<1>4. ASSUME NEW d \in Members PROVE MemberInv(d)'
  <2>1. MemberInv(d)
    BY DEF HAInv
  <2> QED BY <1>1, <1>3, <2>1 DEF MemberInv, Open
<1>5. ThreadInv(a)'
  <2>1. ItemHasTurn(main[a])' /\ ItemMarked(main[a])' /\ ItemGone(main[a])'
    BY <1>2 DEF ItemHasTurn, ItemMarked, ItemGone
  <2>2. ItemHasTurn(gov[a])'
    BY <1>0, <1>1 DEF ThreadInv, ItemHasTurn, Open
  <2>3. ItemGone(gov[a])'
    <3>1. gov[a].at \in {"cancel", "terminate"} => gov[a].item.d \in Members
      BY <1>0 DEF OwnItems, OwnItem, Mine
    <3> QED BY <1>0, <1>1, <1>3, <3>1 DEF ThreadInv, ItemGone
  <2>4. (gov[a].at = "remove" => SafeToRemove(a))'
    <3> SUFFICES ASSUME gov[a].at = "remove" PROVE SafeToRemove(a)'
      BY <1>1
    <3>1. SafeToRemove(a) /\ gov[a].item.d \in Members /\ gov[a].item.d # Nobody
      BY <1>0, HAAssumption DEF ThreadInv, OwnItems, OwnItem, Mine
    <3>2. Open(gov[a].item.d) => wlu'[gov[a].item.d] = wlu[gov[a].item.d]
      BY <1>3, <3>1 DEF SafeToRemove
    <3> QED BY <1>1, <1>2, <3>1, <3>2 DEF SafeToRemove, Open, NoItem
  <2> QED BY <2>1, <2>2, <2>3, <2>4 DEF ThreadInv
<1>6. ASSUME NEW b \in Agbots \ {a} PROVE ThreadInv(b)'
  <2>1. \A d \in Mine(b) : Same(d)
    BY <1>1, <1>3 DEF Same, Mine
  <2> QED BY <1>1, <1>2, <2>1, FrameThread DEF HAInv
<1> QED BY <1>4, <1>5, <1>6

\* Governance decides to take the row away: the member is up, and neither thread
\* is about to stop it (checkWorkloadStatus).
LEMMA GovDecidesInv ==
  ASSUME HAInv, NEW a \in Agbots, governHAPartners(a)
  PROVE  /\ \A e \in Members : MemberInv(e)'
         /\ \A b \in Agbots : ThreadInv(b)'
<1> USE DEF UnchangedByGov
<1>0. UpgradeTypeOK /\ OwnItems(a) /\ ThreadInv(a)
  BY DEF HAInv
<1>t. main[a].at \in MainAt
  BY <1>0 DEF UpgradeTypeOK, Thread
<1>1. ag' = ag /\ wlu' = wlu /\ turn' = turn /\ down' = down /\ main' = main
  BY DEF governHAPartners
<1>2. /\ gov'[a].at \in {"remove", "list"}
      /\ gov'[a].at = "remove" =>
           turn \in Mine(a) /\ Upgraded(turn) /\ gov'[a].item.d = turn
      /\ \A b \in Agbots \ {a} : gov'[b] = gov[b]
  BY <1>0 DEF governHAPartners, UpgradeTypeOK, IdleThread, NoItem
<1>3. (gov[a].at = "remove" => SafeToRemove(a))'
  <2> SUFFICES ASSUME gov'[a].at = "remove" PROVE SafeToRemove(a)'
    OBVIOUS
  <2>1. turn \in Members /\ MemberInv(turn) /\ gov'[a].item.d = turn
    BY <1>2 DEF Mine, HAInv
  <2>2. wlu[turn].made /\ ~wlu[turn].pending /\ ag[turn].st = "running"
    BY <1>2 DEF Upgraded
  <2>3. turn \notin down
    BY <2>1, <2>2 DEF MemberInv
  <2>4. main[a].item.d = turn => main[a].at \notin {"insert", "delete", "cancel"}
    BY <1>0, <2>2 DEF ThreadInv, ItemMarked, ItemGone
  <2> QED BY <1>1, <2>1, <2>2, <2>3, <2>4 DEF SafeToRemove
<1>4. ThreadInv(a)'
  <2>1. /\ ItemHasTurn(main[a])' /\ ItemMarked(main[a])' /\ ItemGone(main[a])'
        /\ ItemHasTurn(gov[a])' /\ ItemGone(gov[a])'
    BY <1>0, <1>1, <1>2 DEF ThreadInv, ItemHasTurn, ItemMarked, ItemGone, Open
  <2> QED BY <1>3, <2>1 DEF ThreadInv
<1> QED BY <1>1, <1>2, <1>4, FrameAll

\* Steps of governance that change nothing but the thread.
LEMMA GovThinks ==
  ASSUME HAInv, NEW a \in Agbots, ListPending(a) \/ GovNext(a) \/ GovGet(a) \/ GovGivesUp(a)
  PROVE  /\ \A e \in Members : MemberInv(e)'
         /\ \A b \in Agbots : ThreadInv(b)'
<1> USE DEF UnchangedByGov
<1>0. UpgradeTypeOK /\ OwnItems(a) /\ ThreadInv(a)
  BY DEF HAInv
<1>1. ag' = ag /\ wlu' = wlu /\ turn' = turn /\ down' = down /\ main' = main
  BY DEF ListPending, GovNext, GovGet, GovGivesUp
<1>2. \A b \in Agbots \ {a} : gov'[b] = gov[b]
  BY <1>0 DEF ListPending, GovNext, GovGet, GovGivesUp, GovGoes, UpgradeTypeOK
<1>3. gov'[a].at \in {"idle", "next", "get", "insert"}
  <2>1. CASE ListPending(a)
    BY <2>1, <1>0 DEF ListPending, UpgradeTypeOK
  <2>2. CASE GovNext(a)
    BY <2>2, <1>0 DEF GovNext, UpgradeTypeOK, IdleThread
  <2>3. CASE GovGet(a)
    BY <2>3, <1>0, GovMoves DEF GovGet, GovAt
  <2>4. CASE GovGivesUp(a)
    <3>1. CASE gov' = [gov EXCEPT ![a] = IdleThread]
      BY <3>1, <1>0 DEF UpgradeTypeOK, IdleThread
    <3>2. CASE GovGoes(a, "next")
      BY <3>2, <1>0, GovMoves DEF GovAt
    <3> QED BY <2>4, <3>1, <3>2 DEF GovGivesUp
  <2> QED BY <2>1, <2>2, <2>3, <2>4
<1>4. ThreadInv(a)'
  <2>1. ItemHasTurn(main[a])' /\ ItemMarked(main[a])' /\ ItemGone(main[a])'
    BY <1>0, <1>1 DEF ThreadInv, ItemHasTurn, ItemMarked, ItemGone, Open
  <2>2. ItemHasTurn(gov[a])' /\ ItemGone(gov[a])' /\ (gov[a].at = "remove" => SafeToRemove(a))'
    BY <1>3 DEF ItemHasTurn, ItemGone
  <2> QED BY <2>1, <2>2 DEF ThreadInv
<1> QED BY <1>1, <1>2, <1>4, FrameAll

\* The row is taken away, for a member that is not stopped (DeleteHAUpgradingWorkload).
LEMMA GovRemovesInv ==
  ASSUME HAInv, NEW a \in Agbots, DeleteHAUpgradingWorkload(a)
  PROVE  /\ \A e \in Members : MemberInv(e)'
         /\ \A b \in Agbots : ThreadInv(b)'
<1> USE DEF UnchangedByGov
<1>0. UpgradeTypeOK /\ OwnItems(a) /\ ThreadInv(a)
  BY DEF HAInv
<1>t. gov[a].at = "remove" /\ main[a].at \in MainAt
  BY <1>0 DEF UpgradeTypeOK, Thread, DeleteHAUpgradingWorkload, GovDoes
<1>p. PICK d \in Mine(a) : d = gov[a].item.d
  BY <1>0, <1>t DEF OwnItems, OwnItem
<1>d. d \in Members /\ d # Nobody /\ MemberInv(d) /\ SafeToRemove(a)
  BY <1>0, <1>t, HAAssumption DEF Mine, HAInv, ThreadInv
<1>1. ag' = ag /\ wlu' = wlu /\ down' = down /\ main' = main
  BY DEF DeleteHAUpgradingWorkload
<1>2. gov'[a].at = "list" /\ \A b \in Agbots \ {a} : gov'[b] = gov[b]
  BY <1>0, GovMoves DEF DeleteHAUpgradingWorkload, GovAt
<1>3. turn = d /\ turn' = Nobody
  BY <1>p, <1>d DEF SafeToRemove, DeleteHAUpgradingWorkload
<1>4. \A e \in Members \ {d} : Same(e)
  BY <1>1, <1>3, HAAssumption DEF Same
<1>5. MemberInv(d)'
  BY <1>p, <1>1, <1>3, <1>d DEF MemberInv, SafeToRemove, Open
<1>6. ThreadInv(a)'
  <2>1. ItemHasTurn(main[a])'
    BY <1>0, <1>p, <1>t, <1>d, <1>1, <1>3 DEF ThreadInv, ItemHasTurn, SafeToRemove, Open, MainAt
  <2>2. ItemMarked(main[a])' /\ ItemGone(main[a])'
    BY <1>0, <1>1 DEF ThreadInv, ItemMarked, ItemGone
  <2>3. ItemHasTurn(gov[a])' /\ ItemGone(gov[a])' /\ (gov[a].at = "remove" => SafeToRemove(a))'
    BY <1>2 DEF ItemHasTurn, ItemGone
  <2> QED BY <2>1, <2>2, <2>3 DEF ThreadInv
<1>7. \A b \in Agbots \ {a} : main'[b] = main[b] /\ gov'[b] = gov[b]
  BY <1>1, <1>2
<1>8. /\ \A e \in Members \ {d} : MemberInv(e)'
      /\ \A b \in Agbots \ {a} : ThreadInv(b)'
  BY <1>4, <1>7, FrameOthers
<1> QED BY <1>5, <1>6, <1>8

\* The row is written by governance.
LEMMA GovInsertInv ==
  ASSUME HAInv, NEW a \in Agbots, GovInsert(a)
  PROVE  /\ \A e \in Members : MemberInv(e)'
         /\ \A b \in Agbots : ThreadInv(b)'
<1> USE DEF UnchangedByGov
<1>0. UpgradeTypeOK /\ OwnItems(a) /\ ThreadInv(a)
  BY DEF HAInv
<1>t. gov[a].at = "insert" /\ main[a].at \in MainAt
  BY <1>0 DEF UpgradeTypeOK, Thread, GovInsert, GovDoes
<1>p. PICK d \in Mine(a) : d = gov[a].item.d
  BY <1>0, <1>t DEF OwnItems, OwnItem
<1>d. d \in Members /\ d # Nobody /\ MemberInv(d)
  BY HAAssumption DEF Mine, HAInv
<1>1. ag' = ag /\ wlu' = wlu /\ down' = down /\ main' = main
  BY DEF GovInsert
<1>2. /\ gov'[a].at = IF turn' = d THEN "delete" ELSE "next"
      /\ turn' = d => gov'[a].item = gov[a].item
      /\ \A b \in Agbots \ {a} : gov'[b] = gov[b]
  BY <1>0, <1>p, GovMoves DEF GovInsert, GovAt
<1>3. turn' = IF turn = Nobody THEN d ELSE turn
  BY <1>p DEF GovInsert, Insert
<1>4. \A e \in Members \ {d} : Same(e)
  BY <1>1, <1>3, HAAssumption DEF Same
<1>5. MemberInv(d)'
  BY <1>1, <1>3, <1>d DEF MemberInv, Open
<1>6. ThreadInv(a)'
  <2>1. ItemHasTurn(main[a])'
    <3> SUFFICES ASSUME main[a].at \in {"delete", "cancel", "terminate"}, Open(main[a].item.d)
                 PROVE  turn' = main[a].item.d
      BY <1>1 DEF ItemHasTurn, Open
    <3>1. turn = main[a].item.d /\ main[a].item.d \in Members
      BY <1>0 DEF ThreadInv, ItemHasTurn, OwnItems, OwnItem, Mine
    <3> QED BY <1>3, <3>1, HAAssumption
  <2>2. ItemMarked(main[a])' /\ ItemGone(main[a])'
    BY <1>0, <1>1 DEF ThreadInv, ItemMarked, ItemGone
  <2>3. ItemHasTurn(gov[a])' /\ ItemGone(gov[a])' /\ (gov[a].at = "remove" => SafeToRemove(a))'
    BY <1>p, <1>2 DEF ItemHasTurn, ItemGone
  <2> QED BY <2>1, <2>2, <2>3 DEF ThreadInv
<1>7. \A b \in Agbots \ {a} : main'[b] = main[b] /\ gov'[b] = gov[b]
  BY <1>1, <1>2
<1>8. /\ \A e \in Members \ {d} : MemberInv(e)'
      /\ \A b \in Agbots \ {a} : ThreadInv(b)'
  BY <1>4, <1>7, FrameOthers
<1> QED BY <1>5, <1>6, <1>8

\* Governance deletes the usage of the member that has its turn.
LEMMA GovDeleteInv ==
  ASSUME HAInv, NEW a \in Agbots, GovDelete(a)
  PROVE  /\ \A e \in Members : MemberInv(e)'
         /\ \A b \in Agbots : ThreadInv(b)'
<1> USE DEF UnchangedByGov
<1>0. UpgradeTypeOK /\ OwnItems(a) /\ ThreadInv(a)
  BY DEF HAInv
<1>t. gov[a].at = "delete" /\ main[a].at \in MainAt
  BY <1>0 DEF UpgradeTypeOK, Thread, GovDelete, GovDoes
<1>p. PICK d \in Mine(a) : d = gov[a].item.d
  BY <1>0, <1>t DEF OwnItems, OwnItem
<1>d. d \in Members /\ MemberInv(d)
  BY DEF Mine, HAInv
<1>1. ag' = ag /\ turn' = turn /\ down' = down /\ main' = main
  BY DEF GovDelete
<1>2. /\ gov'[a].at = "terminate" /\ gov'[a].item = gov[a].item
      /\ \A b \in Agbots \ {a} : gov'[b] = gov[b]
  BY <1>0, GovMoves DEF GovDelete, GovAt
<1>3. /\ ~wlu'[d].made /\ wlu'[d].n = 0
      /\ \A e \in Members \ {d} : wlu'[e] = wlu[e]
  BY <1>0, <1>p, <1>d DEF GovDelete, DeleteWorkloadUsage, UpgradeTypeOK, NoUsage
<1>4. \A e \in Members \ {d} : Same(e)
  BY <1>1, <1>3 DEF Same
<1>5. MemberInv(d)'
  <2>1. Open(d) => turn = d
    BY <1>0, <1>p, <1>t DEF ThreadInv, ItemHasTurn
  <2> QED BY <1>1, <1>3, <1>d, <2>1 DEF MemberInv, Open
<1>6. ThreadInv(a)'
  <2>1. ItemHasTurn(main[a])' /\ ItemHasTurn(gov[a])'
    BY <1>0, <1>t, <1>1, <1>2 DEF ThreadInv, ItemHasTurn, Open
  <2>2. ItemMarked(main[a])' /\ ItemGone(main[a])'
    <3>1. main[a].at \notin {"idle", "next"} => main[a].item.d \in Members
      BY <1>0, <1>t DEF OwnItems, OwnItem, Mine, MainAt
    <3> QED BY <1>0, <1>t, <1>1, <1>3, <3>1 DEF ThreadInv, ItemMarked, ItemGone
  <2>3. ItemGone(gov[a])' /\ (gov[a].at = "remove" => SafeToRemove(a))'
    BY <1>p, <1>2, <1>3 DEF ItemGone
  <2> QED BY <2>1, <2>2, <2>3 DEF ThreadInv
<1>7. \A b \in Agbots \ {a} : main'[b] = main[b] /\ gov'[b] = gov[b]
  BY <1>1, <1>2
<1>8. /\ \A e \in Members \ {d} : MemberInv(e)'
      /\ \A b \in Agbots \ {a} : ThreadInv(b)'
  BY <1>4, <1>7, FrameOthers
<1> QED BY <1>5, <1>6, <1>8

\* Governance ends the agreement of the member that has its turn (TerminateAgreement).
LEMMA GovTerminateInv ==
  ASSUME HAInv, NEW a \in Agbots, GovTerminate(a)
  PROVE  /\ \A e \in Members : MemberInv(e)'
         /\ \A b \in Agbots : ThreadInv(b)'
<1> USE DEF UnchangedByGov
<1>0. UpgradeTypeOK /\ OwnItems(a) /\ ThreadInv(a)
  BY DEF HAInv
<1>t. gov[a].at = "terminate" /\ main[a].at \in MainAt
  BY <1>0 DEF UpgradeTypeOK, Thread, GovTerminate, GovDoes
<1>p. PICK d \in Mine(a) : d = gov[a].item.d
  BY <1>0, <1>t DEF OwnItems, OwnItem
<1>d. d \in Members
  BY DEF Mine
<1>1. wlu' = wlu /\ turn' = turn /\ down' = down /\ main' = main
  BY DEF GovTerminate
<1>2. gov'[a].at = "next" /\ \A b \in Agbots \ {a} : gov'[b] = gov[b]
  BY <1>0, GovMoves DEF GovTerminate, GovAt
<1>3. /\ ag'[d].st = ag[d].st /\ ag'[d].n = ag[d].n
      /\ \A e \in Members \ {d} : ag'[e] = ag[e]
  <2>1. \/ ag' = ag
        \/ ag' = [Queued(d, gov[a].item.n, "upgrade") EXCEPT ![d].timedout = TRUE]
    BY <1>p DEF GovTerminate
  <2> DEFINE r == [Queued(d, gov[a].item.n, "upgrade") EXCEPT ![d].timedout = TRUE]
  <2>2. r[d].st = ag[d].st /\ r[d].n = ag[d].n /\ \A e \in Members \ {d} : r[e] = ag[e]
    BY <1>0, <1>d, QueuedIs DEF Reasons
  <2>3. ag' = ag \/ ag' = r
    BY <2>1
  <2> HIDE DEF r
  <2> QED BY <2>2, <2>3
<1>4. \A e \in Members \ {d} : Same(e)
  BY <1>1, <1>3 DEF Same
<1>5. MemberInv(d)'
  <2>1. ~wlu[d].made
    BY <1>0, <1>p, <1>t DEF ThreadInv, ItemGone
  <2> QED BY <1>1, <1>3, <1>d, <2>1, CancelledMember
<1>6. ThreadInv(a)'
  <2>1. ItemMarked(main[a])' /\ ItemGone(main[a])'
    BY <1>0, <1>1 DEF ThreadInv, ItemMarked, ItemGone
  <2>2. ItemHasTurn(main[a])'
    <3>1. main[a].at \in {"delete", "cancel", "terminate"} => main[a].item.d \in Members
      BY <1>0 DEF OwnItems, OwnItem, Mine
    <3>2. \A e \in Members : ag'[e].st = ag[e].st
      BY <1>3
    <3> QED BY <1>0, <1>1, <3>1, <3>2 DEF ThreadInv, ItemHasTurn, Open
  <2>3. ItemHasTurn(gov[a])' /\ ItemGone(gov[a])' /\ (gov[a].at = "remove" => SafeToRemove(a))'
    BY <1>2 DEF ItemHasTurn, ItemGone
  <2> QED BY <2>1, <2>2, <2>3 DEF ThreadInv
<1>7. \A b \in Agbots \ {a} : main'[b] = main[b] /\ gov'[b] = gov[b]
  BY <1>1, <1>2
<1>8. /\ \A e \in Members \ {d} : MemberInv(e)'
      /\ \A b \in Agbots \ {a} : ThreadInv(b)'
  BY <1>4, <1>7, FrameOthers
<1> QED BY <1>5, <1>6, <1>8

\* A member's agreement is archived, made, finalized, started or failed.
LEMMA MemberStepInv ==
  ASSUME HAInv, NEW d \in Members, MemberStep(d) \/ Fail(d)
  PROVE  /\ \A e \in Members : MemberInv(e)'
         /\ \A b \in Agbots : ThreadInv(b)'
<1>a. PICK a \in Agbots : a = Serves(d)
  BY HAAssumption
<1>d. d \in Mine(a) /\ MemberInv(d)
  BY <1>a DEF Mine, HAInv
<1>0. UpgradeTypeOK /\ OwnItems(a) /\ ThreadInv(a)
  BY DEF HAInv
<1>r. ag[d] \in Agreement /\ wlu[d] \in Usage
  BY <1>0 DEF UpgradeTypeOK
<1>i. /\ main[a].at \in MainAt /\ gov[a].at \in GovAt
      /\ main[a].at \notin {"idle", "next"} => main[a].item.d \in Members
      /\ gov[a].at \notin {"idle", "next", "list"} => gov[a].item.d \in Members
  BY <1>0 DEF UpgradeTypeOK, Thread, OwnItems, OwnItem, Mine, MainAt
<1>1. turn' = turn /\ main' = main /\ gov' = gov
  BY DEF MemberStep, CancelAgreement, Agree, Finalize, Runs, Fail
<1>2. \A e \in Members \ {d} : ag'[e] = ag[e] /\ wlu'[e] = wlu[e] /\ (e \in down' <=> e \in down)
  <2>1. CASE MemberStep(d)
    BY <2>1, <1>0 DEF MemberStep, CancelAgreement, Agree, Finalize, Runs, UpgradeTypeOK
  <2>2. CASE Fail(d)
    <3>1. \A e \in Members \ {d} : ag'[e] = ag[e]
      BY <2>2, <1>0, QueuedIs DEF Fail, Reasons
    <3> QED BY <2>2, <3>1 DEF Fail
  <2> QED BY <2>1, <2>2
<1>3. \A e \in Members \ {d} : Same(e)
  BY <1>1, <1>2 DEF Same
<1>4. /\ \A e \in Members \ {d} : MemberInv(e)'
      /\ \A b \in Agbots \ {a} : ThreadInv(b)'
  BY <1>1, <1>3, <1>d, FrameOthers
<1>5. CASE CancelAgreement(d)
  <2>1. /\ ag'[d].st = "none"
        /\ wlu'[d].n = 0 /\ (wlu'[d].made => wlu[d].made /\ wlu'[d].pending = wlu[d].pending)
        /\ d \in down' => d \in down \/ ag[d].cancel = "upgrade"
    BY <1>5, <1>0, <1>r DEF CancelAgreement, UpgradeTypeOK, Agreement, Usage, NoUsage
  <2>2. Open(d) /\ ~Open(d)'
    BY <1>5, <2>1 DEF CancelAgreement, Open
  <2>3. d \in down' => turn = d
    BY <1>d, <2>1, <2>2 DEF MemberInv
  <2>4. MemberInv(d)'
    BY <1>1, <2>1, <2>2, <2>3 DEF MemberInv
  <2>5. \A e \in Members : /\ ag'[e].st # "none" => ag[e].st # "none" /\ e # d
                           /\ wlu'[e].made => wlu[e].made /\ wlu'[e].pending = wlu[e].pending
    BY <1>2, <2>1
  <2>6. ItemHasTurn(main[a])' /\ ItemHasTurn(gov[a])'
    BY <1>0, <1>i, <1>1, <2>5 DEF ThreadInv, ItemHasTurn, Open
  <2>7. ItemMarked(main[a])' /\ ItemGone(main[a])' /\ ItemGone(gov[a])'
    BY <1>0, <1>i, <1>1, <2>5 DEF ThreadInv, ItemMarked, ItemGone
  <2>8. (gov[a].at = "remove" => SafeToRemove(a))'
    <3> SUFFICES ASSUME gov[a].at = "remove" PROVE SafeToRemove(a)'
      BY <1>1
    <3>1. SafeToRemove(a) /\ gov[a].item.d \in Members
      BY <1>0, <1>i DEF ThreadInv
    <3>2. CASE gov[a].item.d = d
      BY <1>1, <1>d, <2>1, <2>2, <3>1, <3>2 DEF SafeToRemove, MemberInv
    <3>3. CASE gov[a].item.d # d
      BY <1>1, <1>2, <3>1, <3>3 DEF SafeToRemove, Open
    <3> QED BY <3>2, <3>3
  <2>9. ThreadInv(a)'
    BY <2>6, <2>7, <2>8 DEF ThreadInv
  <2> QED BY <1>4, <2>4, <2>9
<1>6. CASE Agree(d)
  <2>1. /\ ag'[d].st = "making" /\ ag'[d].cancel = "no" /\ wlu'[d].made /\ wlu'[d].n = ag'[d].n
        /\ down' = down
    BY <1>6, <1>0 DEF Agree, UpgradeTypeOK
  <2>2. MemberInv(d)'
    BY <1>d, <1>1, <2>1 DEF MemberInv, Open
  <2>3. /\ main[a].item.d = d => main[a].at \notin {"get", "insert", "delete", "cancel"}
        /\ gov[a].item.d = d => gov[a].at \notin {"insert", "delete", "terminate"}
    BY <1>6 DEF Agree, AtWork
  <2>4. ItemHasTurn(main[a])' /\ ItemMarked(main[a])' /\ ItemGone(main[a])'
    <3>1. CASE main[a].item.d = d
      BY <1>i, <1>1, <2>3, <3>1 DEF ItemHasTurn, ItemMarked, ItemGone, MainAt
    <3>2. CASE main[a].item.d # d
      BY <1>0, <1>i, <1>1, <1>2, <3>2 DEF ThreadInv, ItemHasTurn, ItemMarked, ItemGone, Open
    <3> QED BY <3>1, <3>2
  <2>5. ItemHasTurn(gov[a])' /\ ItemGone(gov[a])'
    <3>1. CASE gov[a].item.d = d
      BY <1>i, <1>1, <2>3, <3>1 DEF ItemHasTurn, ItemGone, GovAt
    <3>2. CASE gov[a].item.d # d
      BY <1>0, <1>i, <1>1, <1>2, <3>2 DEF ThreadInv, ItemHasTurn, ItemGone, Open
    <3> QED BY <3>1, <3>2
  <2>6. (gov[a].at = "remove" => SafeToRemove(a))'
    <3> SUFFICES ASSUME gov[a].at = "remove" PROVE SafeToRemove(a)'
      BY <1>1
    <3>1. SafeToRemove(a) /\ gov[a].item.d \in Members
      BY <1>0, <1>i DEF ThreadInv
    <3>2. CASE gov[a].item.d = d
      BY <1>1, <2>1, <2>3, <3>1, <3>2 DEF SafeToRemove
    <3>3. CASE gov[a].item.d # d
      BY <1>1, <1>2, <3>1, <3>3 DEF SafeToRemove, Open
    <3> QED BY <3>2, <3>3
  <2>7. ThreadInv(a)'
    BY <2>4, <2>5, <2>6 DEF ThreadInv
  <2> QED BY <1>4, <2>2, <2>7
<1>7. CASE Finalize(d) \/ Runs(d) \/ Fail(d)
  <2>1. /\ wlu' = wlu /\ Open(d) /\ ag'[d].st # "none" /\ ag'[d].n = ag[d].n
        /\ ag'[d].cancel = "upgrade" => ag[d].cancel = "upgrade"
        /\ d \in down' => d \in down /\ (ag'[d].st = "running" => ag[d].st = "running")
        /\ down' \subseteq down
    <3>1. CASE Finalize(d) \/ Runs(d)
      BY <3>1, <1>0, <1>r DEF Finalize, Runs, UpgradeTypeOK, Agreement, Open
    <3>2. CASE Fail(d)
      <4>1. /\ ag'[d].st = ag[d].st /\ ag'[d].n = ag[d].n
            /\ ag'[d].cancel # ag[d].cancel => ag'[d].cancel = "failed"
        BY <3>2, <1>0, QueuedIs DEF Fail, Reasons
      <4> QED BY <3>2, <4>1 DEF Fail, InProgress, Open
    <3> QED BY <1>7, <3>1, <3>2
  <2>2. MemberInv(d)'
    BY <1>d, <1>1, <2>1 DEF MemberInv, Open
  <2>3. \A e \in Members : ag'[e].st = "none" <=> ag[e].st = "none"
    BY <1>2, <2>1 DEF Open
  <2>4. ItemHasTurn(main[a])' /\ ItemHasTurn(gov[a])'
    BY <1>0, <1>i, <1>1, <2>3 DEF ThreadInv, ItemHasTurn, Open
  <2>5. ItemMarked(main[a])' /\ ItemGone(main[a])' /\ ItemGone(gov[a])'
    BY <1>0, <1>1, <2>1 DEF ThreadInv, ItemMarked, ItemGone
  <2>6. (gov[a].at = "remove" => SafeToRemove(a))'
    BY <1>0, <1>i, <1>1, <2>1, <2>3 DEF ThreadInv, SafeToRemove, Open
  <2>7. ThreadInv(a)'
    BY <2>4, <2>5, <2>6 DEF ThreadInv
  <2> QED BY <1>4, <2>2, <2>7
<1> QED BY <1>5, <1>6, <1>7 DEF MemberStep

\* Every step keeps the invariant, when no comparison of a policy may fail.
LEMMA HAInvStep ==
  ASSUME MaxMatch = 0, HAInv, UpgradeNext
  PROVE  HAInv'
<1>0. UpgradeTypeOK /\ \A a \in Agbots : OwnItems(a)
  BY DEF HAInv
<1>1. UpgradeTypeOK' /\ \A a \in Agbots : OwnItems(a)'
  BY <1>0, TypeStep, OwnItemsStep
<1>2. ~Spend("match")
  BY <1>0 DEF Spend, Limit, UpgradeTypeOK, Events
<1>3. /\ \A e \in Members : MemberInv(e)'
      /\ \A b \in Agbots : ThreadInv(b)'
  <2>1. ASSUME NEW a \in Agbots, MainStep(a) \/ MainGivesUp(a)
        PROVE  /\ \A e \in Members : MemberInv(e)'
               /\ \A b \in Agbots : ThreadInv(b)'
    <3>1. CASE MainPending(a)
      BY <3>1, MainPendingInv
    <3>2. CASE MainInsert(a)
      BY <3>2, MainInsertInv
    <3>3. CASE MainDelete(a)
      BY <3>3, MainDeleteInv
    <3>4. CASE MainCancel(a)
      BY <3>4, MainCancelInv
    <3>5. CASE MainDone(a)
      BY <3>5, MainDoneInv
    <3>6. CASE \/ HandlePolicyChanged(a) \/ MainNext(a) \/ FindUsage(a) \/ MainGet(a) \/ MainGivesUp(a)
      BY <3>6, MainThinks
    <3> QED BY <2>1, <3>1, <3>2, <3>3, <3>4, <3>5, <3>6 DEF MainStep
  <2>2. ASSUME NEW a \in Agbots, GovStep(a) \/ GovGivesUp(a)
        PROVE  /\ \A e \in Members : MemberInv(e)'
               /\ \A b \in Agbots : ThreadInv(b)'
    <3>1. CASE governHAPartners(a)
      BY <3>1, GovDecidesInv
    <3>2. CASE DeleteHAUpgradingWorkload(a)
      BY <3>2, GovRemovesInv
    <3>3. CASE GovInsert(a)
      BY <3>3, GovInsertInv
    <3>4. CASE GovDelete(a)
      BY <3>4, GovDeleteInv
    <3>5. CASE GovTerminate(a)
      BY <3>5, GovTerminateInv
    <3>6. CASE ListPending(a) \/ GovNext(a) \/ GovGet(a) \/ GovGivesUp(a)
      BY <3>6, GovThinks
    <3> QED BY <2>2, <3>1, <3>2, <3>3, <3>4, <3>5, <3>6 DEF GovStep
  <2>3. ASSUME NEW a \in Agbots, MatchFails(a) \/ UsageReadFails(a)
        PROVE  FALSE
    BY <2>3, <1>2 DEF MatchFails, UsageReadFails
  <2>4. ASSUME NEW d \in Members, MemberStep(d) \/ Fail(d)
        PROVE  /\ \A e \in Members : MemberInv(e)'
               /\ \A b \in Agbots : ThreadInv(b)'
    BY <2>4, MemberStepInv
  <2>5. ASSUME PolicyChanges \/ \E d \in Members : Die(d)
        PROVE  /\ \A e \in Members : MemberInv(e)'
               /\ \A b \in Agbots : ThreadInv(b)'
    <3>1. /\ ag' = ag /\ wlu' = wlu /\ turn' = turn /\ down' = down
          /\ main' = main /\ gov' = gov
      BY <2>5 DEF PolicyChanges, Die
    <3>2. \A d \in Members : Same(d)
      BY <3>1 DEF Same
    <3>3. ASSUME NEW e \in Members PROVE MemberInv(e)'
      BY <3>2, FrameMember DEF HAInv
    <3>4. ASSUME NEW b \in Agbots PROVE ThreadInv(b)'
      BY <3>1, <3>2, FrameThread DEF HAInv, Mine
    <3> QED BY <3>3, <3>4
  <2> QED BY <2>1, <2>2, <2>3, <2>4, <2>5 DEF UpgradeNext, Error
<1> QED BY <1>1, <1>3 DEF HAInv

\* At most one member of a group is stopped for an upgrade, for any agbots,
\* members and partition, and however the two threads of each agbot interleave
\* (the row of ha_workload_upgrade), as long as the exchange and the usage can
\* be read when a policy is compared: without that see ha_match_error.
THEOREM OneMemberAtATime == ASSUME MaxMatch = 0 PROVE UpgradeSpec => []OneAtATime
<1>1. UpgradeInit => HAInv
  <2> SUFFICES ASSUME UpgradeInit PROVE HAInv
    OBVIOUS
  <2>1. UpgradeTypeOK
    BY InitTypes
  <2>2. \A a \in Agbots : OwnItems(a) /\ ThreadInv(a)
    BY DEF UpgradeInit, OwnItems, OwnItem, IdleThread, ThreadInv, ItemHasTurn, ItemMarked, ItemGone
  <2>3. \A d \in Members : MemberInv(d)
    BY DEF UpgradeInit, MemberInv, Open
  <2> QED BY <2>1, <2>2, <2>3 DEF HAInv
<1>2. HAInv /\ [UpgradeNext]_upgradeVars => HAInv'
  <2> SUFFICES ASSUME HAInv, [UpgradeNext]_upgradeVars PROVE HAInv'
    OBVIOUS
  <2>1. CASE UpgradeNext
    BY <2>1, HAInvStep
  <2>2. CASE UNCHANGED upgradeVars
    <3>1. UpgradeTypeOK'
      BY <2>2 DEF upgradeVars, HAInv, UpgradeTypeOK
    <3>2. \A d \in Members : MemberInv(d)'
      BY <2>2 DEF upgradeVars, HAInv, MemberInv, Open
    <3>3. \A a \in Agbots : OwnItems(a)'
      BY <2>2 DEF upgradeVars, HAInv, OwnItems, OwnItem
    <3>4. ASSUME NEW a \in Agbots PROVE ThreadInv(a)'
      <4>1. \A d \in Mine(a) : Same(d)
        BY <2>2 DEF upgradeVars, Same
      <4> QED BY <2>2, <4>1, FrameThread DEF upgradeVars, HAInv
    <3> QED BY <3>1, <3>2, <3>3, <3>4 DEF HAInv
  <2> QED BY <2>1, <2>2
<1>3. HAInv => OneAtATime
  BY DEF HAInv, OneAtATime, MemberInv, UpgradeTypeOK
<1> QED BY <1>1, <1>2, <1>3, PTL DEF UpgradeSpec

-----------------------------------------------------------------------------
(* The search for nodes (NodeSearch)                                         *)

\* Times of sessions and searches are past, and only a search that has its page
\* holds nodes.
TimesPast ==
  /\ row.changedSince <= now /\ row.restart <= now /\ ex.base <= now
  /\ \A a \in Searchers : scan[a].start <= now /\ scan[a].since <= now
  /\ \A a \in Searchers : scan[a].at \notin {"end", "make"} => scan[a].devices = {}
  /\ \A n \in Nodes : 0 < nodeChanged[n] /\ nodeChanged[n] <= now
  /\ \A a \in Searchers : polTime[a] <= now
  /\ RestartBack < now

\* The invariant under the types alone.
SearchShape == SearchTypeOK /\ TimesPast

\* The records of a thread that is idle and of an agbot that is down.
LEMMA IdleSearchFits ==
  /\ IdleSearch \in Search /\ Down \in Search
  /\ IdleSearch = [at |-> "idle", start |-> 0, since |-> 0, token |-> 0, devices |-> {}]
  /\ Down = [at |-> "down", start |-> 0, since |-> 0, token |-> 0, devices |-> {}]
BY SearchAssumption DEF IdleSearch, Down, Search, Times

\* The thread of one agbot goes to a stage, with these times and nodes; the other
\* threads stay what they are.
Moves(a, at, start, since, D) ==
  /\ scan' \in [Searchers -> Search]
  /\ scan'[a].at = at /\ scan'[a].start = start /\ scan'[a].since = since /\ scan'[a].devices = D
  /\ \A b \in Searchers \ {a} : scan'[b] = scan[b]

\* A thread that moves keeps its times past.
LEMMA MovesKeeps ==
  ASSUME SearchShape, NEW a \in Searchers, NEW at, NEW start, NEW since, NEW D,
         Moves(a, at, start, since, D), now' = now,
         start <= now, since <= now, at \notin {"end", "make"} => D = {}
  PROVE  /\ \A b \in Searchers : scan'[b].start <= now' /\ scan'[b].since <= now'
         /\ \A b \in Searchers : scan'[b].at \notin {"end", "make"} => scan'[b].devices = {}
BY DEF SearchShape, SearchTypeOK, TimesPast, Moves

\* What get_session makes of the row (Obtained).
LEMMA ObtainedFits ==
  ASSUME SearchShape
  PROVE  /\ Obtained \in Row
         /\ Obtained.changedSince <= now /\ Obtained.restart <= now
         /\ Obtained.made /\ ~Obtained.ended
         /\ ~row.made => Obtained.changedSince = 0 /\ Obtained.restart = 0
         /\ row.made /\ ~row.ended => Obtained = row
         /\ row.made /\ row.ended => /\ Obtained.restart = 0
                                     /\ Obtained.changedSince = IF row.restart # 0 THEN row.restart ELSE row.changedSince
<1>0. /\ row \in Row /\ row.changedSince <= now /\ row.restart <= now /\ now \in Times
      /\ MaxToken \in Nat \ {0, 1} /\ MaxSearchTime \in Nat /\ RestartBack < now /\ RestartBack \in Nat
  BY SearchAssumption DEF SearchShape, SearchTypeOK, TimesPast
<1>1. CASE ~row.made
  BY <1>0, <1>1 DEF Obtained, Row, Times
<1>2. CASE row.made /\ ~row.ended
  BY <1>0, <1>2 DEF Obtained, Row, Times
<1>3. CASE row.made /\ row.ended
  <2>1. NextToken \in 0..MaxToken
    BY <1>0 DEF NextToken, Row
  <2>2. Obtained = [made |-> TRUE, ended |-> FALSE, token |-> NextToken, restart |-> 0,
                    changedSince |-> IF row.restart # 0 THEN row.restart ELSE row.changedSince]
    BY <1>0, <1>3 DEF Obtained, Row
  <2> QED
    BY <1>0, <1>3, <2>1, <2>2 DEF Row, Times
<1> QED
  BY <1>1, <1>2, <1>3, <1>0 DEF Row

\* The session that the exchange opens for a page (Opened).
LEMMA OpenedFits ==
  ASSUME SearchShape, NEW a \in Searchers
  PROVE  /\ Opened(a) \in Session /\ Opened(a).base <= now
         /\ ex.token # 0 => Opened(a) = ex
         /\ ex.token = 0 => /\ Opened(a).base <= scan[a].since /\ Opened(a).given = {}
                            /\ Opened(a).base = IF polTime[a] > scan[a].since THEN 0 ELSE scan[a].since
<1>0. /\ scan[a] \in Search /\ ex \in Session /\ ex.base <= now /\ scan[a].since <= now
      /\ MaxSearchTime \in Nat /\ now \in Times /\ polTime[a] \in Times
  BY SearchAssumption DEF SearchShape, SearchTypeOK, TimesPast
<1>1. CheckTime(a) \in Times /\ CheckTime(a) <= scan[a].since
      /\ CheckTime(a) = IF polTime[a] > scan[a].since THEN 0 ELSE scan[a].since
  BY <1>0 DEF CheckTime, Search, Times
<1> QED
  BY <1>0, <1>1 DEF Opened, Session, Search, Times

\* At the start the types and times are in order.
LEMMA ShapeInit == SearchInit => SearchShape
<1> SUFFICES ASSUME SearchInit PROVE SearchShape
  OBVIOUS
<1>1. /\ MaxSearchTime \in Nat /\ RestartBack \in Nat \ {0} /\ RestartBack < MaxSearchTime /\ MaxToken \in Nat
  BY SearchAssumption
<1>2. now \in Times /\ now = RestartBack + 1 /\ 1 \in Times /\ 0 \in Times /\ 0 \in 0..MaxToken
  BY <1>1 DEF SearchInit, Start, Times
<1>3. row \in Row /\ ex \in Session
  BY <1>2 DEF SearchInit, Row, NoSession, Session
<1>4. \A a \in Searchers : scan[a] = IdleSearch
  BY DEF SearchInit
<1>5. scan \in [Searchers -> Search]
  BY IdleSearchFits DEF SearchInit
<1>6. SearchTypeOK
  BY <1>1, <1>2, <1>3, <1>5 DEF SearchInit, SearchTypeOK
<1>7. TimesPast
  BY <1>1, <1>2, <1>4, IdleSearchFits DEF SearchInit, TimesPast, NoSession
<1> QED
  BY <1>6, <1>7 DEF SearchShape

\* An event is counted (SearchSpend).
LEMMA SpendType ==
  ASSUME SearchTypeOK, NEW e \in SearchEvents, SearchSpend(e)
  PROVE  searchSpent' \in [SearchEvents -> Nat] /\ searchSpent'[e] # 0
         /\ \A f \in SearchEvents : searchSpent'[f] = 0 => searchSpent[f] = 0
BY DEF SearchTypeOK, SearchSpend

\* A time to go back to that is past.
LEMMA ResetPolicyFits ==
  ASSUME SearchShape, NEW t \in Times, t <= now, ResetPolicyChangedSince(t)
  PROVE  /\ row' \in Row /\ row'.changedSince = row.changedSince /\ row'.restart <= now
         /\ row'.made = row.made /\ row'.ended = row.ended
         /\ row.made => row'.restart = IF row.restart = 0 \/ row.restart > t THEN t ELSE row.restart
         /\ ~row.made => row' = row
<1>0. row \in Row /\ row.restart <= now
  BY DEF SearchShape, SearchTypeOK, TimesPast
<1>1. CASE row.made /\ (row.restart = 0 \/ row.restart > t)
  <2>1. row' = [made |-> row.made, ended |-> row.ended, changedSince |-> row.changedSince,
                restart |-> t, token |-> row.token]
    BY <1>0, <1>1 DEF ResetPolicyChangedSince, Row
  <2> QED
    BY <1>0, <1>1, <2>1 DEF Row
<1>2. CASE ~(row.made /\ (row.restart = 0 \/ row.restart > t))
  BY <1>0, <1>2 DEF ResetPolicyChangedSince
<1> QED
  BY <1>1, <1>2

\* What a restart does to the row (ResetAllChangedSince).
LEMMA ResetAllFits ==
  ASSUME SearchShape, NEW t \in Times, t <= now, ResetAllChangedSince(t)
  PROVE  /\ row' \in Row /\ row'.changedSince <= now /\ row'.restart <= now
         /\ row'.made = row.made /\ row'.ended = row.ended
         /\ row.made /\ ~row.ended => row'.restart = t /\ row'.changedSince = row.changedSince
         /\ row.made /\ row.ended => row'.restart = row.restart /\ row'.changedSince = t
         /\ ~row.made => row' = row
<1>0. row \in Row /\ row.restart <= now /\ row.changedSince <= now
  BY DEF SearchShape, SearchTypeOK, TimesPast
<1>1. CASE ~row.made
  BY <1>0, <1>1 DEF ResetAllChangedSince
<1>2. CASE row.made /\ row.ended
  <2>1. row' = [made |-> row.made, ended |-> row.ended, changedSince |-> t,
                restart |-> row.restart, token |-> row.token]
    BY <1>0, <1>2 DEF ResetAllChangedSince, Row
  <2> QED
    BY <1>0, <1>2, <2>1 DEF Row
<1>3. CASE row.made /\ ~row.ended
  <2>1. row' = [made |-> row.made, ended |-> row.ended, changedSince |-> row.changedSince,
                restart |-> t, token |-> row.token]
    BY <1>0, <1>3 DEF ResetAllChangedSince, Row
  <2> QED
    BY <1>0, <1>3, <2>1 DEF Row
<1> QED
  BY <1>1, <1>2, <1>3

\* What the end of a session does to the row (UpdateSearchSessionChangedSince).
LEMMA EndedRowFits ==
  ASSUME SearchShape, NEW a \in Searchers
  PROVE  /\ EndedRow(a) \in Row /\ EndedRow(a).changedSince <= now /\ EndedRow(a).restart = row.restart
         /\ EndedRow(a).made = row.made
         /\ row.changedSince = scan[a].since /\ ~row.ended =>
              EndedRow(a).changedSince = scan[a].start /\ EndedRow(a).ended
         /\ ~(row.changedSince = scan[a].since /\ ~row.ended) => EndedRow(a) = row
<1>0. row \in Row /\ row.changedSince <= now /\ scan[a] \in Search /\ scan[a].start <= now
  BY DEF SearchShape, SearchTypeOK, TimesPast
<1>1. CASE row.changedSince = scan[a].since /\ ~row.ended
  <2>1. EndedRow(a) = [made |-> row.made, ended |-> TRUE, changedSince |-> scan[a].start,
                       restart |-> row.restart, token |-> row.token]
    BY <1>0, <1>1 DEF EndedRow, Row
  <2> QED
    BY <1>0, <1>1, <2>1 DEF Row, Search
<1>2. CASE ~(row.changedSince = scan[a].since /\ ~row.ended)
  BY <1>0, <1>2 DEF EndedRow
<1> QED
  BY <1>1, <1>2

\* SetRescanNeeded keeps the type of the flags.
LEMMA RescanType ==
  ASSUME SearchTypeOK, NEW A, SetRescanNeeded(A)
  PROVE  rescan' \in [Searchers -> BOOLEAN]
BY DEF SearchTypeOK, SetRescanNeeded


\* Which moves the steps of a search make (node_search.go).
LEMMA ObtainMoves ==
  ASSUME SearchShape, NEW a \in Searchers, ObtainSearchSession(a)
  PROVE  Moves(a, "search", scan[a].start, Obtained.changedSince, {})
<1>1. scan \in [Searchers -> Search] /\ scan[a].devices = {}
  BY DEF SearchShape, SearchTypeOK, TimesPast, ObtainSearchSession
<1>2. Obtained.changedSince \in Times /\ Obtained.token \in 0..MaxToken
  BY ObtainedFits DEF Row
<1>3. scan' = [scan EXCEPT ![a].at = "search", ![a].since = Obtained.changedSince, ![a].token = Obtained.token]
  BY DEF ObtainSearchSession
<1> HIDE DEF Obtained
<1>4. /\ scan'[a].at = "search" /\ scan'[a].since = Obtained.changedSince
      /\ scan'[a].start = scan[a].start /\ scan'[a].devices = scan[a].devices
      /\ \A b \in Searchers \ {a} : scan'[b] = scan[b]
  BY <1>1, <1>2, <1>3 DEF Search
<1>5. scan' \in [Searchers -> Search]
  BY <1>1, <1>2, <1>3 DEF Search
<1> QED
  BY <1>1, <1>4, <1>5 DEF Moves

\* The answer "out of sync" changes the token alone.
LEMMA OutOfSyncMoves ==
  ASSUME SearchShape, NEW a \in Searchers, OutOfSync(a)
  PROVE  Moves(a, "search", scan[a].start, scan[a].since, {})
<1>1. scan \in [Searchers -> Search] /\ scan[a].devices = {} /\ scan[a].at = "search" /\ ex \in Session
  BY DEF SearchShape, SearchTypeOK, TimesPast, OutOfSync
<1>3. scan' = [scan EXCEPT ![a].token = ex.token] /\ ex.token \in 0..MaxToken
  BY <1>1 DEF OutOfSync, Session
<1>4. /\ scan'[a].at = "search" /\ scan'[a].since = scan[a].since
      /\ scan'[a].start = scan[a].start /\ scan'[a].devices = scan[a].devices
      /\ \A b \in Searchers \ {a} : scan'[b] = scan[b]
  BY <1>1, <1>3 DEF Search
<1>5. scan' \in [Searchers -> Search]
  BY <1>1, <1>3 DEF Search
<1> QED
  BY <1>1, <1>4, <1>5 DEF Moves

\* A page is kept by the thread that asked for it.
LEMMA PageMoves ==
  ASSUME SearchShape, NEW a \in Searchers, NEW D \in SUBSET Nodes, NEW at \in {"end", "make"},
         scan' = [scan EXCEPT ![a].at = at, ![a].devices = D]
  PROVE  Moves(a, at, scan[a].start, scan[a].since, D)
<1>1. scan \in [Searchers -> Search]
  BY DEF SearchShape, SearchTypeOK
<1>4. /\ scan'[a].at = at /\ scan'[a].since = scan[a].since
      /\ scan'[a].start = scan[a].start /\ scan'[a].devices = D
      /\ \A b \in Searchers \ {a} : scan'[b] = scan[b]
  BY <1>1 DEF Search
<1>5. scan' \in [Searchers -> Search]
  BY <1>1 DEF Search
<1> QED
  BY <1>4, <1>5 DEF Moves

\* Ending the session leaves the page with the thread.
LEMMA EndMoves ==
  ASSUME SearchShape, NEW a \in Searchers, EndSession(a)
  PROVE  Moves(a, "make", scan[a].start, scan[a].since, scan[a].devices)
<1>1. scan \in [Searchers -> Search] /\ scan' = [scan EXCEPT ![a].at = "make"]
  BY DEF SearchShape, SearchTypeOK, EndSession
<1>4. /\ scan'[a].at = "make" /\ scan'[a].since = scan[a].since
      /\ scan'[a].start = scan[a].start /\ scan'[a].devices = scan[a].devices
      /\ \A b \in Searchers \ {a} : scan'[b] = scan[b]
  BY <1>1 DEF Search
<1>5. scan' \in [Searchers -> Search]
  BY <1>1 DEF Search
<1> QED
  BY <1>4, <1>5 DEF Moves

\* A search ends, an agbot stops, a search starts.
LEMMA IdleMoves ==
  ASSUME SearchShape, NEW a \in Searchers
  PROVE  /\ scan' = [scan EXCEPT ![a] = IdleSearch] => Moves(a, "idle", 0, 0, {})
         /\ scan' = [scan EXCEPT ![a] = Down] => Moves(a, "down", 0, 0, {})
         /\ findAndMakeAgreements(a) => Moves(a, "obtain", now - 1, 0, {})
<1>1. scan \in [Searchers -> Search]
  BY DEF SearchShape, SearchTypeOK
<1>2. ASSUME scan' = [scan EXCEPT ![a] = IdleSearch] PROVE Moves(a, "idle", 0, 0, {})
  BY <1>1, <1>2, IdleSearchFits DEF Moves
<1>3. ASSUME scan' = [scan EXCEPT ![a] = Down] PROVE Moves(a, "down", 0, 0, {})
  BY <1>1, <1>3, IdleSearchFits DEF Moves
<1>4. ASSUME findAndMakeAgreements(a) PROVE Moves(a, "obtain", now - 1, 0, {})
  <2>1. now - 1 \in Times /\ 0 \in Times /\ 0 \in 0..MaxToken
    BY SearchAssumption DEF SearchShape, SearchTypeOK, TimesPast, Times
  <2>2. PICK g : g = [IdleSearch EXCEPT !.at = "obtain", !.start = now - 1]
    OBVIOUS
  <2>3. g \in Search
    BY <2>1, <2>2, IdleSearchFits DEF Search
  <2>4. g.at = "obtain" /\ g.start = now - 1 /\ g.since = 0 /\ g.devices = {}
    BY <2>1, <2>2, IdleSearchFits DEF Search
  <2>5. scan' = [scan EXCEPT ![a] = g]
    BY <1>4, <2>2 DEF findAndMakeAgreements
  <2> QED
    BY <1>1, <2>3, <2>4, <2>5 DEF Moves
<1> QED
  BY <1>2, <1>3, <1>4

\* Every step keeps the types, and the times of sessions past.
LEMMA ShapeNext == SearchShape /\ [SearchNext]_searchVars => SearchShape'
<1> SUFFICES ASSUME SearchShape, [SearchNext]_searchVars PROVE SearchShape'
  OBVIOUS
<1> USE DEF SearchShape
<1>c. /\ MaxSearchTime \in Nat /\ RestartBack \in Nat \ {0} /\ LookBack \in Nat
      /\ now \in Times /\ now \in Nat /\ now <= MaxSearchTime /\ RestartBack < now
      /\ NoSearcher \notin Searchers
      /\ {"restart", "policy", "secret", "retry", "error"} \subseteq SearchEvents
  BY SearchAssumption DEF SearchTypeOK, TimesPast, Times, SearchEvents
<1>1. CASE Tick
  BY <1>1, <1>c DEF Tick, SearchTypeOK, TimesPast, Times, data, flags, policy, Row, Session, Search
<1>2. CASE SearchPolicyChanges
  <2>1. SearchSpend("policy") /\ UNCHANGED <<now, nodeChanged, row, ex, scan, rescan, lastErr, polTime>>
        /\ stale' = Searchers /\ taken' = [n \in Nodes |-> NoSearcher]
    BY <1>2 DEF SearchPolicyChanges, data, flags
  <2>2. searchSpent' \in [SearchEvents -> Nat]
    BY <2>1, <1>c, SpendType
  <2> QED
    BY <2>1, <2>2 DEF SearchTypeOK, TimesPast
<1>3. ASSUME NEW n \in Nodes, NodeChanges(n) PROVE SearchShape'
  <2>1. UNCHANGED <<now, row, scan, lastErr, polTime, stale, searchSpent>> /\ SetRescanNeeded(Searchers)
        /\ nodeChanged' = [nodeChanged EXCEPT ![n] = now] /\ taken' = [taken EXCEPT ![n] = NoSearcher]
        /\ ex' = [ex EXCEPT !.given = @ \ {n}]
    BY <1>3 DEF NodeChanges, policy
  <2>2. ex' \in Session /\ ex'.base = ex.base
    BY <2>1 DEF SearchTypeOK, Session
  <2>3. rescan' \in [Searchers -> BOOLEAN]
    BY <2>1, RescanType
  <2>4. nodeChanged' \in [Nodes -> Times] /\ \A m \in Nodes : 0 < nodeChanged'[m] /\ nodeChanged'[m] <= now
    BY <2>1, <1>c DEF SearchTypeOK, TimesPast
  <2> QED
    BY <2>1, <2>2, <2>3, <2>4 DEF SearchTypeOK, TimesPast
<1>4. ASSUME NEW n \in Nodes, MakeAttempt(n) PROVE SearchShape'
  BY <1>4 DEF MakeAttempt, SearchTypeOK, TimesPast, data, flags, policy
<1>5. ASSUME NEW a \in Searchers, PolicyNoticed(a) PROVE SearchShape'
  <2>1. UNCHANGED <<now, nodeChanged, taken, row, ex, scan, lastErr, searchSpent>> /\ SetRescanNeeded({a})
        /\ stale' = stale \ {a} /\ polTime' = [polTime EXCEPT ![a] = now]
    BY <1>5 DEF PolicyNoticed, data
  <2>2. rescan' \in [Searchers -> BOOLEAN]
    BY <2>1, RescanType
  <2>3. polTime' \in [Searchers -> Times] /\ \A b \in Searchers : polTime'[b] <= now
    BY <2>1, <1>c DEF SearchTypeOK, TimesPast
  <2> QED
    BY <2>1, <2>2, <2>3 DEF SearchTypeOK, TimesPast
<1>6. ASSUME NEW a \in Searchers, SecretUpdated(a) PROVE SearchShape'
  <2>1. UNCHANGED <<now, nodeChanged, ex, scan, lastErr, polTime, stale>> /\ SetRescanNeeded({a})
        /\ taken' = [n \in Nodes |-> NoSearcher] /\ ResetPolicyChangedSince(0) /\ SearchSpend("secret")
    BY <1>6 DEF SecretUpdated, policy
  <2>2. rescan' \in [Searchers -> BOOLEAN]
    BY <2>1, RescanType
  <2>3. 0 \in Times /\ 0 <= now
    BY <1>c DEF Times
  <2>4. row' \in Row /\ row'.changedSince = row.changedSince /\ row'.restart <= now
    BY <2>1, <2>3, ResetPolicyFits
  <2>5. searchSpent' \in [SearchEvents -> Nat]
    BY <2>1, <1>c, SpendType
  <2> QED
    BY <2>1, <2>2, <2>4, <2>5 DEF SearchTypeOK, TimesPast
<1>7. ASSUME NEW a \in Searchers, Stop(a) PROVE SearchShape'
  <2>1. UNCHANGED <<now, nodeChanged, row, ex, polTime, stale>> /\ SearchSpend("restart")
        /\ scan' = [scan EXCEPT ![a] = Down]
        /\ taken' = [n \in Nodes |-> IF taken[n] = a THEN NoSearcher ELSE taken[n]]
        /\ rescan' = [rescan EXCEPT ![a] = FALSE] /\ lastErr' = [lastErr EXCEPT ![a] = FALSE]
    BY <1>7 DEF Stop, data, policy
  <2>2. Moves(a, "down", 0, 0, {})
    BY <2>1, IdleMoves
  <2>3. searchSpent' \in [SearchEvents -> Nat]
    BY <2>1, <1>c, SpendType
  <2>4. /\ \A b \in Searchers : scan'[b].start <= now' /\ scan'[b].since <= now'
        /\ \A b \in Searchers : scan'[b].at \notin {"end", "make"} => scan'[b].devices = {}
    BY <2>1, <2>2, <1>c, MovesKeeps
  <2> QED
    BY <2>1, <2>2, <2>3, <2>4 DEF SearchTypeOK, TimesPast, Moves
<1>8. ASSUME NEW a \in Searchers, Restart(a) PROVE SearchShape'
  <2>1. UNCHANGED <<now, nodeChanged, taken, ex, lastErr, searchSpent>>
        /\ scan' = [scan EXCEPT ![a] = IdleSearch] /\ ResetAllChangedSince(now - RestartBack)
        /\ rescan' = [rescan EXCEPT ![a] = TRUE]
        /\ polTime' = [polTime EXCEPT ![a] = now] /\ stale' = stale \ {a}
    BY <1>8 DEF Restart
  <2>2. Moves(a, "idle", 0, 0, {})
    BY <2>1, IdleMoves
  <2>3. now - RestartBack \in Times /\ now - RestartBack <= now
    BY <1>c DEF Times
  <2>4. row' \in Row /\ row'.changedSince <= now /\ row'.restart <= now
    BY <2>1, <2>3, ResetAllFits
  <2>5. /\ \A b \in Searchers : scan'[b].start <= now' /\ scan'[b].since <= now'
        /\ \A b \in Searchers : scan'[b].at \notin {"end", "make"} => scan'[b].devices = {}
    BY <2>1, <2>2, <1>c, MovesKeeps
  <2>6. polTime' \in [Searchers -> Times] /\ \A b \in Searchers : polTime'[b] <= now
    BY <2>1, <1>c DEF SearchTypeOK, TimesPast
  <2> QED
    BY <2>1, <2>2, <2>4, <2>5, <2>6 DEF SearchTypeOK, TimesPast, Moves
<1>9. ASSUME NEW a \in Searchers, NEW n \in Nodes, NEW t \in 1..now, AddRetry(a, n, t) PROVE SearchShape'
  <2>1. UNCHANGED <<now, nodeChanged, ex, scan, lastErr, polTime, stale>> /\ SetRescanNeeded({a})
        /\ taken' = [taken EXCEPT ![n] = NoSearcher] /\ ResetPolicyChangedSince(Back(t, LookBack))
        /\ SearchSpend("retry")
    BY <1>9 DEF AddRetry, policy
  <2>2. rescan' \in [Searchers -> BOOLEAN]
    BY <2>1, RescanType
  <2>3. Back(t, LookBack) \in Times /\ Back(t, LookBack) <= now
    BY <1>c DEF Back, Times
  <2>4. row' \in Row /\ row'.changedSince = row.changedSince /\ row'.restart <= now
    BY <2>1, <2>3, ResetPolicyFits
  <2>5. searchSpent' \in [SearchEvents -> Nat]
    BY <2>1, <1>c, SpendType
  <2> QED
    BY <2>1, <2>2, <2>4, <2>5 DEF SearchTypeOK, TimesPast
<1>10. ASSUME NEW a \in Searchers, Scan(a) \/ ScanAgain(a) PROVE SearchShape'
  <2>1. UNCHANGED <<now, nodeChanged, taken, row, ex, polTime, stale, searchSpent>>
        /\ findAndMakeAgreements(a) /\ rescan' \in [Searchers -> BOOLEAN] /\ lastErr' \in [Searchers -> BOOLEAN]
    BY <1>10 DEF Scan, ScanAgain, findAndMakeAgreements, data, policy, SearchTypeOK
  <2>2. Moves(a, "obtain", now - 1, 0, {})
    BY <2>1, IdleMoves
  <2>3. /\ \A b \in Searchers : scan'[b].start <= now' /\ scan'[b].since <= now'
        /\ \A b \in Searchers : scan'[b].at \notin {"end", "make"} => scan'[b].devices = {}
    <3>1. now - 1 <= now /\ 0 <= now /\ now' = now
      BY <2>1, <1>c
    <3> QED
      BY <3>1, <2>2, MovesKeeps
  <2> QED
    BY <2>1, <2>2, <2>3 DEF SearchTypeOK, TimesPast, Moves
<1>11. ASSUME NEW a \in Searchers, ObtainSearchSession(a) PROVE SearchShape'
  <2>1. UNCHANGED <<now, nodeChanged, taken, ex, rescan, lastErr, polTime, stale, searchSpent>> /\ row' = Obtained
    BY <1>11 DEF ObtainSearchSession, flags, policy
  <2>2. Moves(a, "search", scan[a].start, Obtained.changedSince, {})
    BY <1>11, ObtainMoves
  <2>3. row' \in Row /\ row'.changedSince <= now /\ row'.restart <= now /\ Obtained.changedSince <= now
    BY <2>1, ObtainedFits
  <2>4. /\ \A b \in Searchers : scan'[b].start <= now' /\ scan'[b].since <= now'
        /\ \A b \in Searchers : scan'[b].at \notin {"end", "make"} => scan'[b].devices = {}
    <3>1. scan[a].start <= now
      BY DEF TimesPast
    <3> QED
      BY <3>1, <2>1, <2>2, <2>3, MovesKeeps
  <2> QED
    BY <2>1, <2>2, <2>3, <2>4 DEF SearchTypeOK, TimesPast, Moves
<1>12. ASSUME NEW a \in Searchers, OutOfSync(a) PROVE SearchShape'
  <2>1. UNCHANGED <<now, nodeChanged, taken, row, ex, lastErr, polTime, stale, searchSpent>> /\ SetRescanNeeded({a})
    BY <1>12 DEF OutOfSync, data, policy
  <2>2. Moves(a, "search", scan[a].start, scan[a].since, {})
    BY <1>12, OutOfSyncMoves
  <2>3. rescan' \in [Searchers -> BOOLEAN]
    BY <2>1, RescanType
  <2>4. /\ \A b \in Searchers : scan'[b].start <= now' /\ scan'[b].since <= now'
        /\ \A b \in Searchers : scan'[b].at \notin {"end", "make"} => scan'[b].devices = {}
    <3>1. scan[a].start <= now /\ scan[a].since <= now
      BY DEF TimesPast
    <3> QED
      BY <3>1, <2>1, <2>2, MovesKeeps
  <2> QED
    BY <2>1, <2>2, <2>3, <2>4 DEF SearchTypeOK, TimesPast, Moves
<1>13. ASSUME NEW a \in Searchers, FullPage(a) PROVE SearchShape'
  <2>1. UNCHANGED <<now, nodeChanged, taken, row, lastErr, polTime, stale, searchSpent>> /\ SetRescanNeeded({a})
    BY <1>13 DEF FullPage, policy
  <2>2. PICK D \in kSubset(BatchSize, Left(Opened(a))) :
           /\ ex' = [Opened(a) EXCEPT !.given = @ \cup D]
           /\ scan' = [scan EXCEPT ![a].at = "make", ![a].devices = D]
    BY <1>13 DEF FullPage
  <2>3. D \in SUBSET Nodes
    BY <2>2 DEF kSubset, Left
  <2>4. Moves(a, "make", scan[a].start, scan[a].since, D)
    BY <2>2, <2>3, PageMoves
  <2>5. ex' \in Session /\ ex'.base <= now
    <3>1. PICK o \in Session : o = Opened(a) /\ o.base <= now
      BY OpenedFits
    <3>2. ex' = [o EXCEPT !.given = @ \cup D]
      BY <2>2, <3>1
    <3> QED
      BY <3>1, <3>2, <2>3 DEF Session
  <2>6. rescan' \in [Searchers -> BOOLEAN]
    BY <2>1, RescanType
  <2>7. /\ \A b \in Searchers : scan'[b].start <= now' /\ scan'[b].since <= now'
        /\ \A b \in Searchers : scan'[b].at \notin {"end", "make"} => scan'[b].devices = {}
    <3>1. scan[a].start <= now /\ scan[a].since <= now
      BY DEF TimesPast
    <3> QED
      BY <3>1, <2>1, <2>4, MovesKeeps
  <2> QED
    BY <2>1, <2>4, <2>5, <2>6, <2>7 DEF SearchTypeOK, TimesPast, Moves
<1>14. ASSUME NEW a \in Searchers, LastPage(a) PROVE SearchShape'
  <2>1. UNCHANGED <<now, nodeChanged, taken, row, rescan, lastErr, polTime, stale, searchSpent>> /\ ex' = NoSession
        /\ scan' = [scan EXCEPT ![a].at = "end", ![a].devices = Left(Opened(a))]
    BY <1>14 DEF LastPage, flags, policy
  <2>2. Left(Opened(a)) \in SUBSET Nodes
    BY DEF Left
  <2>3. Moves(a, "end", scan[a].start, scan[a].since, Left(Opened(a)))
    BY <2>1, <2>2, PageMoves
  <2>4. ex' \in Session /\ ex'.base <= now
    BY <2>1, <1>c, SearchAssumption DEF NoSession, Session, Times
  <2>7. /\ \A b \in Searchers : scan'[b].start <= now' /\ scan'[b].since <= now'
        /\ \A b \in Searchers : scan'[b].at \notin {"end", "make"} => scan'[b].devices = {}
    <3>1. scan[a].start <= now /\ scan[a].since <= now
      BY DEF TimesPast
    <3> QED
      BY <3>1, <2>1, <2>3, MovesKeeps
  <2> QED
    BY <2>1, <2>3, <2>4, <2>7 DEF SearchTypeOK, TimesPast, Moves
<1>15. ASSUME NEW a \in Searchers, SearchFails(a) PROVE SearchShape'
  <2>1. UNCHANGED <<now, nodeChanged, taken, row, ex, rescan, polTime, stale>> /\ SearchSpend("error")
        /\ scan' = [scan EXCEPT ![a] = IdleSearch] /\ lastErr' = [lastErr EXCEPT ![a] = TRUE]
    BY <1>15 DEF SearchFails, data, policy
  <2>2. Moves(a, "idle", 0, 0, {})
    BY <2>1, IdleMoves
  <2>3. searchSpent' \in [SearchEvents -> Nat]
    BY <2>1, <1>c, SpendType
  <2>4. /\ \A b \in Searchers : scan'[b].start <= now' /\ scan'[b].since <= now'
        /\ \A b \in Searchers : scan'[b].at \notin {"end", "make"} => scan'[b].devices = {}
    BY <2>1, <2>2, <1>c, MovesKeeps
  <2> QED
    BY <2>1, <2>2, <2>3, <2>4 DEF SearchTypeOK, TimesPast, Moves
<1>16. ASSUME NEW a \in Searchers, EndSession(a) PROVE SearchShape'
  <2>1. UNCHANGED <<now, nodeChanged, taken, ex, rescan, lastErr, polTime, stale, searchSpent>> /\ row' = EndedRow(a)
    BY <1>16 DEF EndSession, flags, policy
  <2>2. Moves(a, "make", scan[a].start, scan[a].since, scan[a].devices)
    BY <1>16, EndMoves
  <2>3. row' \in Row /\ row'.changedSince <= now /\ row'.restart <= now
    BY <2>1, EndedRowFits DEF TimesPast
  <2>7. /\ \A b \in Searchers : scan'[b].start <= now' /\ scan'[b].since <= now'
        /\ \A b \in Searchers : scan'[b].at \notin {"end", "make"} => scan'[b].devices = {}
    <3>1. scan[a].start <= now /\ scan[a].since <= now
      BY DEF TimesPast
    <3> QED
      BY <3>1, <2>1, <2>2, MovesKeeps
  <2> QED
    BY <2>1, <2>2, <2>3, <2>7 DEF SearchTypeOK, TimesPast, Moves
<1>17. ASSUME NEW a \in Searchers, HandleMakeAgreement(a) PROVE SearchShape'
  <2>1. UNCHANGED <<now, nodeChanged, row, ex, rescan, lastErr, polTime, stale, searchSpent>>
        /\ scan' = [scan EXCEPT ![a] = IdleSearch]
        /\ taken' = [n \in Nodes |->
                 IF n \in scan[a].devices /\ taken[n] = NoSearcher /\ a \notin stale THEN a ELSE taken[n]]
    BY <1>17 DEF HandleMakeAgreement, data, flags, policy
  <2>2. Moves(a, "idle", 0, 0, {})
    BY <2>1, IdleMoves
  <2>4. /\ \A b \in Searchers : scan'[b].start <= now' /\ scan'[b].since <= now'
        /\ \A b \in Searchers : scan'[b].at \notin {"end", "make"} => scan'[b].devices = {}
    BY <2>1, <2>2, <1>c, MovesKeeps
  <2> QED
    BY <2>1, <2>2, <2>4 DEF SearchTypeOK, TimesPast, Moves
<1>18. CASE UNCHANGED searchVars
  BY <1>18 DEF searchVars, data, flags, policy, SearchTypeOK, TimesPast
<1> QED
  BY <1>1, <1>2, <1>3, <1>4, <1>5, <1>6, <1>7, <1>8, <1>9, <1>10, <1>11, <1>12, <1>13, <1>14, <1>15, <1>16, <1>17, <1>18
  DEF SearchNext, SearchStep

\* The types of NodeSearch hold in every state (SearchTypeOK), for any agbots,
\* nodes, page sizes and numbers of events.
THEOREM SearchTypeCorrect == SearchSpec => []SearchTypeOK
<1>1. SearchShape => SearchTypeOK
  BY DEF SearchShape
<1> QED
  BY <1>1, ShapeInit, ShapeNext, PTL DEF SearchSpec

-----------------------------------------------------------------------------
(* Several agbots that share the search session, while nothing else happens:  *)
(* nodes change, searches fail, pages are of any size.                        *)

\* No agbot was restarted, the policy and its secrets stayed, no attempt failed.
Undisturbed == \A e \in {"restart", "policy", "secret", "retry"} : searchSpent[e] = 0

\* Nobody has the node, nor found it.
Waiting(n) == taken[n] = NoSearcher /\ \A a \in Searchers : n \notin scan[a].devices

\* Whatever session or search is under way still looks at the node: the row, the
\* session of the exchange, the searches that will ask for a page, and the time
\* that the session gets when it is ended.
Ahead(n) ==
  /\ row.changedSince <= nodeChanged[n]
  /\ ex.token # 0 => ex.base <= nodeChanged[n] /\ n \notin ex.given
  /\ \A a \in Searchers : /\ scan[a].at = "search" => scan[a].since <= nodeChanged[n]
                          /\ scan[a].at = "end" => scan[a].start <= nodeChanged[n]

TurnsInv ==
  Undisturbed => /\ stale = {} /\ row.restart = 0 /\ \A a \in Searchers : Up(a)
                 /\ \A n \in Nodes : Waiting(n) => Ahead(n)

\* Nothing is under way at the start, and every node has changed.
LEMMA TurnsInit == SearchInit => TurnsInv
<1> SUFFICES ASSUME SearchInit PROVE TurnsInv
  OBVIOUS
<1>1. \A a \in Searchers : scan[a].at = "idle"
  BY IdleSearchFits DEF SearchInit
<1>2. stale = {} /\ row.restart = 0 /\ row.changedSince = 0 /\ ex.token = 0 /\ \A n \in Nodes : nodeChanged[n] = 1
  BY DEF SearchInit, NoSession
<1> QED
  BY <1>1, <1>2 DEF TurnsInv, Ahead, Up

\* An event ends the calm.
LEMMA EventDisturbs ==
  ASSUME SearchTypeOK, NEW e \in {"restart", "policy", "secret", "retry"}, SearchSpend(e)
  PROVE  ~Undisturbed'
BY SpendType DEF Undisturbed, SearchEvents

\* Every step keeps the nodes that wait ahead of all sessions.
LEMMA TurnsNext == SearchShape /\ TurnsInv /\ [SearchNext]_searchVars => TurnsInv'
<1> SUFFICES ASSUME SearchShape, TurnsInv, [SearchNext]_searchVars, Undisturbed'
             PROVE  /\ (stale = {})' /\ (row.restart = 0)' /\ \A a \in Searchers : Up(a)'
                    /\ \A n \in Nodes : Waiting(n)' => Ahead(n)'
  BY DEF TurnsInv
<1> DEFINE Goal == /\ (stale = {})' /\ (row.restart = 0)' /\ \A a \in Searchers : Up(a)'
                   /\ \A n \in Nodes : Waiting(n)' => Ahead(n)'
<1>c. /\ SearchTypeOK /\ TimesPast /\ NoSearcher \notin Searchers /\ SearchDone # NoSearcher
      /\ now \in Times /\ Times \subseteq Nat
  BY SearchAssumption DEF SearchShape, SearchTypeOK, Times
<1>d. Undisturbed
  <2>1. \A e \in SearchEvents : searchSpent[e] \in Nat
    BY <1>c DEF SearchTypeOK
  <2>2. \A e \in SearchEvents : SearchSpend(e) => searchSpent[e] \in Nat /\ searchSpent' = [searchSpent EXCEPT ![e] = @ + 1]
    BY <2>1 DEF SearchSpend
  <2>3. searchSpent' = searchSpent \/ \E e \in SearchEvents : SearchSpend(e)
    BY DEF SearchNext, SearchStep, searchVars, Tick, SearchPolicyChanges, NodeChanges, MakeAttempt, PolicyNoticed,
           SecretUpdated, Stop, Restart, Scan, ScanAgain, findAndMakeAgreements, ObtainSearchSession, OutOfSync, FullPage,
           LastPage, EndSession, HandleMakeAgreement, SearchFails, AddRetry, SearchEvents
  <2>4. \A f \in SearchEvents : searchSpent'[f] = 0 => searchSpent[f] = 0
    BY <1>c, <2>3, SpendType
  <2> QED
    BY <2>4 DEF Undisturbed, SearchEvents
<1>e. /\ stale = {} /\ row.restart = 0 /\ \A a \in Searchers : Up(a)
      /\ \A n \in Nodes : Waiting(n) => Ahead(n)
  BY <1>d DEF TurnsInv
<1>1. CASE Tick
  BY <1>1, <1>e DEF Tick, data, policy, Waiting, Ahead, Up
<1>2. ASSUME NEW n \in Nodes, NodeChanges(n) PROVE Goal
  <2>1. UNCHANGED <<now, row, scan, polTime, stale>> 
        /\ nodeChanged' = [nodeChanged EXCEPT ![n] = now] /\ taken' = [taken EXCEPT ![n] = NoSearcher]
        /\ ex' = [ex EXCEPT !.given = @ \ {n}]
    BY <1>2 DEF NodeChanges, policy
  <2>2. ex'.token = ex.token /\ ex'.base = ex.base /\ ex'.given = ex.given \ {n}
    BY <2>1, <1>c DEF SearchTypeOK, Session
  <2>3. ASSUME NEW m \in Nodes, Waiting(m)' PROVE Ahead(m)'
    <3>1. CASE m = n
      <4>1. nodeChanged'[m] = now
        BY <3>1, <2>1, <1>c DEF SearchTypeOK
      <4> QED
        BY <4>1, <2>1, <2>2, <3>1, <1>c DEF Ahead, TimesPast
    <3>2. CASE m # n
      <4>1. nodeChanged'[m] = nodeChanged[m] /\ taken'[m] = taken[m]
        BY <3>2, <2>1, <1>c DEF SearchTypeOK
      <4>2. Ahead(m)
        BY <4>1, <2>1, <2>3, <1>e DEF Waiting
      <4> QED
        BY <4>1, <4>2, <2>1, <2>2 DEF Ahead
    <3> QED
      BY <3>1, <3>2
  <2> QED
    BY <2>1, <2>3, <1>e DEF Up
<1>3. ASSUME NEW n \in Nodes, MakeAttempt(n) PROVE Goal
  <2>1. UNCHANGED <<nodeChanged, row, ex, scan, stale>> /\ taken' = [taken EXCEPT ![n] = SearchDone] /\ taken[n] \in Searchers
    BY <1>3 DEF MakeAttempt, data, policy
  <2>2. ASSUME NEW m \in Nodes, Waiting(m)' PROVE Waiting(m)
    <3>1. CASE m = n
      BY <3>1, <2>1, <2>2, <1>c DEF Waiting, SearchTypeOK
    <3>2. CASE m # n
      BY <3>2, <2>1, <2>2, <1>c DEF Waiting, SearchTypeOK
    <3> QED
      BY <3>1, <3>2
  <2> QED
    BY <2>1, <2>2, <1>e DEF Up, Ahead
<1>4. ASSUME NEW a \in Searchers, Scan(a) \/ ScanAgain(a) PROVE Goal
  <2>1. UNCHANGED <<nodeChanged, taken, row, ex, stale>> /\ findAndMakeAgreements(a) /\ scan[a].at = "idle"
    BY <1>4 DEF Scan, ScanAgain, findAndMakeAgreements, data, policy
  <2>2. Moves(a, "obtain", now - 1, 0, {})
    BY <2>1, IdleMoves
  <2>3. scan[a].devices = {}
    BY <2>1, <1>c DEF TimesPast
  <2> QED
    BY <2>1, <2>2, <2>3, <1>e DEF Moves, Up, Waiting, Ahead
<1>5. ASSUME NEW a \in Searchers, ObtainSearchSession(a) PROVE Goal
  <2>1. UNCHANGED <<nodeChanged, taken, ex, stale>> /\ row' = Obtained /\ scan[a].at = "obtain"
    BY <1>5 DEF ObtainSearchSession, policy
  <2>2. Moves(a, "search", scan[a].start, Obtained.changedSince, {})
    BY <1>5, ObtainMoves
  <2>3. scan[a].devices = {}
    BY <2>1, <1>c DEF TimesPast
  <2>4. row'.restart = 0 /\ (row'.changedSince = 0 \/ row'.changedSince = row.changedSince)
    BY <2>1, <1>e, ObtainedFits
  <2>5. ASSUME NEW n \in Nodes, Waiting(n)' PROVE Ahead(n)'
    <3>1. Waiting(n)
      BY <2>1, <2>2, <2>3, <2>5 DEF Moves, Waiting
    <3>2. Ahead(n) /\ nodeChanged[n] \in Nat
      BY <3>1, <1>e, <1>c DEF SearchTypeOK
    <3>3. row'.changedSince <= nodeChanged[n] /\ Obtained.changedSince <= nodeChanged[n]
      BY <2>1, <2>4, <3>2 DEF Ahead
    <3> QED
      BY <3>2, <3>3, <2>1, <2>2 DEF Moves, Ahead
  <2> QED
    BY <2>1, <2>2, <2>4, <2>5, <1>e DEF Moves, Up
<1>6. ASSUME NEW a \in Searchers, OutOfSync(a) PROVE Goal
  <2>1. UNCHANGED <<nodeChanged, taken, row, ex, stale>> /\ scan[a].at = "search"
    BY <1>6 DEF OutOfSync, data, policy
  <2>2. Moves(a, "search", scan[a].start, scan[a].since, {})
    BY <1>6, OutOfSyncMoves
  <2>3. scan[a].devices = {}
    BY <2>1, <1>c DEF TimesPast
  <2> QED
    BY <2>1, <2>2, <2>3, <1>e DEF Moves, Up, Waiting, Ahead
<1>7. ASSUME NEW a \in Searchers, FullPage(a) PROVE Goal
  <2>1. UNCHANGED <<nodeChanged, taken, row, stale>> /\ scan[a].at = "search"
    BY <1>7 DEF FullPage, policy
  <2>2. PICK D \in kSubset(BatchSize, Left(Opened(a))) :
           /\ ex' = [Opened(a) EXCEPT !.given = @ \cup D]
           /\ scan' = [scan EXCEPT ![a].at = "make", ![a].devices = D]
    BY <1>7 DEF FullPage
  <2>3. D \in SUBSET Nodes
    BY <2>2 DEF kSubset, Left
  <2>4. Moves(a, "make", scan[a].start, scan[a].since, D)
    BY <2>2, <2>3, PageMoves
  <2>5. scan[a].devices = {}
    BY <2>1, <1>c DEF TimesPast
  <2>6. PICK o \in Session : o = Opened(a)
    BY OpenedFits
  <2>7. ex'.base = o.base /\ ex'.given = o.given \cup D /\ ex'.token = o.token
    BY <2>2, <2>6 DEF Session
  <2>8. ASSUME NEW n \in Nodes, Waiting(n)' PROVE Ahead(n)'
    <3>1. Waiting(n) /\ n \notin D
      BY <2>1, <2>4, <2>5, <2>8 DEF Moves, Waiting
    <3>2. Ahead(n) /\ nodeChanged[n] \in Nat
      BY <3>1, <1>e, <1>c DEF SearchTypeOK
    <3>3. o.base <= nodeChanged[n] /\ n \notin o.given
      <4>1. CASE ex.token # 0
        BY <4>1, <3>2, <2>6, OpenedFits DEF Ahead
      <4>2. CASE ex.token = 0
        <5>1. o.base <= scan[a].since /\ o.given = {} /\ scan[a].since <= nodeChanged[n]
          BY <4>2, <3>2, <2>1, <2>6, OpenedFits DEF Ahead
        <5>2. o.base \in Nat /\ scan[a].since \in Nat
          BY <1>c, <2>6 DEF SearchTypeOK, Search, Session
        <5> QED
          BY <5>1, <5>2, <3>2
      <4> QED
        BY <4>1, <4>2
    <3> QED
      BY <3>1, <3>2, <3>3, <2>1, <2>4, <2>7 DEF Moves, Ahead
  <2> QED
    BY <2>1, <2>4, <2>8, <1>e DEF Moves, Up
<1>8. ASSUME NEW a \in Searchers, LastPage(a) PROVE Goal
  <2>1. UNCHANGED <<nodeChanged, taken, row, stale>> /\ scan[a].at = "search" /\ ex' = NoSession
        /\ scan' = [scan EXCEPT ![a].at = "end", ![a].devices = Left(Opened(a))]
    BY <1>8 DEF LastPage, policy
  <2>2. Left(Opened(a)) \in SUBSET Nodes
    BY DEF Left
  <2>3. Moves(a, "end", scan[a].start, scan[a].since, Left(Opened(a)))
    BY <2>1, <2>2, PageMoves
  <2>5. scan[a].devices = {}
    BY <2>1, <1>c DEF TimesPast
  <2>6. PICK o \in Session : o = Opened(a)
    BY OpenedFits
  \* Whoever nobody had yet is in this page.
  <2>8. ASSUME NEW n \in Nodes, Waiting(n)' PROVE FALSE
    <3>1. Waiting(n) /\ n \notin Left(o)
      BY <2>1, <2>3, <2>5, <2>6, <2>8 DEF Moves, Waiting
    <3>2. Ahead(n) /\ nodeChanged[n] \in Nat
      BY <3>1, <1>e, <1>c DEF SearchTypeOK
    <3>3. o.base <= nodeChanged[n] /\ n \notin o.given
      <4>1. CASE ex.token # 0
        BY <4>1, <3>2, <2>6, OpenedFits DEF Ahead
      <4>2. CASE ex.token = 0
        <5>1. o.base <= scan[a].since /\ o.given = {} /\ scan[a].since <= nodeChanged[n]
          BY <4>2, <3>2, <2>1, <2>6, OpenedFits DEF Ahead
        <5>2. o.base \in Nat /\ scan[a].since \in Nat
          BY <1>c, <2>6 DEF SearchTypeOK, Search, Session
        <5> QED
          BY <5>1, <5>2, <3>2
      <4> QED
        BY <4>1, <4>2
    <3>4. o.base \in Nat
      BY <1>c, <2>6 DEF Session
    <3> QED
      BY <3>1, <3>2, <3>3, <3>4 DEF Left
  <2> QED
    BY <2>1, <2>3, <2>8, <1>e DEF Moves, Up
<1>9. ASSUME NEW a \in Searchers, SearchFails(a) PROVE Goal
  <2>1. UNCHANGED <<nodeChanged, taken, row, ex, stale>> /\ scan[a].at = "search" /\ scan' = [scan EXCEPT ![a] = IdleSearch]
    BY <1>9 DEF SearchFails, data, policy
  <2>2. Moves(a, "idle", 0, 0, {})
    BY <2>1, IdleMoves
  <2>3. scan[a].devices = {}
    BY <2>1, <1>c DEF TimesPast
  <2> QED
    BY <2>1, <2>2, <2>3, <1>e DEF Moves, Up, Waiting, Ahead
<1>10. ASSUME NEW a \in Searchers, EndSession(a) PROVE Goal
  <2>1. UNCHANGED <<nodeChanged, taken, ex, stale>> /\ row' = EndedRow(a) /\ scan[a].at = "end"
    BY <1>10 DEF EndSession, policy
  <2>2. Moves(a, "make", scan[a].start, scan[a].since, scan[a].devices)
    BY <1>10, EndMoves
  <2>3. row'.restart = 0 /\ (row'.changedSince = row.changedSince \/ row'.changedSince = scan[a].start)
    BY <2>1, <1>e, EndedRowFits
  <2>5. ASSUME NEW n \in Nodes, Waiting(n)' PROVE Ahead(n)'
    <3>1. Waiting(n)
      <4>1. \A b \in Searchers : scan'[b].devices = scan[b].devices
        BY <2>2 DEF Moves
      <4> QED
        BY <2>1, <4>1, <2>5 DEF Waiting
    <3>2. Ahead(n)
      BY <3>1, <1>e
    <3>3. row'.changedSince <= nodeChanged[n]
      BY <2>1, <2>3, <3>2 DEF Ahead
    <3> QED
      BY <3>2, <3>3, <2>1, <2>2 DEF Moves, Ahead
  <2> QED
    BY <2>1, <2>2, <2>3, <2>5, <1>e DEF Moves, Up
<1>11. ASSUME NEW a \in Searchers, HandleMakeAgreement(a) PROVE Goal
  <2>1. UNCHANGED <<nodeChanged, row, ex, stale>> /\ scan' = [scan EXCEPT ![a] = IdleSearch]
        /\ taken' = [n \in Nodes |->
                 IF n \in scan[a].devices /\ taken[n] = NoSearcher /\ a \notin stale THEN a ELSE taken[n]]
    BY <1>11 DEF HandleMakeAgreement, data, policy
  <2>2. Moves(a, "idle", 0, 0, {})
    BY <2>1, IdleMoves
  <2>3. ASSUME NEW n \in Nodes, Waiting(n)' PROVE Waiting(n)
    <3>1. taken'[n] = NoSearcher /\ taken[n] = NoSearcher /\ n \notin scan[a].devices
      BY <2>1, <2>3, <1>c, <1>e DEF Waiting
    <3> QED
      BY <3>1, <2>2, <2>3 DEF Moves, Waiting
  <2>4. ASSUME NEW n \in Nodes, Ahead(n) PROVE Ahead(n)'
    BY <2>1, <2>2, <2>4 DEF Moves, Ahead
  <2> QED
    BY <2>1, <2>2, <2>3, <2>4, <1>e DEF Moves, Up
<1>12. CASE UNCHANGED searchVars
  BY <1>12, <1>e DEF searchVars, data, policy, Waiting, Ahead, Up
<1>13. CASE SearchPolicyChanges
  BY <1>13, <1>c, EventDisturbs DEF SearchPolicyChanges
<1>14. ASSUME NEW a \in Searchers, PolicyNoticed(a) \/ Restart(a) PROVE Goal
  BY <1>14, <1>e DEF PolicyNoticed, Restart, Up
<1>15. ASSUME NEW a \in Searchers, SecretUpdated(a) PROVE Goal
  BY <1>15, <1>c, EventDisturbs DEF SecretUpdated
<1>16. ASSUME NEW a \in Searchers, Stop(a) PROVE Goal
  BY <1>16, <1>c, EventDisturbs DEF Stop
<1>17. ASSUME NEW a \in Searchers, NEW n \in Nodes, NEW t \in 1..now, AddRetry(a, n, t) PROVE Goal
  BY <1>17, <1>c, EventDisturbs DEF AddRetry
<1> QED
  BY <1>1, <1>2, <1>3, <1>4, <1>5, <1>6, <1>7, <1>8, <1>9, <1>10, <1>11, <1>12, <1>13, <1>14, <1>15, <1>16, <1>17
  DEF SearchNext, SearchStep

\* For any number of agbots that take turns at the pages of the shared session,
\* any page size and any failed searches, no node is missed (NoNodeMissed) as
\* long as no agbot is restarted, the policy and its secrets stay, and no attempt
\* has to be made again.
THEOREM SharedSearchMissesNone == SearchSpec => [](Undisturbed => NoNodeMissed)
<1>1. SearchShape /\ TurnsInv => (Undisturbed => NoNodeMissed)
  <2> SUFFICES ASSUME SearchShape, TurnsInv, Undisturbed, NEW n \in Nodes, taken[n] = NoSearcher
               PROVE  Covered(n)
    BY DEF NoNodeMissed
  <2>1. stale = {} /\ row.restart = 0 /\ (Waiting(n) => Ahead(n))
    BY DEF TurnsInv
  <2>2. CASE Waiting(n)
    <3>1. SearchFrom \in {0, row.changedSince}
      BY <2>1 DEF SearchFrom
    <3>2. row.changedSince <= nodeChanged[n] /\ nodeChanged[n] \in Nat /\ row.changedSince \in Nat
      BY <2>1, <2>2 DEF Ahead, SearchShape, SearchTypeOK, Row, Times
    <3> QED
      BY <3>1, <3>2 DEF Covered
  <2>3. CASE ~Waiting(n)
    BY <2>1, <2>3 DEF Waiting, Covered
  <2> QED
    BY <2>2, <2>3
<1> QED
  BY <1>1, ShapeInit, ShapeNext, TurnsInit, TurnsNext, PTL DEF SearchSpec

-----------------------------------------------------------------------------
(* One agbot, through restarts, retries, policy changes and failed searches.  *)

\* There is one agbot; its pages hold every node or the policy stays; and a retry
\* looks back far enough for every node.
LoneAgbot ==
  /\ \A a, b \in Searchers : a = b
  /\ IsFiniteSet(Nodes) /\ (MaxSearchPolicy = 0 \/ Cardinality(Nodes) < BatchSize)
  /\ MaxSearchTime <= LookBack

\* A search from time t on, by agbot s, looks at the node.
Reaches(s, n, t) == t <= nodeChanged[n] \/ t < polTime[s]

\* A time to go back to reaches every node.
RestartReaches(s) == row.restart # 0 => row.restart <= 1 \/ row.restart < polTime[s]

\* The session of agbot s is open while the exchange has it, and what the search
\* ends is what it obtained.
SessionInOrder(s) ==
  /\ scan[s].at \in {"search", "end"} => row.made /\ ~row.ended /\ row.changedSince = scan[s].since
  /\ ex.token # 0 => row.made /\ ~row.ended /\ scan[s].at # "end"
  /\ row.changedSince < now /\ row.restart < now /\ scan[s].start < now

\* The policy changes only where a session has one page.
OnePage ==
  /\ Cardinality(Nodes) < BatchSize => ex.token = 0
  /\ ~(Cardinality(Nodes) < BatchSize) => stale = {}

\* The session that is open, or the next one, returns the node.
InSession(s, n) ==
  /\ Reaches(s, n, row.changedSince)
  /\ scan[s].at = "end" => Reaches(s, n, scan[s].start)
  /\ ex.token # 0 => ex.base <= nodeChanged[n] /\ n \notin ex.given

Returned(s) ==
  searchSpent["secret"] = 0 /\ stale = {} /\ Up(s) =>
    \A n \in Nodes : taken[n] = NoSearcher /\ n \notin scan[s].devices =>
       ~row.made \/ row.restart # 0 \/ InSession(s, n)

LoneInv == OnePage /\ \A s \in Searchers : RestartReaches(s) /\ SessionInOrder(s) /\ Returned(s)

\* At the start there is no session.
LEMMA LoneInit == SearchInit => LoneInv
<1> SUFFICES ASSUME SearchInit PROVE LoneInv
  OBVIOUS
<1>1. \A a \in Searchers : scan[a].at = "idle" /\ scan[a].start = 0
  BY IdleSearchFits DEF SearchInit
<1>2. /\ stale = {} /\ row.restart = 0 /\ row.changedSince = 0 /\ ~row.made /\ ex.token = 0
      /\ now = RestartBack + 1 /\ RestartBack \in Nat
  BY SearchAssumption DEF SearchInit, NoSession, Start
<1> QED
  BY <1>1, <1>2 DEF LoneInv, OnePage, RestartReaches, SessionInOrder, Returned

\* A page that is full does not hold every node.
LEMMA FullPageIsNotAll ==
  ASSUME LoneAgbot, SearchTypeOK, NEW a \in Searchers, FullPage(a)
  PROVE  ~(Cardinality(Nodes) < BatchSize)
<1>1. PICK D \in kSubset(BatchSize, Left(Opened(a))) : TRUE
  BY DEF FullPage
<1>2. D \in SUBSET Nodes /\ Cardinality(D) = BatchSize
  BY <1>1 DEF kSubset, Left
<1>3. IsFiniteSet(Nodes) /\ BatchSize \in Nat
  BY SearchAssumption DEF LoneAgbot
<1>4. Cardinality(D) <= Cardinality(Nodes) /\ Cardinality(Nodes) \in Nat
  BY <1>2, <1>3, FS_Subset, FS_CardinalityType
<1> QED
  BY <1>2, <1>3, <1>4

\* Pages that hold every node leave the exchange no session.
LEMMA OnePageNext ==
  ASSUME LoneAgbot, SearchShape, OnePage, [SearchNext]_searchVars
  PROVE  OnePage'
<1>0. SearchTypeOK /\ ex \in Session /\ searchSpent["policy"] \in Nat /\ SearchLimit["policy"] = MaxSearchPolicy
  BY DEF SearchShape, SearchTypeOK, SearchEvents, SearchLimit
<1>1. ASSUME NEW n \in Nodes, NodeChanges(n) PROVE OnePage'
  <2>1. ex'.token = ex.token /\ stale' = stale
    BY <1>0, <1>1 DEF NodeChanges, Session, policy
  <2> QED
    BY <2>1 DEF OnePage
<1>2. CASE SearchPolicyChanges
  <2>1. searchSpent["policy"] < MaxSearchPolicy /\ ex' = ex
    BY <1>0, <1>2 DEF SearchPolicyChanges, SearchSpend, data
  <2>2. Cardinality(Nodes) < BatchSize
    BY <1>0, <2>1 DEF LoneAgbot
  <2> QED
    BY <2>1, <2>2 DEF OnePage
<1>3. ASSUME NEW a \in Searchers, FullPage(a) PROVE OnePage'
  <2>1. stale' = stale
    BY <1>3 DEF FullPage, policy
  <2> QED
    BY <1>0, <1>3, <2>1, FullPageIsNotAll DEF OnePage
<1>4. ASSUME NEW a \in Searchers, LastPage(a) PROVE OnePage'
  BY <1>4 DEF LastPage, NoSession, policy, OnePage
<1>5. CASE (ex' = ex \/ ex'.token = ex.token) /\ (stale' = stale \/ \E a \in Searchers : stale' = stale \ {a})
  BY <1>5 DEF OnePage
<1> QED
  BY <1>1, <1>2, <1>3, <1>4, <1>5
  DEF SearchNext, SearchStep, searchVars, Tick, MakeAttempt, PolicyNoticed,
      SecretUpdated, Stop, Restart, Scan, ScanAgain, findAndMakeAgreements, ObtainSearchSession, OutOfSync,
      EndSession, HandleMakeAgreement, SearchFails, AddRetry, data, policy

\* Every step of a lone agbot and of its surroundings keeps its invariant.
LEMMA LoneStep ==
  ASSUME LoneAgbot, SearchShape, LoneInv, [SearchNext]_searchVars, NEW s \in Searchers
  PROVE  RestartReaches(s)' /\ SessionInOrder(s)' /\ Returned(s)'
<1> DEFINE Goal == RestartReaches(s)' /\ SessionInOrder(s)' /\ Returned(s)'
<1>c. /\ SearchTypeOK /\ TimesPast /\ NoSearcher \notin Searchers /\ SearchDone # NoSearcher
      /\ now \in Nat /\ RestartBack \in Nat \ {0} /\ RestartBack < now /\ now <= MaxSearchTime
      /\ MaxSearchTime \in Nat /\ LookBack \in Nat
  BY SearchAssumption DEF SearchShape, SearchTypeOK, TimesPast, Times
<1>t. /\ row.changedSince \in Nat /\ row.restart \in Nat /\ polTime[s] \in Nat
      /\ scan[s].start \in Nat /\ scan[s].since \in Nat
      /\ ex \in Session /\ ex.base \in Nat
  BY <1>c DEF SearchTypeOK, Row, Search, Session, Times
<1>n. \A n \in Nodes : nodeChanged[n] \in Nat /\ 1 <= nodeChanged[n]
  <2> SUFFICES ASSUME NEW n \in Nodes PROVE nodeChanged[n] \in Nat /\ 1 <= nodeChanged[n]
    OBVIOUS
  <2>1. nodeChanged[n] \in Nat /\ 0 < nodeChanged[n]
    BY <1>c DEF SearchTypeOK, TimesPast, Times
  <2> QED
    BY <2>1
<1>a. \A a \in Searchers : a = s
  BY DEF LoneAgbot
<1>e. OnePage /\ RestartReaches(s) /\ SessionInOrder(s) /\ Returned(s)
  BY DEF LoneInv
<1>p. polTime[s] <= now
  BY <1>c DEF TimesPast
<1>1. CASE Tick
  <2>1. now' = now + 1 /\ UNCHANGED <<nodeChanged, taken, row, ex, scan, polTime, stale, searchSpent>>
    BY <1>1 DEF Tick, data, policy
  <2>2. SessionInOrder(s)'
    BY <2>1, <1>e, <1>c, <1>t DEF SessionInOrder
  <2> QED
    BY <2>1, <2>2, <1>e DEF RestartReaches, Returned, InSession, Reaches, Up
<1>2. CASE SearchPolicyChanges
  <2>1. stale' # {} /\ UNCHANGED <<now, row, ex, scan, polTime>>
    BY <1>2 DEF SearchPolicyChanges, data
  <2> QED
    BY <2>1, <1>e DEF RestartReaches, SessionInOrder, Returned
<1>3. ASSUME NEW n \in Nodes, NodeChanges(n) PROVE Goal
  <2>1. UNCHANGED <<now, row, scan, polTime, stale, searchSpent>>
        /\ nodeChanged' = [nodeChanged EXCEPT ![n] = now] /\ taken' = [taken EXCEPT ![n] = NoSearcher]
        /\ ex' = [ex EXCEPT !.given = @ \ {n}]
    BY <1>3 DEF NodeChanges, policy
  <2>2. ex'.token = ex.token /\ ex'.base = ex.base /\ ex'.given = ex.given \ {n}
    BY <2>1, <1>t DEF Session
  <2>3. RestartReaches(s)' /\ SessionInOrder(s)'
    BY <2>1, <2>2, <1>e DEF RestartReaches, SessionInOrder
  <2>4. ASSUME (searchSpent["secret"] = 0 /\ stale = {} /\ Up(s))', NEW m \in Nodes, 
               (taken[m] = NoSearcher /\ m \notin scan[s].devices)', row.made, row.restart = 0
        PROVE InSession(s, m)'
    <3>1. CASE m = n
      <4>1. nodeChanged'[m] = now
        BY <3>1, <2>1, <1>c DEF SearchTypeOK
      <4>2. row.changedSince <= now /\ scan[s].start <= now /\ ex.base <= now
        BY <1>c DEF TimesPast
      <4> QED
        BY <4>1, <4>2, <3>1, <2>1, <2>2 DEF InSession, Reaches
    <3>2. CASE m # n
      <4>1. nodeChanged'[m] = nodeChanged[m] /\ taken'[m] = taken[m]
        BY <3>2, <2>1, <1>c DEF SearchTypeOK
      <4>2. InSession(s, m)
        BY <4>1, <2>1, <2>4, <1>e DEF Returned, Up
      <4> QED
        BY <4>1, <4>2, <2>1, <2>2 DEF InSession, Reaches
    <3> QED
      BY <3>1, <3>2
  <2> QED
    BY <2>1, <2>3, <2>4 DEF Returned
<1>4. ASSUME NEW n \in Nodes, MakeAttempt(n) PROVE Goal
  <2>1. UNCHANGED <<now, nodeChanged, row, ex, scan, polTime, stale, searchSpent>>
        /\ taken' = [taken EXCEPT ![n] = SearchDone] /\ taken[n] \in Searchers
    BY <1>4 DEF MakeAttempt, data, policy
  <2>2. ASSUME NEW m \in Nodes, taken'[m] = NoSearcher PROVE taken[m] = NoSearcher
    <3>1. CASE m = n
      BY <3>1, <2>1, <2>2, <1>c DEF SearchTypeOK
    <3>2. CASE m # n
      BY <3>2, <2>1, <2>2, <1>c DEF SearchTypeOK
    <3> QED
      BY <3>1, <3>2
  <2>3. RestartReaches(s)' /\ SessionInOrder(s)'
    BY <2>1, <1>e DEF RestartReaches, SessionInOrder
  <2>4. Returned(s)'
    BY <2>1, <2>2, <1>e DEF Returned, InSession, Reaches, Up
  <2> QED
    BY <2>3, <2>4
<1>5. CASE PolicyNoticed(s)
  <2>1. UNCHANGED <<now, nodeChanged, taken, row, ex, scan, searchSpent>> /\ stale # {}
        /\ stale' = stale \ {s} /\ polTime' = [polTime EXCEPT ![s] = now]
    BY <1>5 DEF PolicyNoticed, data
  <2>2. polTime'[s] = now /\ ex.token = 0
    BY <2>1, <1>c, <1>e DEF SearchTypeOK, OnePage
  <2>3. RestartReaches(s)'
    BY <2>1, <2>2, <1>e DEF RestartReaches, SessionInOrder
  <2>4. SessionInOrder(s)'
    BY <2>1, <1>e DEF SessionInOrder
  <2>5. \A n \in Nodes : InSession(s, n)'
    BY <2>1, <2>2, <1>e DEF InSession, Reaches, SessionInOrder
  <2> QED
    BY <2>3, <2>4, <2>5 DEF Returned
<1>6. CASE SecretUpdated(s)
  <2>1. UNCHANGED <<now, ex, scan, polTime>> /\ ResetPolicyChangedSince(0) /\ SearchSpend("secret")
    BY <1>6 DEF SecretUpdated, policy
  <2>2. searchSpent'["secret"] # 0
    BY <2>1, <1>c, SpendType DEF SearchEvents
  <2>3. /\ row'.changedSince = row.changedSince /\ row'.made = row.made /\ row'.ended = row.ended
        /\ row'.restart \in {0, row.restart} 
    <3>1. 0 \in Times /\ 0 <= now
      BY <1>c DEF Times
    <3> QED
      BY <3>1, <2>1, ResetPolicyFits, <1>t
  <2>4. RestartReaches(s)' /\ SessionInOrder(s)'
    BY <2>1, <2>3, <1>e, <1>c DEF RestartReaches, SessionInOrder
  <2> QED
    BY <2>2, <2>4 DEF Returned
<1>7. CASE Stop(s)
  <2>1. UNCHANGED <<now, row, ex, polTime>> /\ scan' = [scan EXCEPT ![s] = Down]
    BY <1>7 DEF Stop, data, policy
  <2>2. Moves(s, "down", 0, 0, {})
    BY <2>1, IdleMoves
  <2>3. RestartReaches(s)' /\ SessionInOrder(s)'
    BY <2>1, <2>2, <1>e, <1>c DEF RestartReaches, SessionInOrder, Moves
  <2> QED
    BY <2>2, <2>3 DEF Returned, Moves, Up
<1>8. CASE Restart(s)
  <2>1. UNCHANGED <<now, nodeChanged, taken, ex, searchSpent>>
        /\ scan' = [scan EXCEPT ![s] = IdleSearch] /\ ResetAllChangedSince(now - RestartBack)
        /\ polTime' = [polTime EXCEPT ![s] = now]
    BY <1>8 DEF Restart
  <2>2. Moves(s, "idle", 0, 0, {})
    BY <2>1, IdleMoves
  <2>3. now - RestartBack \in Times /\ now - RestartBack < now /\ now - RestartBack <= now /\ now - RestartBack # 0
    BY <1>c DEF Times
  <2>4. polTime'[s] = now
    BY <2>1, <1>c DEF SearchTypeOK
  <2>5. row' \in Row /\ row'.made = row.made /\ row'.ended = row.ended
        /\ (row.made /\ ~row.ended => row'.restart = now - RestartBack /\ row'.changedSince = row.changedSince)
        /\ (row.made /\ row.ended => row'.restart = row.restart /\ row'.changedSince = now - RestartBack)
        /\ (~row.made => row' = row)
    BY <2>1, <2>3, ResetAllFits
  <2>6. row'.changedSince < now /\ row'.restart < now
    BY <2>3, <2>5, <1>e DEF SessionInOrder
  <2>7. RestartReaches(s)'
    BY <2>4, <2>6 DEF RestartReaches
  <2>8. SessionInOrder(s)'
    BY <2>1, <2>2, <2>5, <2>6, <1>e, <1>c DEF SessionInOrder, Moves
  <2>9. ASSUME NEW n \in Nodes, row'.made, row'.restart = 0 PROVE InSession(s, n)'
    <3>1. row.ended /\ ex.token = 0
      BY <2>3, <2>5, <2>9, <1>e DEF SessionInOrder
    <3> QED
      BY <3>1, <2>1, <2>2, <2>4, <2>6 DEF InSession, Reaches, Moves
  <2> QED
    BY <2>7, <2>8, <2>9 DEF Returned
<1>9. ASSUME NEW n \in Nodes, NEW t \in 1..now, AddRetry(s, n, t) PROVE Goal
  <2>1. UNCHANGED <<now, nodeChanged, ex, scan, polTime, stale>>
        /\ taken' = [taken EXCEPT ![n] = NoSearcher] /\ ResetPolicyChangedSince(Back(t, LookBack))
        /\ SearchSpend("retry")
    BY <1>9 DEF AddRetry, policy
  <2>2. Back(t, LookBack) = 1
    BY <1>c DEF Back, LoneAgbot
  <2>3. 1 \in Times /\ 1 <= now /\ 1 < now
    BY <1>c DEF Times
  <2>4. /\ row'.changedSince = row.changedSince /\ row'.made = row.made /\ row'.ended = row.ended
        /\ (row.made => row'.restart = IF row.restart = 0 \/ row.restart > 1 THEN 1 ELSE row.restart)
        /\ (~row.made => row' = row)
    BY <2>1, <2>2, <2>3, ResetPolicyFits
  <2>5. RestartReaches(s)'
    <3>1. CASE row.made
      BY <3>1, <2>4, <1>t DEF RestartReaches
    <3>2. CASE ~row.made
      BY <3>2, <2>1, <2>4, <1>e DEF RestartReaches
    <3> QED
      BY <3>1, <3>2
  <2>6. SessionInOrder(s)'
    BY <2>1, <2>3, <2>4, <1>e, <1>t DEF SessionInOrder
  <2>7. row'.made => row'.restart # 0
    BY <2>4, <1>t
  <2> QED
    BY <2>5, <2>6, <2>7 DEF Returned
<1>10. CASE Scan(s) \/ ScanAgain(s)
  <2>1. UNCHANGED <<now, nodeChanged, taken, row, ex, polTime, stale, searchSpent>> /\ findAndMakeAgreements(s) /\ scan[s].at = "idle"
    BY <1>10 DEF Scan, ScanAgain, findAndMakeAgreements, data, policy
  <2>2. Moves(s, "obtain", now - 1, 0, {})
    BY <2>1, IdleMoves
  <2>3. scan[s].devices = {}
    BY <2>1, <1>c DEF TimesPast
  <2>4. RestartReaches(s)' /\ SessionInOrder(s)'
    BY <2>1, <2>2, <1>e, <1>c DEF RestartReaches, SessionInOrder, Moves
  <2>5. Returned(s)'
    BY <2>1, <2>2, <2>3, <1>e DEF Returned, InSession, Reaches, Moves, Up
  <2> QED
    BY <2>4, <2>5
<1>11. CASE ObtainSearchSession(s)
  <2>1. UNCHANGED <<now, nodeChanged, taken, ex, polTime, stale, searchSpent>> /\ row' = Obtained /\ scan[s].at = "obtain"
    BY <1>11 DEF ObtainSearchSession, policy
  <2>2. Moves(s, "search", scan[s].start, row'.changedSince, {})
    BY <1>11, <2>1, ObtainMoves
  <2>3. scan[s].devices = {} /\ Up(s)
    BY <2>1, <1>c DEF TimesPast, Up
  <2>4. /\ row'.made /\ ~row'.ended
        /\ (~row.made => row'.changedSince = 0 /\ row'.restart = 0)
        /\ (row.made /\ ~row.ended => row' = row)
        /\ (row.made /\ row.ended => /\ row'.restart = 0
                                     /\ row'.changedSince = IF row.restart # 0 THEN row.restart ELSE row.changedSince)
    BY <2>1, ObtainedFits
  <2>5. row'.changedSince < now /\ row'.restart < now /\ row'.restart \in {0, row.restart}
    BY <2>4, <1>e, <1>c DEF SessionInOrder
  <2>6. RestartReaches(s)'
    BY <2>1, <2>5, <1>e DEF RestartReaches
  <2>7. SessionInOrder(s)'
    BY <2>1, <2>2, <2>4, <2>5, <1>e DEF SessionInOrder, Moves
  <2>8. ASSUME (searchSpent["secret"] = 0 /\ stale = {} /\ Up(s))', NEW n \in Nodes,
               (taken[n] = NoSearcher /\ n \notin scan[s].devices)', row'.restart = 0
        PROVE InSession(s, n)'
    <3>1. ~row.made \/ row.restart # 0 \/ InSession(s, n)
      BY <2>1, <2>3, <2>8, <1>e DEF Returned
    <3>2. CASE ~row.made
      <4>1. row'.changedSince = 0 /\ ex'.token = 0
        BY <3>2, <2>1, <2>4, <1>e DEF SessionInOrder
      <4> QED
        BY <4>1, <2>1, <2>2, <1>n DEF InSession, Reaches, Moves
    <3>3. CASE row.made /\ row.restart # 0
      <4>1. row.ended /\ row'.changedSince = row.restart
        BY <3>3, <2>4, <2>8
      <4>2. ex'.token = 0
        BY <4>1, <2>1, <1>e DEF SessionInOrder
      <4>3. Reaches(s, n, row.restart)
        BY <3>3, <1>e, <1>n, <1>t DEF RestartReaches, Reaches
      <4> QED
        BY <4>1, <4>2, <4>3, <2>1, <2>2 DEF InSession, Reaches, Moves
    <3>4. CASE row.made /\ row.restart = 0 /\ InSession(s, n)
      <4>1. row'.changedSince = row.changedSince
        BY <3>4, <2>4
      <4> QED
        BY <3>4, <4>1, <2>1, <2>2 DEF InSession, Reaches, Moves
    <3> QED
      BY <3>1, <3>2, <3>3, <3>4
  <2> QED
    BY <2>6, <2>7, <2>8 DEF Returned
<1>12. CASE OutOfSync(s)
  <2>1. UNCHANGED <<now, nodeChanged, taken, row, ex, polTime, stale, searchSpent>> /\ scan[s].at = "search"
    BY <1>12 DEF OutOfSync, data, policy
  <2>2. Moves(s, "search", scan[s].start, scan[s].since, {})
    BY <1>12, OutOfSyncMoves
  <2>3. scan[s].devices = {}
    BY <2>1, <1>c DEF TimesPast
  <2>4. RestartReaches(s)' /\ SessionInOrder(s)'
    BY <2>1, <2>2, <1>e, <1>c DEF RestartReaches, SessionInOrder, Moves
  <2>5. Returned(s)'
    BY <2>1, <2>2, <2>3, <1>e DEF Returned, InSession, Reaches, Moves, Up
  <2> QED
    BY <2>4, <2>5
<1>13. CASE FullPage(s)
  <2>1. UNCHANGED <<now, nodeChanged, taken, row, polTime, stale, searchSpent>> /\ scan[s].at = "search"
    BY <1>13 DEF FullPage, policy
  <2>2. PICK D \in kSubset(BatchSize, Left(Opened(s))) :
           /\ ex' = [Opened(s) EXCEPT !.given = @ \cup D]
           /\ scan' = [scan EXCEPT ![s].at = "make", ![s].devices = D]
    BY <1>13 DEF FullPage
  <2>3. D \in SUBSET Nodes
    BY <2>2 DEF kSubset, Left
  <2>4. Moves(s, "make", scan[s].start, scan[s].since, D)
    BY <2>2, <2>3, PageMoves
  <2>5. scan[s].devices = {} /\ Up(s)
    BY <2>1, <1>c DEF TimesPast, Up
  <2>6. PICK o \in Session : o = Opened(s)
    BY OpenedFits
  <2>7. ex'.base = o.base /\ ex'.given = o.given \cup D
    BY <2>2, <2>6 DEF Session
  <2>8. row.made /\ ~row.ended /\ row.changedSince = scan[s].since
    BY <2>1, <1>e DEF SessionInOrder
  <2>9. RestartReaches(s)' /\ SessionInOrder(s)'
    BY <2>1, <2>4, <2>8, <1>e DEF RestartReaches, SessionInOrder, Moves
  <2>10. ASSUME (searchSpent["secret"] = 0 /\ stale = {} /\ Up(s))', NEW n \in Nodes,
               (taken[n] = NoSearcher /\ n \notin scan[s].devices)', row'.restart = 0
        PROVE InSession(s, n)'
    <3>1. InSession(s, n) /\ n \notin D
      BY <2>1, <2>4, <2>5, <2>8, <2>10, <1>e DEF Returned, Moves
    <3>2. o.base <= nodeChanged[n] /\ n \notin o.given
      <4>1. CASE ex.token # 0
        BY <4>1, <3>1, <2>6, OpenedFits DEF InSession
      <4>2. CASE ex.token = 0
        BY <4>2, <3>1, <2>6, <2>8, <1>n, <1>t, OpenedFits DEF InSession, Reaches
      <4> QED
        BY <4>1, <4>2
    <3> QED
      BY <3>1, <3>2, <2>1, <2>4, <2>7 DEF InSession, Reaches, Moves
  <2> QED
    BY <2>9, <2>10 DEF Returned
<1>14. CASE LastPage(s)
  <2>1. UNCHANGED <<now, nodeChanged, taken, row, polTime, stale, searchSpent>> /\ scan[s].at = "search" /\ ex' = NoSession
        /\ scan' = [scan EXCEPT ![s].at = "end", ![s].devices = Left(Opened(s))]
    BY <1>14 DEF LastPage, policy
  <2>2. Left(Opened(s)) \in SUBSET Nodes
    BY DEF Left
  <2>4. Moves(s, "end", scan[s].start, scan[s].since, Left(Opened(s)))
    BY <2>1, <2>2, PageMoves
  <2>5. scan[s].devices = {} /\ Up(s)
    BY <2>1, <1>c DEF TimesPast, Up
  <2>6. PICK o \in Session : o = Opened(s)
    BY OpenedFits
  <2>7. ex'.token = 0
    BY <2>1 DEF NoSession
  <2>8. row.made /\ ~row.ended /\ row.changedSince = scan[s].since
    BY <2>1, <1>e DEF SessionInOrder
  <2>9. RestartReaches(s)' /\ SessionInOrder(s)'
    BY <2>1, <2>4, <2>7, <2>8, <1>e DEF RestartReaches, SessionInOrder, Moves
  \* The page holds every node that the session was to return.
  <2>10. ASSUME (searchSpent["secret"] = 0 /\ stale = {} /\ Up(s))', NEW n \in Nodes,
               (taken[n] = NoSearcher /\ n \notin scan[s].devices)', row'.restart = 0
        PROVE FALSE
    <3>1. InSession(s, n) /\ n \notin Left(o)
      BY <2>1, <2>4, <2>5, <2>6, <2>8, <2>10, <1>e DEF Returned, Moves
    <3>2. o.base <= nodeChanged[n] /\ n \notin o.given /\ o.base \in Nat
      <4>1. CASE ex.token # 0
        BY <4>1, <3>1, <2>6, <1>t, OpenedFits DEF InSession
      <4>2. CASE ex.token = 0
        BY <4>2, <3>1, <2>6, <2>8, <1>n, <1>t, OpenedFits DEF InSession, Reaches
      <4> QED
        BY <4>1, <4>2
    <3> QED
      BY <3>1, <3>2, <1>n DEF Left
  <2> QED
    BY <2>9, <2>10 DEF Returned
<1>15. CASE SearchFails(s)
  <2>1. UNCHANGED <<now, nodeChanged, taken, row, ex, polTime, stale>> /\ scan[s].at = "search"
        /\ scan' = [scan EXCEPT ![s] = IdleSearch] /\ SearchSpend("error")
    BY <1>15 DEF SearchFails, data, policy
  <2>2. Moves(s, "idle", 0, 0, {})
    BY <2>1, IdleMoves
  <2>3. scan[s].devices = {}
    BY <2>1, <1>c DEF TimesPast
  <2>4. RestartReaches(s)' /\ SessionInOrder(s)'
    BY <2>1, <2>2, <1>e, <1>c DEF RestartReaches, SessionInOrder, Moves
  <2>5. searchSpent'["secret"] = 0 => searchSpent["secret"] = 0
    BY <2>1, <1>c, SpendType DEF SearchEvents
  <2>6. Returned(s)'
    BY <2>1, <2>2, <2>3, <2>5, <1>e DEF Returned, InSession, Reaches, Moves, Up
  <2> QED
    BY <2>4, <2>6
<1>16. CASE EndSession(s)
  <2>1. UNCHANGED <<now, nodeChanged, taken, ex, polTime, stale, searchSpent>> /\ row' = EndedRow(s) /\ scan[s].at = "end"
    BY <1>16 DEF EndSession, policy
  <2>2. Moves(s, "make", scan[s].start, scan[s].since, scan[s].devices)
    BY <1>16, EndMoves
  <2>3. row.made /\ ~row.ended /\ row.changedSince = scan[s].since /\ ex.token = 0 /\ scan[s].start < now
    BY <2>1, <1>e DEF SessionInOrder
  <2>4. row'.restart = row.restart /\ row'.made = row.made /\ row'.changedSince = scan[s].start /\ row'.ended
    BY <2>1, <2>3, EndedRowFits
  <2>5. RestartReaches(s)'
    BY <2>1, <2>4, <1>e DEF RestartReaches
  <2>6. SessionInOrder(s)'
    BY <2>1, <2>2, <2>3, <2>4, <1>e DEF SessionInOrder, Moves
  <2>7. Returned(s)'
    BY <2>1, <2>2, <2>3, <2>4, <1>e DEF Returned, InSession, Reaches, Moves, Up
  <2> QED
    BY <2>5, <2>6, <2>7
<1>17. CASE HandleMakeAgreement(s)
  <2>1. UNCHANGED <<now, nodeChanged, row, ex, polTime, stale, searchSpent>> /\ scan[s].at = "make"
        /\ scan' = [scan EXCEPT ![s] = IdleSearch]
        /\ taken' = [n \in Nodes |->
                 IF n \in scan[s].devices /\ taken[n] = NoSearcher /\ s \notin stale THEN s ELSE taken[n]]
    BY <1>17 DEF HandleMakeAgreement, data, policy
  <2>2. Moves(s, "idle", 0, 0, {})
    BY <2>1, IdleMoves
  <2>3. RestartReaches(s)' /\ SessionInOrder(s)'
    BY <2>1, <2>2, <1>e, <1>c DEF RestartReaches, SessionInOrder, Moves
  <2>4. ASSUME stale = {}, NEW n \in Nodes, taken'[n] = NoSearcher
        PROVE taken[n] = NoSearcher /\ n \notin scan[s].devices
    BY <2>1, <2>4, <1>c
  <2>5. Returned(s)'
    BY <2>1, <2>2, <2>4, <1>e DEF Returned, InSession, Reaches, Moves, Up
  <2> QED
    BY <2>3, <2>5
<1>18. CASE UNCHANGED searchVars
  <2>1. UNCHANGED <<now, nodeChanged, taken, row, ex, scan, polTime, stale, searchSpent>>
    BY <1>18 DEF searchVars, data, policy
  <2> QED
    BY <2>1, <1>e DEF RestartReaches, SessionInOrder, Returned, InSession, Reaches, Up
<1> QED
  BY <1>a, <1>1, <1>2, <1>3, <1>4, <1>5, <1>6, <1>7, <1>8, <1>9, <1>10, <1>11, <1>12, <1>13, <1>14, <1>15, <1>16, <1>17, <1>18
  DEF SearchNext, SearchStep

\* The same for the invariant as a whole.
LEMMA LoneNext ==
  ASSUME LoneAgbot PROVE SearchShape /\ LoneInv /\ [SearchNext]_searchVars => LoneInv'
<1> SUFFICES ASSUME SearchShape, LoneInv, [SearchNext]_searchVars PROVE LoneInv'
  OBVIOUS
<1>1. OnePage'
  BY OnePageNext DEF LoneInv
<1>2. ASSUME NEW s \in Searchers PROVE RestartReaches(s)' /\ SessionInOrder(s)' /\ Returned(s)'
  BY LoneStep
<1> QED
  BY <1>1, <1>2 DEF LoneInv

\* A node of a lone agbot's session is covered.
LEMMA LoneCovers ==
  ASSUME SearchShape, LoneInv, NEW s \in Searchers, searchSpent["secret"] = 0,
         NEW n \in Nodes, taken[n] = NoSearcher
  PROVE  Covered(n)
<1>1. SearchTypeOK /\ row.restart \in Nat /\ row.changedSince \in Nat /\ polTime[s] \in Nat
      /\ nodeChanged[n] \in Nat /\ 0 < nodeChanged[n]
  BY DEF SearchShape, SearchTypeOK, TimesPast, Row, Times
<1>2. CASE stale # {} \/ ~Up(s) \/ n \in scan[s].devices
  BY <1>2 DEF Covered
<1>3. CASE stale = {} /\ Up(s) /\ n \notin scan[s].devices
  <2>1. RestartReaches(s) /\ (~row.made \/ row.restart # 0 \/ InSession(s, n))
    BY <1>3 DEF LoneInv, Returned
  <2>2. CASE ~row.made
    BY <1>1, <2>2 DEF Covered, SearchFrom
  <2>3. CASE row.made /\ row.restart # 0
    <3>1. row.restart <= nodeChanged[n] \/ row.restart < polTime[s]
      BY <1>1, <2>1, <2>3 DEF RestartReaches
    <3>2. PICK m \in {row.changedSince, row.restart} : m = Min({row.changedSince, row.restart}) /\ m <= row.restart
      <4>1. \E x \in {row.changedSince, row.restart} : \A y \in {row.changedSince, row.restart} : x <= y
        BY <1>1
      <4> QED
        BY <4>1 DEF Min
    <3>3. SearchFrom \in Nat /\ SearchFrom <= row.restart
      BY <1>1, <2>3, <3>2 DEF SearchFrom
    <3> QED
      BY <1>1, <3>1, <3>3 DEF Covered
  <2>4. CASE row.made /\ row.restart = 0 /\ InSession(s, n)
    <3>1. SearchFrom = row.changedSince
      BY <2>4 DEF SearchFrom
    <3> QED
      BY <1>1, <2>4, <3>1 DEF Covered, InSession, Reaches
  <2> QED
    BY <2>1, <2>2, <2>3, <2>4
<1> QED
  BY <1>2, <1>3

\* A lone agbot misses no node (NoNodeMissed) through any number of restarts,
\* failed searches and attempts to be made again, and through policy changes when
\* a page holds every node; up to an update of a secret.
THEOREM LoneSearchMissesNone ==
  ASSUME LoneAgbot, Searchers # {} PROVE SearchSpec => []NoNodeMissed
<1>1. SearchShape /\ LoneInv => NoNodeMissed
  BY LoneCovers DEF NoNodeMissed
<1>2. LoneInv /\ SearchShape /\ [SearchNext]_searchVars => LoneInv'
  BY LoneNext
<1> QED
  BY <1>1, <1>2, ShapeInit, ShapeNext, LoneInit, PTL DEF SearchSpec
=============================================================================
