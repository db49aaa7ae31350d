----------------------------- MODULE NodeSearch -----------------------------
(***************************************************************************)
(* The agbots' search for nodes that a deployment policy could run on.     *)
(* The agbots share a Postgresql row per policy, the search session: the   *)
(* session token, the time since which nodes must have changed             *)
(* (changedSince), whether the session is ended, and a time to go back to  *)
(* when the next session starts.  Every agbot scans on a thread of its     *)
(* own: it obtains the session, gets a page of nodes from the exchange,    *)
(* ends the session when the page was the last one, and only then queues   *)
(* agreement attempts in memory.  One policy is modelled.                  *)
(***************************************************************************)
EXTENDS Naturals, FiniteSets, FiniteSetsExt

CONSTANTS Searchers, Nodes,
          BatchSize,    \* nodes in a full page
          MaxToken,     \* the token after which tokens start at 1 again
          RestartBack,  \* how far a restarted agbot goes back: 60 seconds
          LookBack,     \* AgbotRetryLookBackWindow
          MaxSearchTime,      \* bound on the clock
          MaxRestart, MaxSearchPolicy, MaxSecret, MaxRetry, MaxError,  \* bounds on events
          FullRescan,   \* whether agbots scan periodically without being told to
          NoSearcher, SearchDone  \* who has the node: nobody, or its attempt was made

ASSUME SearchAssumption ==
  /\ BatchSize \in Nat \ {0} /\ MaxToken \in Nat \ {0, 1}
  /\ RestartBack \in Nat \ {0} /\ LookBack \in Nat
  /\ MaxSearchTime \in Nat /\ RestartBack < MaxSearchTime
  /\ FullRescan \in BOOLEAN
  /\ NoSearcher \notin Searchers /\ SearchDone \notin Searchers \cup {NoSearcher}

Times == 0..MaxSearchTime
Start == RestartBack + 1   \* the time at which the model starts; nodes changed before

Row == [made : BOOLEAN, ended : BOOLEAN, changedSince : Times, restart : Times, token : 0..MaxToken]
Session == [token : 0..MaxToken, base : Times, given : SUBSET Nodes]
Search == [at : {"down", "idle", "obtain", "search", "end", "make"},
           start : Times, since : Times, token : 0..MaxToken, devices : SUBSET Nodes]
IdleSearch == [at |-> "idle", start |-> 0, since |-> 0, token |-> 0, devices |-> {}]
Down == [IdleSearch EXCEPT !.at = "down"]
NoSession == [token |-> 0, base |-> 0, given |-> {}]

VARIABLES now,        \* the clock
          nodeChanged,    \* when each node changed last, as the exchange knows it
          taken,      \* who has the node since then: Nobody, an agbot (in memory), Done
          row,        \* search_sessions
          ex,         \* the exchange's own session: token 0 when it has none
          scan,       \* what each agbot's search thread is doing
          rescan,     \* rescanNeeded
          lastErr,    \* lastSearchHasErr
          polTime,    \* when each agbot took over the changed policy (Updated)
          stale,      \* agbots that still use the old policy
          searchSpent       \* how many events of each kind have happened

data == <<row, ex>>
flags == <<rescan, lastErr>>
policy == <<polTime, stale>>
searchVars == <<now, nodeChanged, taken, data, scan, flags, policy, searchSpent>>

SearchEvents == {"restart", "policy", "secret", "retry", "error"}
SearchLimit == [e \in SearchEvents |-> CASE e = "restart" -> MaxRestart [] e = "policy" -> MaxSearchPolicy
                             [] e = "secret" -> MaxSecret [] e = "retry" -> MaxRetry
                             [] OTHER -> MaxError]
SearchSpend(e) == searchSpent[e] < SearchLimit[e] /\ searchSpent' = [searchSpent EXCEPT ![e] = @ + 1]

SearchTypeOK ==
  /\ now \in Times
  /\ nodeChanged \in [Nodes -> Times]
  /\ taken \in [Nodes -> Searchers \cup {NoSearcher, SearchDone}]
  /\ row \in Row
  /\ ex \in Session
  /\ scan \in [Searchers -> Search]
  /\ rescan \in [Searchers -> BOOLEAN] /\ lastErr \in [Searchers -> BOOLEAN]
  /\ polTime \in [Searchers -> Times] /\ stale \subseteq Searchers
  /\ searchSpent \in [SearchEvents -> Nat]

SearchInit ==
  /\ now = Start
  /\ nodeChanged = [n \in Nodes |-> 1] /\ taken = [n \in Nodes |-> NoSearcher]
  /\ row = [made |-> FALSE, ended |-> FALSE, changedSince |-> 0, restart |-> 0, token |-> 0]
  /\ ex = NoSession
  /\ scan = [a \in Searchers |-> IdleSearch]
  /\ rescan = [a \in Searchers |-> TRUE] /\ lastErr = [a \in Searchers |-> FALSE]
  /\ polTime = [a \in Searchers |-> 1] /\ stale = {}
  /\ searchSpent = [e \in SearchEvents |-> 0]

Up(a) == scan[a].at # "down"
SetRescanNeeded(A) == rescan' = [a \in Searchers |-> rescan[a] \/ (a \in A /\ Up(a))]
Back(t, d) == IF t > d THEN t - d ELSE 1

-----------------------------------------------------------------------------
(* The surroundings *)

Tick ==
  /\ now < MaxSearchTime
  /\ now' = now + 1
  /\ UNCHANGED <<nodeChanged, taken, data, scan, flags, policy, searchSpent>>

\* A node changes: it may fit the policy now, and the agbots are told.
NodeChanges(n) ==
  /\ nodeChanged[n] < now
  /\ nodeChanged' = [nodeChanged EXCEPT ![n] = now]
  /\ taken' = [taken EXCEPT ![n] = NoSearcher]
  /\ ex' = [ex EXCEPT !.given = @ \ {n}]
  /\ SetRescanNeeded(Searchers)
  /\ UNCHANGED <<now, row, scan, lastErr, policy, searchSpent>>

\* The policy changes in the exchange: any node may fit it now.
SearchPolicyChanges ==
  /\ stale = {} /\ SearchSpend("policy")
  /\ stale' = Searchers
  /\ taken' = [n \in Nodes |-> NoSearcher]
  /\ UNCHANGED <<now, nodeChanged, data, scan, flags, polTime>>

\* An agbot takes over the changed policy (UpdatePolicies, UpdateEntry), and the
\* event that tells of it makes a rescan needed.
PolicyNoticed(a) ==
  /\ a \in stale /\ Up(a)
  /\ stale' = stale \ {a}
  /\ polTime' = [polTime EXCEPT ![a] = now]
  /\ SetRescanNeeded({a})
  /\ UNCHANGED <<now, nodeChanged, taken, data, scan, lastErr, searchSpent>>

\* ResetPolicyChangedSince(t)
ResetPolicyChangedSince(t) ==
  row' = IF row.made /\ (row.restart = 0 \/ row.restart > t) THEN [row EXCEPT !.restart = t] ELSE row

\* A secret of the policy was created or updated: any node may be served now.
SecretUpdated(a) ==
  /\ Up(a) /\ SearchSpend("secret")
  /\ taken' = [n \in Nodes |-> NoSearcher]
  /\ SetRescanNeeded({a})
  /\ ResetPolicyChangedSince(0)
  /\ UNCHANGED <<now, nodeChanged, ex, scan, lastErr, policy>>

\* The attempt for a node, made at time t, ended without an agreement (AddRetry).
AddRetry(a, n, t) ==
  /\ Up(a) /\ taken[n] = SearchDone /\ SearchSpend("retry")
  /\ taken' = [taken EXCEPT ![n] = NoSearcher]
  /\ SetRescanNeeded({a})
  /\ ResetPolicyChangedSince(Back(t, LookBack))
  /\ UNCHANGED <<now, nodeChanged, ex, scan, lastErr, policy>>

\* A worker makes the agreement attempt that was queued in memory.
MakeAttempt(n) ==
  /\ taken[n] \in Searchers
  /\ taken' = [taken EXCEPT ![n] = SearchDone]
  /\ UNCHANGED <<now, nodeChanged, data, scan, flags, policy, searchSpent>>

\* An agbot stops: what it had in memory is lost.
Stop(a) ==
  /\ Up(a) /\ SearchSpend("restart")
  /\ scan' = [scan EXCEPT ![a] = Down]
  /\ taken' = [n \in Nodes |-> IF taken[n] = a THEN NoSearcher ELSE taken[n]]
  /\ rescan' = [rescan EXCEPT ![a] = FALSE] /\ lastErr' = [lastErr EXCEPT ![a] = FALSE]
  /\ UNCHANGED <<now, nodeChanged, data, policy>>

\* ResetAllChangedSince
ResetAllChangedSince(t) ==
  row' = IF ~row.made THEN row
         ELSE IF row.ended THEN [row EXCEPT !.changedSince = t] ELSE [row EXCEPT !.restart = t]

\* It starts again: NodeSearch.Init, and the first rescan.
Restart(a) ==
  /\ scan[a].at = "down"
  /\ scan' = [scan EXCEPT ![a] = IdleSearch]
  /\ ResetAllChangedSince(now - RestartBack)
  /\ rescan' = [rescan EXCEPT ![a] = TRUE]
  /\ polTime' = [polTime EXCEPT ![a] = now] /\ stale' = stale \ {a}
  /\ UNCHANGED <<now, nodeChanged, taken, ex, lastErr, searchSpent>>

-----------------------------------------------------------------------------
(* A search *)

\* A search starts, on a thread of its own; it notes the time.
findAndMakeAgreements(a) ==
  /\ lastErr' = [lastErr EXCEPT ![a] = FALSE]
  /\ scan' = [scan EXCEPT ![a] = [IdleSearch EXCEPT !.at = "obtain", !.start = now - 1]]
  /\ UNCHANGED <<now, nodeChanged, taken, data, policy, searchSpent>>

\* Scan() starts a search because one is needed, ...
Scan(a) ==
  /\ scan[a].at = "idle" /\ rescan[a]
  /\ rescan' = [rescan EXCEPT ![a] = FALSE]
  /\ findAndMakeAgreements(a)

\* Mutant: that the previous one failed is not looked at.
ScanAgainWhenDue(a) ==
  /\ scan[a].at = "idle" /\ FullRescan /\ ~rescan[a]
  /\ rescan' = rescan
  /\ findAndMakeAgreements(a)

\* ... because the previous one failed, or because none was needed for long.
ScanAgain(a) ==
  /\ scan[a].at = "idle" /\ (lastErr[a] \/ (FullRescan /\ ~rescan[a]))
  /\ rescan' = rescan
  /\ findAndMakeAgreements(a)

\* The token of the next session.
NextToken == IF row.token + 1 > MaxToken THEN 1 ELSE row.token + 1

\* Mutant: the time to go back to is cleared and not used.
ObtainedAsItWas ==
  IF ~row.made THEN [made |-> TRUE, ended |-> FALSE, changedSince |-> 0, restart |-> 0, token |-> MaxToken - 1]
  ELSE IF ~row.ended THEN row
  ELSE [row EXCEPT !.ended = FALSE, !.token = NextToken, !.restart = 0]

\* get_session: the row after the call.
Obtained ==
  IF ~row.made THEN [made |-> TRUE, ended |-> FALSE, changedSince |-> 0, restart |-> 0, token |-> MaxToken - 1]
  ELSE IF ~row.ended THEN row
  ELSE [row EXCEPT !.ended = FALSE, !.token = NextToken, !.restart = 0,
                   !.changedSince = IF row.restart # 0 THEN row.restart ELSE @]

\* ObtainSearchSession
ObtainSearchSession(a) ==
  /\ scan[a].at = "obtain"
  /\ row' = Obtained
  /\ scan' = [scan EXCEPT ![a].at = "search", ![a].since = Obtained.changedSince,
                          ![a].token = Obtained.token]
  /\ UNCHANGED <<now, nodeChanged, taken, ex, flags, policy, searchSpent>>

\* bp_check_time
CheckTime(a) == IF polTime[a] > scan[a].since THEN 0 ELSE scan[a].since

\* The exchange has another session open for the policy: the agbot uses that.
OutOfSync(a) ==
  /\ scan[a].at = "search" /\ ex.token \notin {0, scan[a].token}
  /\ scan' = [scan EXCEPT ![a].token = ex.token]
  /\ SetRescanNeeded({a})
  /\ UNCHANGED <<now, nodeChanged, taken, data, lastErr, policy, searchSpent>>

\* The session as the exchange sees it when a page is asked for: a new one
\* starts at the time the agbot gives.
Opened(a) ==
  IF ex.token = 0 THEN [token |-> scan[a].token, base |-> CheckTime(a), given |-> {}] ELSE ex

\* The nodes the exchange has not returned in the session.
Left(s) == {n \in Nodes \ s.given : nodeChanged[n] >= s.base}

\* A full page: there may be more.
FullPage(a) ==
  /\ scan[a].at = "search" /\ ex.token \in {0, scan[a].token}
  /\ \E D \in kSubset(BatchSize, Left(Opened(a))) :
       /\ ex' = [Opened(a) EXCEPT !.given = @ \cup D]
       /\ scan' = [scan EXCEPT ![a].at = "make", ![a].devices = D]
  /\ SetRescanNeeded({a})
  /\ UNCHANGED <<now, nodeChanged, taken, row, lastErr, policy, searchSpent>>

\* The last page: the exchange forgets the session.
LastPage(a) ==
  /\ scan[a].at = "search" /\ ex.token \in {0, scan[a].token}
  /\ Cardinality(Left(Opened(a))) < BatchSize
  /\ ex' = NoSession
  /\ scan' = [scan EXCEPT ![a].at = "end", ![a].devices = Left(Opened(a))]
  /\ UNCHANGED <<now, nodeChanged, taken, row, flags, policy, searchSpent>>

\* The search fails: the session stays as it is.
SearchFails(a) ==
  /\ scan[a].at = "search" /\ SearchSpend("error")
  /\ scan' = [scan EXCEPT ![a] = IdleSearch]
  /\ lastErr' = [lastErr EXCEPT ![a] = TRUE]
  /\ UNCHANGED <<now, nodeChanged, taken, data, rescan, policy>>

\* UpdateSearchSessionChangedSince: the row after the call.
EndedRow(a) ==
  IF row.changedSince = scan[a].since /\ ~row.ended
  THEN [row EXCEPT !.changedSince = scan[a].start, !.ended = TRUE] ELSE row

EndSession(a) ==
  /\ scan[a].at = "end"
  /\ row' = EndedRow(a)
  /\ scan' = [scan EXCEPT ![a].at = "make"]
  /\ UNCHANGED <<now, nodeChanged, taken, ex, flags, policy, searchSpent>>

\* Agreement attempts for the nodes found are queued in memory, and the search
\* is complete.  An attempt with the old policy does not count.
HandleMakeAgreement(a) ==
  /\ scan[a].at = "make"
  /\ taken' = [n \in Nodes |->
                 IF n \in scan[a].devices /\ taken[n] = NoSearcher /\ a \notin stale THEN a ELSE taken[n]]
  /\ scan' = [scan EXCEPT ![a] = IdleSearch]
  /\ UNCHANGED <<now, nodeChanged, data, flags, policy, searchSpent>>

SearchStep(a) ==
  \/ Scan(a) \/ ScanAgain(a) \/ ObtainSearchSession(a) \/ OutOfSync(a) \/ FullPage(a) \/ LastPage(a)
  \/ EndSession(a) \/ HandleMakeAgreement(a)

SearchNext ==
  \/ Tick \/ SearchPolicyChanges
  \/ \E n \in Nodes : NodeChanges(n) \/ MakeAttempt(n)
  \/ \E a \in Searchers : \/ PolicyNoticed(a) \/ SecretUpdated(a) \/ Stop(a) \/ Restart(a)
                          \/ SearchStep(a) \/ SearchFails(a)
                          \/ \E n \in Nodes, t \in 1..now : AddRetry(a, n, t)

SearchSpec == SearchInit /\ [][SearchNext]_searchVars

SearchFairness == \A a \in Searchers : WF_searchVars(SearchStep(a)) /\ WF_searchVars(PolicyNoticed(a))
SearchFairSpec == SearchSpec /\ SearchFairness

-----------------------------------------------------------------------------
(* Properties *)

\* From which time the searches that are still to come look at nodes.
SearchFrom ==
  IF ~row.made THEN 0
  ELSE IF row.restart = 0 THEN row.changedSince
  ELSE IF row.ended THEN row.restart
  ELSE Min({row.changedSince, row.restart})

\* A node is covered when it is in the page of an agbot that is running, or will
\* be returned by a search that is still to come.
Covered(n) ==
  \/ nodeChanged[n] >= SearchFrom
  \/ \E a \in Searchers : n \in scan[a].devices /\ a \notin stale
  \/ stale # {}
  \/ \E a \in Searchers : ~Up(a) \/ polTime[a] > SearchFrom

\* "For each affected policy, make sure the agbot performs a search of this
\* policy again": a node that nobody has taken since a secret was updated is
\* searched again.
SecretSearchesAgain == \A n \in Nodes : taken[n] = NoSearcher => Covered(n)

\* No node is missed: one that nobody has taken since it changed, since the
\* policy changed or since its attempt failed is covered.  An update of a secret
\* covers none, and is left to SecretSearchesAgain.
NoNodeMissed == searchSpent["secret"] = 0 => \A n \in Nodes : taken[n] = NoSearcher => Covered(n)

\* Every node is taken in the end, although agbots take turns at the pages,
\* sessions get out of sync and searches fail.
EveryNodeTaken == \A n \in Nodes : taken[n] = NoSearcher ~> taken[n] # NoSearcher
=============================================================================
