------------------------- MODULE DeploymentPolicies -------------------------
(***************************************************************************)
(* How an agbot follows the deployment policies, the patterns and the      *)
(* service policies of the exchange: the business policy manager, the      *)
(* pattern manager with its policy files and their watcher, the policy     *)
(* manager that the node search and the agreement workers read, and the    *)
(* commands of the AgreementBotWorker that connect them.  Every change     *)
(* starts a goroutine that first reads the exchange and then updates the   *)
(* manager, so two of them may overtake each other.                        *)
(*                                                                         *)
(* A policy or pattern is the number of its version, 0 when there is none. *)
(* Every deployment policy deploys the same service; its service policy is *)
(* a version too, 0 being the empty policy.  The agbot serves one org.     *)
(***************************************************************************)
EXTENDS Integers, FiniteSets, Sequences, SequencesExt

CONSTANTS Policies,          \* names of deployment policies
          Patterns,          \* names of patterns
          BadVersions,       \* versions of a policy that do not validate
          MaxPolicyVersion,  \* bound on the versions of one policy
          MaxSvcVersion,     \* bound on the versions of the service policy
          MaxEdits,          \* bound on the changes of the exchange, its failed reads
                             \* and the attempts at an agreement given up
          Goroutines         \* bound on goroutines at the same time

\* A deployment policy never has the name of a policy of a pattern.
ASSUME PolicyNames == /\ IsFiniteSet(Policies) /\ IsFiniteSet(Patterns)
                      /\ Policies \cap Patterns = {}
ASSUME PolicyBounds == MaxPolicyVersion \in Nat \ {0} /\ MaxSvcVersion \in Nat \ {0}

VARIABLES exPolicies, exServed, exSvc, edits,     \* the exchange
          served, entries,                        \* BusinessPolicyManager
          files, watched,                         \* pattern policy files, Contents
          pm,                                     \* policy.PolicyManager.Policies
          commands,                               \* the bus and w.Commands
          running,                                \* the goroutines
          making,                                 \* agreements being made, by name
          deals                                   \* agreements, by policy name

exchangeSide == <<exPolicies, exServed, exSvc, edits>>
policyVars == <<exPolicies, exServed, exSvc, edits, served, entries, files,
                watched, pm, commands, running, making, deals>>

Names == Policies \cup Patterns
Versions == 0..MaxPolicyVersion
NoEntry == [hash |-> 0, ver |-> 0, svc |-> -1]
\* late: the policy was deleted while the agreement was being made
NoAgreement == [ver |-> 0, svc |-> -1, late |-> FALSE]
Idle == [kind |-> "idle", seen |-> <<>>]

Cmd(kind, name, ver) == [kind |-> kind, name |-> name, ver |-> ver]

PoliciesInit ==
  /\ exPolicies = [n \in Names |-> 1] /\ exServed = Names /\ exSvc = 1
  /\ edits = 0
  /\ served = Names
  /\ entries = [p \in Policies |-> [hash |-> 1, ver |-> 1, svc |-> -1]]
  /\ files = [p \in Patterns |-> 1] /\ watched = files
  /\ pm = exPolicies
  /\ commands = <<>> /\ running = [g \in Goroutines |-> Idle]
  /\ making = [n \in Names |-> NoAgreement] /\ deals = making

-----------------------------------------------------------------------------
(* The exchange: an administrator changes a policy, a pattern, what the
   agbot serves, or the service policy; the change feed reports it. *)
EditPolicy(n, v) ==
  /\ edits < MaxEdits /\ v # exPolicies[n]
  /\ v = 0 \/ \A w \in Versions : exPolicies[n] < w => v <= w
  /\ edits' = edits + 1
  /\ exPolicies' = [exPolicies EXCEPT ![n] = v]
  /\ commands' = Append(commands, Cmd(IF n \in Policies THEN "policyChange" ELSE "patternChange", n, 0))
  /\ UNCHANGED <<exServed, exSvc, served, entries, files, watched, pm, running, making, deals>>

EditServedPolicies(n) ==
  /\ edits < MaxEdits /\ edits' = edits + 1
  /\ exServed' = (exServed \ {n}) \cup ({n} \ exServed)
  /\ commands' = Append(commands, Cmd(IF n \in Policies THEN "servedPolicy" ELSE "servedPattern", n, 0))
  /\ UNCHANGED <<exPolicies, exSvc, served, entries, files, watched, pm, running, making, deals>>

EditServicePolicy(v) ==
  /\ edits < MaxEdits /\ v # exSvc
  /\ edits' = edits + 1 /\ exSvc' = v
  /\ commands' = Append(commands, Cmd("servicePolicyChange", "svc", 0))
  /\ UNCHANGED <<exPolicies, exServed, served, entries, files, watched, pm, running, making, deals>>

-----------------------------------------------------------------------------
(* The business policy manager.  What it does to one policy is a record: the
   entry, the version the policy manager then has, and the event sent. *)
serveBusinessPolicy(p) == p \in served
hasOrg == served \cap Policies # {}

\* Mutant: the entry takes the new policy before it is validated.
UpdateEntryUnchecked(e, v) == [hash |-> v, ver |-> v, svc |-> -1]

\* UpdateEntry stores the new hash and drops the service policies before it
\* validates, and leaves the old policy in an entry whose new one is invalid.
UpdateEntry(e, v) ==
  IF v \in BadVersions THEN [hash |-> v, ver |-> e.ver, svc |-> -1]
  ELSE [hash |-> v, ver |-> v, svc |-> -1]

Untouched(p) == [entry |-> entries[p], ver |-> pm[p], told |-> {}]

updateBusinessPolicy(p, v) ==
  LET e == entries[p]
      changed == {Cmd("policyChanged", p, v)} IN
  CASE e = NoEntry /\ v \in BadVersions -> Untouched(p)
    [] e = NoEntry /\ v \notin BadVersions ->      \* AddPolicy keeps a policy it has
         [entry |-> [hash |-> v, ver |-> v, svc |-> -1],
          ver |-> IF pm[p] = 0 THEN v ELSE pm[p], told |-> changed]
    [] e # NoEntry /\ e.hash = v -> Untouched(p)
    [] e # NoEntry /\ e.hash # v /\ v \in BadVersions ->
         [Untouched(p) EXCEPT !.entry = UpdateEntry(e, v)]
    [] OTHER -> [entry |-> UpdateEntry(e, v), ver |-> v, told |-> changed]

\* Mutant: the deletion is not announced.
deleteBusinessPolicySilent(p) ==
  IF entries[p] = NoEntry THEN Untouched(p)
  ELSE [entry |-> NoEntry, ver |-> 0, told |-> {}]

deleteBusinessPolicy(p) ==
  IF entries[p] = NoEntry THEN Untouched(p)
  ELSE [entry |-> NoEntry, ver |-> 0, told |-> {Cmd("policyDeleted", p, 0)}]

\* The new entries and policies; the events are sent one by one.
Apply(out) ==
  /\ entries' = [p \in Policies |-> out[p].entry]
  /\ pm' = [n \in Names |-> IF n \in Policies THEN out[n].ver ELSE pm[n]]

\* The loops run over Go maps, so the events of a loop come in any order.
InAnyOrder(out, S) == SetToSeqs(UNION {out[p].told : p \in S})
Twice(s) == [i \in 1..(2 * Len(s)) |-> s[(i + 1) \div 2]]

\* Announces every deletion a second time.
deleteRemainingPolicies(queue) ==
  LET out == [p \in Policies |-> deleteBusinessPolicy(p)] IN
  /\ Apply(out)
  /\ \E s \in InAnyOrder(out, Policies) : commands' = queue \o Twice(s)

\* First what is gone is deleted, then the rest is added or updated.
UpdatePolicies(defined) ==
  \/ ~hasOrg /\ UNCHANGED <<entries, pm, commands>>
  \/ /\ hasOrg /\ \A p \in Policies : defined[p] = 0
     /\ deleteRemainingPolicies(commands)
  \/ /\ hasOrg /\ \E p \in Policies : defined[p] # 0
     /\ LET kept == {p \in Policies : serveBusinessPolicy(p) /\ defined[p] # 0}
            out == [p \in Policies |-> IF p \in kept THEN updateBusinessPolicy(p, defined[p])
                                       ELSE deleteBusinessPolicy(p)]
        IN  /\ Apply(out)
            /\ \E s \in InAnyOrder(out, Policies \ kept), t \in InAnyOrder(out, kept) :
                 commands' = commands \o s \o t

Start(kind) == \E g \in Goroutines :
  /\ running[g] = Idle
  /\ running' = [running EXCEPT ![g] = [kind |-> kind, seen |-> <<>>]]

\* generatePolicyFromBusinessPols, generatePolicyFromPatterns and
\* updateServicePolicies all read the exchange first, and end on an error ...
Fetch(g) ==
  /\ running[g] # Idle /\ running[g].seen = <<>>
  /\ running' = [running EXCEPT ![g].seen =
                   <<IF running[g].kind = "servicePolicies" THEN exSvc ELSE exPolicies>>]
  /\ UNCHANGED <<exchangeSide, served, entries, files, watched, pm, commands, making, deals>>

\* ... except that an error about the organization is taken for an
\* organization without policies and patterns ...
FetchFails(g) ==
  /\ running[g] # Idle /\ running[g].seen = <<>>
  /\ edits < MaxEdits /\ edits' = edits + 1
  /\ \/ running' = [running EXCEPT ![g] = Idle]
     \/ /\ running[g].kind # "servicePolicies"
        /\ running' = [running EXCEPT ![g].seen = <<[n \in Names |-> 0]>>]
  /\ UNCHANGED <<exPolicies, exServed, exSvc, served, entries, files, watched, pm, commands, making, deals>>

\* ... and then apply what they read.
generatePolicyFromBusinessPols(g) ==
  /\ running[g].kind = "policies" /\ running[g].seen # <<>>
  /\ UpdatePolicies(running[g].seen[1])
  /\ running' = [running EXCEPT ![g] = Idle]
  /\ UNCHANGED <<exchangeSide, served, files, watched, making, deals>>

UpdatePatternPolicies(defined) ==
  [p \in Patterns |-> IF p \in served THEN defined[p] ELSE 0]

generatePolicyFromPatterns(g) ==
  /\ running[g].kind = "patterns" /\ running[g].seen # <<>>
  /\ files' = UpdatePatternPolicies(running[g].seen[1])
  /\ running' = [running EXCEPT ![g] = Idle]
  /\ UNCHANGED <<exchangeSide, served, entries, watched, pm, commands, making, deals>>

DeletePolicyFilesForOrg == [p \in Patterns |-> 0]

\* What the watcher's Contents miss of the policy directory.
NewFiles == {p \in Patterns : files[p] # 0 /\ watched[p] = 0}
ChangedFiles == {p \in Patterns : files[p] # 0 /\ watched[p] \notin {0, files[p]}}
DeletedFiles == {p \in Patterns : files[p] = 0 /\ watched[p] # 0}

\* One pass of PolicyFileChangeWatcher: new files first, then those it knows.
PolicyFileChangeWatcher ==
  /\ watched # files
  /\ watched' = files
  /\ \E s \in SetToSeqs({Cmd("policyChanged", p, files[p]) : p \in NewFiles}),
        t \in SetToSeqs({Cmd("policyChanged", p, files[p]) : p \in ChangedFiles}
                          \cup {Cmd("policyDeleted", p, 0) : p \in DeletedFiles}) :
       commands' = commands \o s \o t
  /\ UNCHANGED <<exchangeSide, served, entries, files, pm, running, making, deals>>

-----------------------------------------------------------------------------
(* Service policies: an entry tracks the policy of its service from the
   time an agreement is made for it. *)
AddServicePolicy(p, v, queue) ==
  \/ entries[p] = NoEntry /\ UNCHANGED entries /\ commands' = queue
  \/ LET told == {q \in Policies : entries[q].svc \notin {-1, v}}
         event(q) == Cmd("svcPolicyChanged", q, v) IN
     /\ entries[p] # NoEntry
     /\ entries' = [q \in Policies |-> IF q = p \/ entries[q].svc # -1
                                       THEN [entries[q] EXCEPT !.svc = v] ELSE entries[q]]
     /\ \E s \in SetToSeqs({event(q) : q \in told \ {p}}) :
          commands' = queue \o (IF p \in told THEN <<event(p)>> ELSE <<>>) \o s

\* The event of every entry names the entry p the removal started from.
RemoveServicePolicy(p) ==
  LET told == {q \in Policies : entries[q] # NoEntry /\ entries[q].svc > 0} IN
  /\ entries' = [q \in Policies |-> IF q \in told THEN [entries[q] EXCEPT !.svc = -1] ELSE entries[q]]
  /\ commands' = commands \o [i \in 1..Cardinality(told) |-> Cmd("svcPolicyDeleted", p, 0)]

updateServicePolicies(g) ==
  /\ running[g].kind = "servicePolicies" /\ running[g].seen # <<>>
  /\ LET v == running[g].seen[1]
         users == {p \in Policies : entries[p].svc # -1}
     IN  \/ users = {} /\ UNCHANGED <<entries, commands>>
         \/ \E p \in users : \/ v = 0 /\ RemoveServicePolicy(p)
                             \/ v # 0 /\ AddServicePolicy(p, v, commands)
  /\ running' = [running EXCEPT ![g] = Idle]
  /\ UNCHANGED <<exchangeSide, served, files, watched, pm, making, deals>>

-----------------------------------------------------------------------------
(* CommandHandler of the AgreementBotWorker. *)
Next1 == Head(commands)
Is(kind) == commands # <<>> /\ Next1.kind = kind
Taken == commands' = Tail(commands)

ChangeCommand ==
  /\ \/ Is("policyChange") /\ Start("policies")
     \/ Is("patternChange") /\ Start("patterns")
     \/ Is("servicePolicyChange") /\ Start("servicePolicies")
  /\ Taken
  /\ UNCHANGED <<exchangeSide, served, entries, files, watched, pm, making, deals>>

\* What the agbot serves of the names S; nothing when it cannot be read.
ReadServed(S, now) ==
  \/ now = exServed \cap S /\ UNCHANGED edits
  \/ now = {} /\ edits < MaxEdits /\ edits' = edits + 1

\* SetCurrentBusinessPolicies: an org that is not served any more loses its
\* policies at once.
ServedPolicyCommand ==
  /\ Is("servedPolicy") /\ Start("policies")
  /\ \E now \in {exServed \cap Policies, {}} :
       /\ ReadServed(Policies, now)
       /\ served' = (served \ Policies) \cup now
       /\ \/ now = {} /\ deleteRemainingPolicies(Tail(commands))
          \/ now # {} /\ Taken /\ UNCHANGED <<entries, pm>>
  /\ UNCHANGED <<exPolicies, exServed, exSvc, files, watched, making, deals>>

\* SetCurrentPatterns, in the same way.
ServedPatternCommand ==
  /\ Is("servedPattern") /\ Start("patterns")
  /\ \E now \in {exServed \cap Patterns, {}} :
       /\ ReadServed(Patterns, now)
       /\ served' = (served \ Patterns) \cup now
       /\ files' = IF now = {} THEN DeletePolicyFilesForOrg ELSE files
  /\ Taken
  /\ UNCHANGED <<exPolicies, exServed, exSvc, entries, watched, pm, making, deals>>

\* The agreement n is compared with the exchange's policies: it is cancelled,
\* kept, or kept with new terms.  A policy that cannot be read cancels it.
ReevaluateAgreement(n) ==
  \E deal \in {NoAgreement} \cup IF exPolicies[n] \in BadVersions \cup {0} THEN {}
                                 ELSE {deals[n], [deals[n] EXCEPT !.ver = exPolicies[n], !.svc = exSvc]} :
    deals' = [deals EXCEPT ![n] = deal]

\* HandlePolicyChanged re-evaluates the agreements of the policy; one from a
\* pattern is cancelled.
PolicyChangedCommand ==
  /\ Is("policyChanged")
  /\ pm' = [pm EXCEPT ![Next1.name] = Next1.ver]
  /\ LET n == Next1.name
         changed == deals[n] # NoAgreement /\ deals[n].ver # Next1.ver IN
     \/ ~changed /\ UNCHANGED deals
     \/ changed /\ n \in Patterns /\ deals' = [deals EXCEPT ![n] = NoAgreement]
     \/ changed /\ n \in Policies /\ ReevaluateAgreement(n)
  /\ Taken
  /\ UNCHANGED <<exchangeSide, served, entries, files, watched, running, making>>

PolicyDeletedCommand ==
  /\ Is("policyDeleted")
  /\ pm' = [pm EXCEPT ![Next1.name] = 0]
  /\ deals' = [n \in Names |-> IF pm'[n] = 0 THEN NoAgreement ELSE deals[n]]
  /\ making' = [n \in Names |-> [making[n] EXCEPT !.late = @ \/ (making[n].ver # 0 /\ pm'[n] = 0)]]
  /\ Taken
  /\ UNCHANGED <<exchangeSide, served, entries, files, watched, running>>

CacheServicePolicyCommand ==
  /\ Is("cacheSvcPolicy")
  /\ AddServicePolicy(Next1.name, Next1.ver, Tail(commands))
  /\ UNCHANGED <<exchangeSide, served, files, watched, pm, running, making, deals>>

ServicePolicyChangedCommand ==
  /\ Is("svcPolicyChanged")
  /\ \/ deals[Next1.name] = NoAgreement /\ UNCHANGED deals
     \/ deals[Next1.name] # NoAgreement /\ ReevaluateAgreement(Next1.name)
  /\ Taken
  /\ UNCHANGED <<exchangeSide, served, entries, files, watched, pm, running, making>>

ServicePolicyDeletedCommand ==
  /\ Is("svcPolicyDeleted")
  /\ deals' = [deals EXCEPT ![Next1.name] = NoAgreement]
  /\ Taken
  /\ UNCHANGED <<exchangeSide, served, entries, files, watched, pm, running, making>>

\* An agreement worker: the policy comes from the policy manager, the service
\* policy from the entry or, when the entry has none, from the exchange, and
\* then the manager is asked to track it.  The agreement is recorded later.
InitiateNewAgreement(n) ==
  /\ deals[n] = NoAgreement /\ making[n] = NoAgreement /\ pm[n] # 0
  /\ IF n \in Patterns
     THEN /\ making' = [making EXCEPT ![n] = [ver |-> pm[n], svc |-> -1, late |-> FALSE]]
          /\ UNCHANGED commands
     ELSE /\ entries[n] # NoEntry
          /\ LET known == entries[n].svc # -1
                 svc == IF known THEN entries[n].svc ELSE exSvc IN
             /\ making' = [making EXCEPT ![n] = [ver |-> pm[n], svc |-> svc, late |-> FALSE]]
             /\ commands' = IF known THEN commands
                            ELSE Append(commands, Cmd("cacheSvcPolicy", n, svc))
  /\ UNCHANGED <<exchangeSide, served, entries, files, watched, pm, running, deals>>

\* ... unless the attempt is given up.
PersistAgreement(n) ==
  /\ making[n] # NoAgreement
  /\ \/ deals' = [deals EXCEPT ![n] = making[n]] /\ UNCHANGED edits
     \/ edits < MaxEdits /\ edits' = edits + 1 /\ UNCHANGED deals
  /\ making' = [making EXCEPT ![n] = NoAgreement]
  /\ UNCHANGED <<exPolicies, exServed, exSvc, served, entries, files, watched, pm, commands, running>>

PoliciesNext ==
  \/ \E n \in Names, v \in Versions : EditPolicy(n, v)
  \/ \E n \in Names : EditServedPolicies(n) \/ InitiateNewAgreement(n) \/ PersistAgreement(n)
  \/ \E v \in 0..MaxSvcVersion : EditServicePolicy(v)
  \/ \E g \in Goroutines : \/ Fetch(g) \/ FetchFails(g) \/ generatePolicyFromBusinessPols(g)
                           \/ generatePolicyFromPatterns(g) \/ updateServicePolicies(g)
  \/ PolicyFileChangeWatcher
  \/ ChangeCommand \/ ServedPolicyCommand \/ ServedPatternCommand
  \/ PolicyChangedCommand \/ PolicyDeletedCommand
  \/ CacheServicePolicyCommand \/ ServicePolicyChangedCommand \/ ServicePolicyDeletedCommand

PoliciesSpec == PoliciesInit /\ [][PoliciesNext]_policyVars

-----------------------------------------------------------------------------
SvcVersions == 0..MaxSvcVersion
Commands ==
  [kind : {"policyChange", "patternChange", "servedPolicy", "servedPattern", "servicePolicyChange"},
   name : Names \cup {"svc"}, ver : {0}]
  \cup [kind : {"policyChanged"}, name : Names, ver : Versions \ {0}]
  \cup [kind : {"policyDeleted"}, name : Names, ver : {0}]
  \cup [kind : {"cacheSvcPolicy", "svcPolicyChanged", "svcPolicyDeleted"}, name : Policies, ver : SvcVersions]
GoroutineStates ==
  [kind : {"idle", "policies", "patterns", "servicePolicies"}, seen : {<<>>}]
  \cup [kind : {"policies", "patterns"}, seen : {<<d>> : d \in [Names -> Versions]}]
  \cup [kind : {"servicePolicies"}, seen : {<<v>> : v \in SvcVersions}]

PoliciesTypeOK ==
  /\ exPolicies \in [Names -> Versions] /\ exServed \subseteq Names
  /\ served \subseteq Names /\ exSvc \in SvcVersions
  /\ entries \in [Policies -> [hash : Versions, ver : Versions, svc : SvcVersions \cup {-1}]]
  /\ files \in [Patterns -> Versions] /\ watched \in [Patterns -> Versions]
  /\ pm \in [Names -> Versions]
  /\ commands \in Seq(Commands) /\ running \in [Goroutines -> GoroutineStates]
  /\ {making, deals} \subseteq [Names -> [ver : Versions, svc : SvcVersions \cup {-1}, late : BOOLEAN]]

Settled == commands = <<>> /\ watched = files

(* Once the events are handled, the policy manager the agreement workers read
   holds exactly the version the business policy manager and the pattern files
   hold: the deletions (some announced twice), the additions made directly by
   UpdatePolicies and the events handled later cancel out
   (businesspol_manager.go updateBusinessPolicy, deleteBusinessPolicy). *)
PolicyViewSettles ==
  Settled => /\ \A p \in Policies : pm[p] = entries[p].ver
             /\ \A p \in Patterns : pm[p] = files[p]

(* An agreement outlives its policy only if it was still being made, and so not
   yet recorded, when the deletion was handled: HandlePolicyDeleted cancels
   every recorded agreement whose policy is gone, whichever deletion it handles
   (consumer_protocol_handler.go:570). *)
DealOutlivesPolicyOnlyIfLate ==
  Settled => \A n \in Names : deals[n] # NoAgreement /\ pm[n] = 0 => deals[n].late

(* "Delete the given service policy in all the business policy entries. Send a
   message for each business policy so that the event handler can re-evaluating
   the agreements" (businesspol_manager.go:831). *)
EveryEntryIsAnnounced ==
  [][\A p \in Policies :
       (entries[p].svc > 0 /\ entries'[p].svc = -1 /\ entries'[p].hash = entries[p].hash)
          => \E i \in DOMAIN commands' : commands'[i].kind = "svcPolicyDeleted" /\ commands'[i].name = p]_policyVars

(* "Policies are created, updated and deleted based on this metadata"
   (agreementbot.go:1389): when nothing is left to do, the manager has the
   exchange's version of every served policy. *)
ManagerFollowsExchange ==
  (Settled /\ \A g \in Goroutines : running[g] = Idle)
     => \A p \in Policies : p \in served => entries[p].hash = exPolicies[p]
=============================================================================
