---------------------------- MODULE SecretUpdates ----------------------------
(***************************************************************************)
(* How a changed secret reaches running agreements.  The agbot keeps a row *)
(* per deployment (policy or pattern) and secret with the time up to which *)
(* it has looked (SecretUpdateManager and the secrets tables).  A worker   *)
(* polls the vault for every managed secret and announces the changed      *)
(* ones; the governance worker takes one announcement per run, sends the   *)
(* new values to the agreements and moves the rows forward.  Every         *)
(* deployment has at most one agreement, with the same node.               *)
(***************************************************************************)
EXTENDS SecretsVault, FiniteSetsExt

CONSTANTS SecretPolicies, SecretPatterns,   \* the deployments
          Bound,          \* deployment -> the paths its secret binding names
          NodeLevel,      \* deployments with EnableNodeLevelSecrets
          SecretNode,     \* the node of the agreements
          MaxAnnounced    \* bound on the announcements waiting

Deploys == SecretPolicies \cup SecretPatterns

ASSUME SecretsAssumption ==
  /\ \A p \in SecretPaths : p \in Seq(STRING) /\ p # <<>>
  /\ Bound \in [Deploys -> SUBSET SecretPaths]
  /\ MaxVaultWrites \in Nat /\ MaxOutages \in Nat /\ MaxAnnounced \in Nat

VARIABLES inForce,    \* deployments in the exchange
          secretRows, \* deployment -> path -> row of the secrets table
          poll,       \* the poll that is under way
          announced,  \* PendingUpdates: the announcements not yet governed
          governing,  \* the governance run that has still to move its rows
          drafts,     \* deployment -> the secrets read for an agreement in the making
          contracts,  \* the agreement of a deployment
          updates,    \* deployment -> update messages to its agreement, oldest first
          passedBy    \* history: deployment -> path -> how many writes there had been
                      \* when one may last have been passed by

trackVars == <<inForce, secretRows, poll, announced, governing, drafts, contracts, updates, passedBy>>
secretVars == <<vaultVars, trackVars>>

NoRow == [last |-> -1, there |-> FALSE]
NoPoll == [todo |-> {}, found |-> {}, busy |-> FALSE]
NoRun == [updates |-> {}, gone |-> {}]
NoContract == [made |-> FALSE, marker |-> 0, ack |-> 0, known |-> <<>>, managed |-> FALSE]

SecretsInit ==
  /\ VaultInit
  /\ inForce = {} /\ secretRows = [d \in Deploys |-> [p \in SecretPaths |-> NoRow]]
  /\ poll = NoPoll /\ announced = <<>> /\ governing = NoRun
  /\ drafts = [d \in Deploys |-> <<>>]
  /\ contracts = [d \in Deploys |-> NoContract] /\ updates = [d \in Deploys |-> <<>>]
  /\ passedBy = [d \in Deploys |-> [p \in SecretPaths |-> 0]]

-----------------------------------------------------------------------------
(* ParseVaultSecretName: the user, the node and the short name in a path. *)
HasUser(p) == p[1] = "user" /\ Len(p) >= 3
HasNode(p) == (HasUser(p) /\ Len(p) >= 5 /\ p[3] = "node") \/ (p[1] = "node" /\ Len(p) >= 3)
Short(p) ==
  SubSeq(p, IF HasUser(p) /\ HasNode(p) THEN 5 ELSE IF HasUser(p) \/ HasNode(p) THEN 3 ELSE 1, Len(p))

\* The secret of the user or organization that a path stands for, and the node's own
\* secret of the same name.
Base(p) == IF HasUser(p) THEN <<"user", p[2]>> \o Short(p) ELSE Short(p)
NodeForm(p) ==
  IF HasUser(p) THEN <<"user", p[2], "node", SecretNode>> \o Short(p)
  ELSE <<"node", SecretNode>> \o Short(p)

-----------------------------------------------------------------------------
(* The rows. *)

\* Mutant: a row that is already there is overwritten.
AddManagedAfresh(row, p) ==
  [last |-> IF GetSecretMetadata(p) = 0 THEN second ELSE GetSecretMetadata(p),
   there |-> GetSecretMetadata(p) # 0]

\* AddManagedPolicySecret: ON CONFLICT DO NOTHING.  A secret that cannot be read is
\* added as missing, with the time of now.
AddManaged(row, p) ==
  IF row # NoRow THEN row
  ELSE [last |-> IF GetSecretMetadata(p) = 0 THEN second ELSE GetSecretMetadata(p),
        there |-> GetSecretMetadata(p) # 0]

\* UpdatePolicies and UpdatePatterns for the deployments of one kind: the rows of
\* deployments that are gone are deleted and those of the others added.  Nothing
\* happens before the login.  Rows of node secrets are left alone.
UpdateRows(kind, served) ==
  [d \in Deploys |->
     IF d \notin kind \/ ~IsReady THEN secretRows[d]
     ELSE [p \in SecretPaths |->
             IF d \notin served THEN NoRow
             ELSE IF p \in Bound[d] THEN AddManaged(secretRows[d][p], p)
             ELSE IF HasNode(p) THEN secretRows[d][p] ELSE NoRow]]

KindOf(d) == IF d \in SecretPolicies THEN SecretPolicies ELSE SecretPatterns

DeploymentAdded(d) ==
  /\ d \notin inForce /\ writes < MaxVaultWrites
  /\ inForce' = inForce \cup {d} /\ secretRows' = UpdateRows(KindOf(d), inForce \cup {d})
  /\ VaultRests /\ UNCHANGED <<poll, announced, governing, drafts, contracts, updates, passedBy>>
\* The agreement goes with its deployment, made or in the making, and messages to an
\* agreement that is gone change nothing.
DeploymentRemoved(d) ==
  /\ d \in inForce
  /\ inForce' = inForce \ {d} /\ secretRows' = UpdateRows(KindOf(d), inForce \ {d})
  /\ contracts' = [contracts EXCEPT ![d] = NoContract] /\ drafts' = [drafts EXCEPT ![d] = <<>>]
  /\ updates' = [updates EXCEPT ![d] = <<>>]
  /\ VaultRests /\ UNCHANGED <<poll, announced, governing, passedBy>>
\* Another deployment of the kind changed, or this one without its bindings.
DeploymentsChanged(kind) ==
  /\ secretRows' = UpdateRows(kind, inForce)
  /\ VaultRests /\ UNCHANGED <<inForce, poll, announced, governing, drafts, contracts, updates, passedBy>>

\* UpdateNodePolicySecrets and UpdateNodePatternSecrets, run by every governance
\* run: a row for the node's own secret of every agreement.  The others are deleted
\* for a policy; for a pattern the name is parsed with its organization and so is
\* never taken for a node's.
UpdateNodeSecrets ==
  [d \in Deploys |-> [p \in SecretPaths |->
     IF d \notin inForce \/ ~HasNode(p) \/ p \in Bound[d] THEN secretRows[d][p]
     ELSE IF d \in NodeLevel /\ contracts[d].made /\ \E b \in Bound[d] : NodeForm(b) = p
          THEN AddManaged(secretRows[d][p], p)
          ELSE IF d \in SecretPolicies THEN NoRow ELSE secretRows[d][p]]]

-----------------------------------------------------------------------------
(* CheckForUpdates. *)
Managed == {p \in SecretPaths : \E d \in Deploys : secretRows[d][p] # NoRow}

PollStart ==
  /\ ~poll.busy /\ IsReady /\ Managed # {} /\ Len(announced) < MaxAnnounced
  /\ poll' = [todo |-> Managed, found |-> {}, busy |-> TRUE]
  /\ VaultRests /\ UNCHANGED <<inForce, secretRows, announced, governing, drafts, contracts, updates, passedBy>>

\* GetPoliciesWithUpdatedSecrets and GetPatternsWithUpdatedSecrets: the deployments
\* whose row is older than the secret, or that still think a missing one is there.
RowsBehind(ds, rows, p, t) ==
  {d \in ds : rows[d][p] # NoRow /\ (rows[d][p].last < t \/ (t = 0 /\ rows[d][p].there))}

\* SetSecretExists: the rows under the short name of the secret, whatever its level.
SetSecretExists(rows, p) ==
  [d \in Deploys |-> [q \in SecretPaths |->
     IF q = Short(p) /\ rows[d][q].there THEN [last |-> second, there |-> FALSE] ELSE rows[d][q]]]

Announcement(p, t, ds) ==
  IF ds = {} THEN {} ELSE {[path |-> p, time |-> IF t = 0 THEN second ELSE t, deps |-> ds]}

\* The deployments and secrets that a poll that cannot read p may lose: rows of
\* another secret are marked, those of a pattern are marked before it is looked up,
\* and the announcement for one deployment later moves the row of another.
MayLose(d, q, p) ==
  \/ q = Short(p) /\ (q # p \/ d \in SecretPatterns)
  \/ q = p /\ \E e \in Deploys : e # d /\ p \in Bound[e]

\* A secret is taken for removed when its metadata cannot be read, whatever the
\* error.  The patterns are looked up after the rows were marked.
PollSecret(p) ==
  /\ poll.busy /\ p \in poll.todo
  /\ LET t == GetSecretMetadata(p)
         marked == IF t = 0 THEN SetSecretExists(secretRows, p) ELSE secretRows
     IN  /\ poll' = [poll EXCEPT !.todo = @ \ {p},
                       !.found = @ \cup Announcement(p, t, RowsBehind(SecretPolicies, secretRows, p, t))
                                   \cup Announcement(p, t, RowsBehind(SecretPatterns, marked, p, t))]
         /\ secretRows' = marked
         /\ passedBy' = [d \in Deploys |-> [q \in SecretPaths |->
                             IF t = 0 /\ MayLose(d, q, p) THEN writes ELSE passedBy[d][q]]]
  /\ VaultRests /\ UNCHANGED <<inForce, announced, governing, drafts, contracts, updates>>

\* secretsUpdate and the handler of UPDATED_SECRETS: the announcement is queued.
PollEnd ==
  /\ poll.busy /\ poll.todo = {}
  /\ poll' = NoPoll
  /\ announced' = IF poll.found = {} THEN announced ELSE Append(announced, poll.found)
  /\ VaultRests /\ UNCHANGED <<inForce, secretRows, governing, drafts, contracts, updates, passedBy>>

-----------------------------------------------------------------------------
(* The agreements. *)

\* The value of a secret for an agreement: the node's own if the deployment allows it
\* and there is one, else the organization's or user's.
Value(d, p) ==
  IF d \in NodeLevel /\ GetSecretDetails(NodeForm(p)) # 0
  THEN GetSecretDetails(NodeForm(p)) ELSE GetSecretDetails(Base(p))

\* ValidateAndExtractSecrets reads the details of every bound secret, one call after
\* the other; a secret that cannot be read ends the attempt, as does any error
\* before the agreement is recorded.
ExtractSecret(d, b) ==
  /\ d \in inForce /\ ~contracts[d].made /\ b \in Bound[d] \ DOMAIN drafts[d]
  /\ Value(d, b) # 0
  /\ drafts' = [drafts EXCEPT ![d] = [c \in DOMAIN @ \cup {b} |-> IF c = b THEN Value(d, b) ELSE @[c]]]
  /\ VaultRests /\ UNCHANGED <<inForce, secretRows, poll, announced, governing, contracts, updates, passedBy>>
DraftFails(d) ==
  /\ DOMAIN drafts[d] # {}
  /\ drafts' = [drafts EXCEPT ![d] = <<>>]
  /\ VaultRests /\ UNCHANGED <<inForce, secretRows, poll, announced, governing, contracts, updates, passedBy>>

\* The announcements not yet governed, those of the poll under way included.
Awaiting == poll.found \cup UNION {announced[i] : i \in DOMAIN announced}
\* Nobody has looked at the secret since it was written.
Unseen(d, b) ==
  /\ secretRows[d][b].last < wroteAt[b]
  /\ \A u \in Awaiting \cup governing.updates : u.path = b => u.time < wroteAt[b]
\* An announcement will still bring the present value.
Announced(d, b) == \E u \in Awaiting : u.path = b /\ d \in u.deps /\ u.time >= wroteAt[b]

\* InitiateAgreement sends the proposal with these details, and PersistAgreement makes
\* the record that governance finds.  A secret written since it was read is passed by
\* if governance has already dealt with it.
PersistDraft(d) ==
  /\ d \in inForce /\ ~contracts[d].made /\ DOMAIN drafts[d] = Bound[d]
  /\ contracts' = [contracts EXCEPT ![d] =
       [made |-> TRUE, marker |-> 0, ack |-> 0, known |-> drafts[d],
        managed |-> \A b \in Bound[d] : secretRows[d][b] # NoRow]]
  /\ drafts' = [drafts EXCEPT ![d] = <<>>]
  /\ passedBy' = [passedBy EXCEPT ![d] = [p \in SecretPaths |->
       IF p \in Bound[d] /\ drafts[d][p] # vault[p] /\ ~Announced(d, p) /\ ~Unseen(d, p)
       THEN writes ELSE @[p]]]
  /\ VaultRests /\ UNCHANGED <<inForce, secretRows, poll, announced, governing, updates>>

\* GetUpdatedSecretsForPolicy and GetUpdatedSecretsForPattern: the secrets of an
\* announcement that are newer than what the agreement was last sent.
GetUpdatedSecrets(d, us) == {u \in us : d \in u.deps /\ u.time > contracts[d].marker}
Newest(us) == Max({0} \cup {u.time : u \in us})

\* The binding an update message carries.  An updated secret is taken for a bound one
\* if it has its full name, its name without the node or its short name; the first
\* that fits is read.  A secret whose details cannot be read is left out.
StandsFor(u, b) == b \in {u.path, Base(u.path), Short(u.path)}
BindingUpdate(d, us) ==
  LET first(b) == (CHOOSE u \in us : StandsFor(u, b)).path
  IN  [b \in {c \in Bound[d] : (\E u \in us : StandsFor(u, c)) /\ Value(d, first(c)) # 0} |->
         Value(d, first(b))]

\* An announced secret whose own details an agreement needed and could not get.
Unread(d, u) ==
  /\ \E b \in Bound[d] : StandsFor(u, b)
  /\ IF HasNode(u.path) THEN d \in NodeLevel /\ GetSecretDetails(NodeForm(u.path)) = 0
     ELSE Value(d, u.path) = 0

\* SetSecretUpdate: the rows of the announced secrets, of every deployment.
SetSecretUpdate(rows, run) ==
  [d \in Deploys |-> [p \in SecretPaths |->
     IF rows[d][p] # NoRow /\ \E u \in run.updates : u.path = p
     THEN [last |-> (CHOOSE u \in run.updates : u.path = p).time, there |-> p \notin run.gone]
     ELSE rows[d][p]]]

\* governAgreements takes one announcement, sends every agreement it finds and that it
\* concerns an update, and notes the newest time in the agreement whether or not the
\* message could be sent.  The present value is passed by where the agreement was
\* already sent something with that time or a later one, the message is lost, or the
\* details cannot be read.  Of several agreements that read one secret the last one
\* decides whether it is there.
GovernAgreements ==
  LET us == IF announced = <<>> THEN {} ELSE Head(announced)
      told == {d \in Deploys : contracts[d].made /\ GetUpdatedSecrets(d, us) # {}}
      message(d) == BindingUpdate(d, GetUpdatedSecrets(d, us))
      readers(u) == {d \in told : u \in GetUpdatedSecrets(d, us)}
  IN  /\ governing = NoRun
      /\ announced' = IF announced = <<>> THEN announced ELSE Tail(announced)
      /\ contracts' = [d \in Deploys |->
           IF d \in told THEN [contracts[d] EXCEPT !.marker = Newest(GetUpdatedSecrets(d, us))]
           ELSE contracts[d]]
      /\ \E lost \in SUBSET told :
           /\ lost # {} => outages < MaxOutages
           /\ outages' = IF lost # {} THEN outages + 1 ELSE outages
           /\ updates' = [d \in Deploys |->
                IF d \in told \ lost THEN Append(updates[d], message(d)) ELSE updates[d]]
           /\ passedBy' = [d \in Deploys |-> [p \in SecretPaths |->
                IF /\ contracts[d].made
                   /\ \E u \in us : u.path = p /\ d \in u.deps /\ u.time >= wroteAt[p]
                   /\ d \in told \ lost => p \notin DOMAIN message(d)
                THEN writes ELSE passedBy[d][p]]]
      /\ \E gone \in SUBSET {u.path : u \in {v \in us : \E d \in readers(v) : Unread(d, v)}} :
           /\ \A u \in us : readers(u) # {} /\ (\A d \in readers(u) : Unread(d, u)) => u.path \in gone
           /\ governing' = [updates |-> us, gone |-> gone]
      /\ secretRows' = UpdateNodeSecrets
      /\ answer' = 0
      /\ UNCHANGED <<vault, wroteAt, writes, second, vaultUp, agbotToken, inForce, poll, drafts>>

\* After all agreements the rows are moved.
RowsMoved ==
  /\ governing # NoRun /\ governing' = NoRun
  /\ secretRows' = SetSecretUpdate(secretRows, governing)
  /\ VaultRests /\ UNCHANGED <<inForce, poll, announced, drafts, contracts, updates, passedBy>>

\* The node takes the oldest message over; the handler of its reply acknowledges
\* whatever was sent last.
NodeTakesUpdate(d) ==
  /\ updates[d] # <<>> /\ updates' = [updates EXCEPT ![d] = Tail(@)]
  /\ LET new == Head(updates[d]) IN
     contracts' = [contracts EXCEPT
       ![d].known = [b \in Bound[d] |-> IF b \in DOMAIN new THEN new[b] ELSE @[b]],
       ![d].ack = contracts[d].marker]
  /\ VaultRests /\ UNCHANGED <<inForce, secretRows, poll, announced, governing, drafts, passedBy>>

\* A secret written in a second that the agbot has already seen of it is passed by.
VaultStep ==
  /\ VaultNext
  /\ passedBy' = [d \in Deploys |-> [p \in SecretPaths |->
       IF vault'[p] \notin {0, vault[p]}
            /\ (\/ secretRows[d][p].last >= wroteAt'[p]
                \/ \E u \in Awaiting \cup governing.updates : u.path = p /\ u.time >= wroteAt'[p])
       THEN vault'[p] ELSE passedBy[d][p]]]
  /\ UNCHANGED <<inForce, secretRows, poll, announced, governing, drafts, contracts, updates>>

SecretsNext ==
  \/ VaultStep
  \/ \E d \in Deploys :
       \/ DeploymentAdded(d) \/ DeploymentRemoved(d)
       \/ (\E b \in Bound[d] : ExtractSecret(d, b)) \/ DraftFails(d) \/ PersistDraft(d)
       \/ NodeTakesUpdate(d)
  \/ \E kind \in {SecretPolicies, SecretPatterns} : DeploymentsChanged(kind)
  \/ PollStart \/ (\E p \in SecretPaths : PollSecret(p)) \/ PollEnd
  \/ GovernAgreements \/ RowsMoved

SecretsSpec == SecretsInit /\ [][SecretsNext]_secretVars

-----------------------------------------------------------------------------
SecretsTypeOK ==
  /\ vault \in [SecretPaths -> 0 .. MaxVaultWrites] /\ writes \in 0 .. MaxVaultWrites
  /\ agbotToken \in {"none", "valid", "expired"} /\ answer \in {0, 200, 201, 204, 401, 403, 404, 503}
  /\ inForce \subseteq Deploys /\ Len(announced) <= MaxAnnounced + 1
  /\ \A d \in Deploys : DOMAIN drafts[d] \subseteq Bound[d] /\ contracts[d].marker \in 0 .. second

\* The agreement of d uses the bound secret b, which is there: the deployment is
\* managed, b is of the organization or a user, no other secret of the deployment
\* may be taken for it, and its present value was not passed by.
InUse(d, b) ==
  /\ contracts[d].made /\ contracts[d].managed /\ d \notin NodeLevel
  /\ b \in Bound[d] /\ ~HasNode(b)
  /\ \A c \in Bound[d] : b \in {c, Base(c), Short(c)} => c = b
  /\ vault[b] # 0 /\ vault[b] > passedBy[d][b]

\* The agreement has the value of b, or it is on its way, or an announcement will
\* bring it.
TakenCareOf(d, b) ==
  \/ contracts[d].known[b] = vault[b]
  \/ \E i \in DOMAIN updates[d] : b \in DOMAIN updates[d][i] /\ updates[d][i][b] = vault[b]
  \/ Announced(d, b)

(* A secret written while its deployment is managed is not forgotten: the agreement
   has the value, or it is on its way, or an announcement or a later poll will bring
   it, however polls, governance, deployments and agreements in the making
   interleave.  The code passes a value by in six ways only, each of them recorded
   where it happens: a poll that cannot read the secret (secret_updater.go:136), an
   agreement recorded after governance dealt with a secret that it had read before
   (agreementworker.go:815), a second write within one second (secrets.go:89), an
   agreement already sent something as new or newer (secret_events.go), a message that
   is lost and details that cannot be read, which both count as sent
   (governance.go:281). *)
NoUpdateForgotten ==
  \A d \in Deploys, b \in SecretPaths :
    InUse(d, b) => TakenCareOf(d, b) \/ secretRows[d][b].last < wroteAt[b]
=============================================================================
