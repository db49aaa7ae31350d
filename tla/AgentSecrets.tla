---------------------------- MODULE AgentSecrets ----------------------------
(***************************************************************************)
(* The secrets of the services on a node.  An agreement's secrets are kept *)
(* by agreement until a service instance starts, then recorded by instance *)
(* together with the agreements that use them, and written to files the    *)
(* containers see.  Update messages change record and file; the service    *)
(* asks the agent's API which secrets changed, reads them and confirms.    *)
(***************************************************************************)
EXTENDS Integers, Sequences, FiniteSets, Functions

CONSTANTS SecretDeals,       \* agreements
          Instances,         \* service instances, shared by agreements
          Provides,          \* agreement -> instance -> the names of its secrets
          MaxSecretChanges,  \* bound on the updates sent
          MaxAgentStops      \* bound on the restarts of the agent

VARIABLES dealState,   \* "none", "made", "ended" (secrets not yet removed), "gone"
          agSecrets,   \* bucket agreement_secrets: agreement -> instance -> name -> value
          secretRec,   \* bucket secrets: instance -> name -> record
          secretFile,  \* instance -> name -> the value in the file
          phase,       \* instance -> "new", "planned" (in the database), "up" (containers), "over"
          planner,     \* instance -> the agreement that started it
          inbox,       \* update messages not yet deleted
          writing,     \* the update under way: instances still to do, and the one between record and file
          removing,    \* the clean-up under way: agreement, copy of the records, secrets still to do, and
                       \* the instances updated since the copy was read
          strayed,     \* history: instances a failed update or removal, or a copy saved late, left astray
          offered,     \* SecretsStatus: instance -> name -> confirmed update time
          readBy,      \* instance -> name -> the value the service read last
          secretValue, \* the newest value of every secret; also the clock
          agentStops

secretStore == <<agSecrets, secretRec, secretFile>>
agentSecretVars == <<dealState, secretStore, phase, planner, inbox, writing, removing, strayed, offered,
                     readBy, secretValue, agentStops>>

SecretNames == UNION {Provides[a][i] : a \in SecretDeals, i \in Instances}
NoSecrets == <<>>
NotWriting == [on |-> FALSE]
NotRemoving == [on |-> FALSE]

AgentSecretsInit ==
  /\ dealState = [a \in SecretDeals |-> "none"]
  /\ agSecrets = [a \in SecretDeals |-> NoSecrets]
  /\ secretRec = [i \in Instances |-> NoSecrets] /\ secretFile = [i \in Instances |-> NoSecrets]
  /\ phase = [i \in Instances |-> "new"] /\ planner = [i \in Instances |-> CHOOSE a \in SecretDeals : TRUE]
  /\ inbox = <<>> /\ writing = NotWriting /\ removing = NotRemoving /\ strayed = {}
  /\ offered = [i \in Instances |-> NoSecrets] /\ readBy = [i \in Instances |-> NoSecrets]
  /\ secretValue = 1 /\ agentStops = 0

\* A function with one more, or one changed, name.
With(f, n, v) == [x \in DOMAIN f \cup {n} |-> IF x = n THEN v ELSE f[x]]

-----------------------------------------------------------------------------
(* Agreements and instances. *)

\* processServiceSecrets saves what the proposal carries (SaveAgreementSecrets).
AcceptProposal(a) ==
  /\ dealState[a] = "none" /\ dealState' = [dealState EXCEPT ![a] = "made"]
  /\ agSecrets' = [agSecrets EXCEPT ![a] =
       [i \in Instances |-> [n \in Provides[a][i] |-> secretValue]]]
  /\ UNCHANGED <<secretRec, secretFile, phase, planner, inbox, writing, removing, strayed, offered, readBy, secretValue, agentStops>>

\* SaveSecret: a recorded secret keeps its creation time and gains the agreements; its
\* update time moves only when the value changes.
SaveSecret(rec, n, v, ags, now) ==
  With(rec, n,
    IF n \in DOMAIN rec
    THEN [rec[n] EXCEPT !.ags = @ \cup ags, !.value = v,
                        !.updated = IF rec[n].value # v THEN now ELSE @]
    ELSE [value |-> v, ags |-> ags, created |-> now, updated |-> now])

\* SaveMicroserviceInstanceSecretsFromAgreementSecrets: of a secret that is already
\* recorded the recorded value is kept.
SaveFromAgreement(a, i) ==
  IF agSecrets[a] = NoSecrets THEN secretRec[i]
  ELSE [n \in DOMAIN secretRec[i] \cup DOMAIN agSecrets[a][i] |->
          IF n \notin DOMAIN agSecrets[a][i] THEN secretRec[i][n]
          ELSE IF n \in DOMAIN secretRec[i]
               THEN [secretRec[i][n] EXCEPT !.ags = @ \cup {a}]
               ELSE [value |-> agSecrets[a][i][n], ags |-> {a},
                     created |-> secretValue, updated |-> secretValue]]

\* StartMicroservice: the instance gets a key of its own and is known to other
\* agreements before its containers and its secrets exist.
PlanInstance(a, i) ==
  /\ dealState[a] = "made" /\ Provides[a][i] # {} /\ phase[i] = "new"
  /\ phase' = [phase EXCEPT ![i] = "planned"] /\ planner' = [planner EXCEPT ![i] = a]
  /\ UNCHANGED <<dealState, secretStore, inbox, writing, removing, strayed, offered, readBy, secretValue, agentStops>>

\* NewMSSInst: nothing has been confirmed for the new instance.
NewMSSInst == NoSecrets

\* ProcessServiceSecretsWithInstanceId, when the containers of an instance are
\* created: record, then all files; the instance gets a new status record.  The container
\* worker does this and the clean-ups one at a time.
StartInstance(a, i) ==
  /\ phase[i] = "planned" /\ planner[i] = a /\ dealState[a] = "made" /\ ~removing.on
  /\ phase' = [phase EXCEPT ![i] = "up"]
  /\ secretRec' = [secretRec EXCEPT ![i] = SaveFromAgreement(a, i)]
  /\ secretFile' = [secretFile EXCEPT ![i] = [n \in DOMAIN SaveFromAgreement(a, i) |->
                                                SaveFromAgreement(a, i)[n].value]]
  /\ offered' = [offered EXCEPT ![i] = NewMSSInst]
  /\ readBy' = [readBy EXCEPT ![i] = secretFile'[i]]
  /\ UNCHANGED <<dealState, agSecrets, planner, inbox, writing, removing, strayed, secretValue, agentStops>>

\* AddAgreementForMSInstSecrets: a second agreement joins every recorded secret.
ShareInstance(a, i) ==
  /\ dealState[a] = "made" /\ Provides[a][i] # {} /\ phase[i] \in {"planned", "up"}
  /\ secretRec' = [secretRec EXCEPT ![i] =
       [n \in DOMAIN secretRec[i] |-> [secretRec[i][n] EXCEPT !.ags = @ \cup {a}]]]
  /\ UNCHANGED <<dealState, agSecrets, secretFile, phase, planner, inbox, writing, removing, strayed, offered, readBy,
                 secretValue, agentStops>>

\* cancelAgreement deletes the secrets of the agreement; the containers of instances
\* nobody else uses go later, with RemoveSecrets.
DeleteAgreementSecrets(a) ==
  /\ dealState[a] = "made" /\ dealState' = [dealState EXCEPT ![a] = "ended"]
  /\ agSecrets' = [agSecrets EXCEPT ![a] = NoSecrets]
  /\ UNCHANGED <<secretRec, secretFile, phase, planner, inbox, writing, removing, strayed, offered, readBy, secretValue, agentStops>>

\* ResourcesRemove: the containers go, and DeleteAllSecForAgreement reads all records.
BeginRemove(a) ==
  /\ dealState[a] = "ended" /\ ~removing.on
  /\ phase' = [i \in Instances |->
       IF phase[i] = "new" \/ \E b \in SecretDeals \ {a} : dealState[b] = "made" /\ Provides[b][i] # {}
       THEN phase[i] ELSE "over"]
  /\ removing' = [on |-> TRUE, ag |-> a, copy |-> secretRec, updated |-> {},
                  todo |-> {p \in Instances \X SecretNames :
                              p[2] \in DOMAIN secretRec[p[1]] /\ a \in secretRec[p[1]][p[2]].ags}]
  /\ UNCHANGED <<dealState, secretStore, planner, inbox, writing, strayed, offered, readBy, secretValue, agentStops>>

\* A secret only this agreement uses, says the copy: it is deleted from the record as it is
\* now, and removing its file removes the directory of the instance.  A removal that fails is
\* only logged; an agent that stops before it leaves the same behind.
DeleteSecret(i, n) ==
  /\ removing.on /\ <<i, n>> \in removing.todo /\ removing.copy[i][n].ags = {removing.ag}
  /\ removing' = [removing EXCEPT !.todo = @ \ {<<i, n>>}]
  /\ secretRec' = [secretRec EXCEPT ![i] = [x \in DOMAIN secretRec[i] \ {n} |-> secretRec[i][x]]]
  /\ \/ secretFile' = [secretFile EXCEPT ![i] = NoSecrets] /\ UNCHANGED strayed
     \/ strayed' = strayed \cup {i} /\ UNCHANGED secretFile
  /\ UNCHANGED <<dealState, agSecrets, phase, planner, inbox, writing, offered, readBy, secretValue, agentStops>>

\* A secret others use too: the agreement is taken from the copy, and the copy of the whole
\* instance is saved.  It brings back secrets deleted before, and values updated since.
SaveOldCopy(i, n) ==
  LET left == [removing.copy EXCEPT ![i][n].ags = @ \ {removing.ag}] IN
  /\ removing.on /\ <<i, n>> \in removing.todo /\ removing.copy[i][n].ags # {removing.ag}
  /\ removing' = [removing EXCEPT !.todo = @ \ {<<i, n>>}, !.copy = left]
  /\ secretRec' = [secretRec EXCEPT ![i] = left[i]]
  /\ strayed' = IF i \in removing.updated THEN strayed \cup {i} ELSE strayed
  /\ UNCHANGED <<dealState, agSecrets, secretFile, phase, planner, inbox, writing, offered, readBy,
                 secretValue, agentStops>>

EndRemove ==
  /\ removing.on /\ removing.todo = {} /\ removing' = NotRemoving
  /\ dealState' = [dealState EXCEPT ![removing.ag] = "gone"]
  /\ UNCHANGED <<secretStore, phase, planner, inbox, writing, strayed, offered, readBy, secretValue, agentStops>>

-----------------------------------------------------------------------------
(* Updates. *)
SendUpdate(a, n) ==
  /\ dealState[a] = "made" /\ secretValue <= MaxSecretChanges
  /\ secretValue' = secretValue + 1
  /\ inbox' = Append(inbox, [ag |-> a, name |-> n, value |-> secretValue + 1])
  /\ UNCHANGED <<dealState, secretStore, phase, planner, writing, removing, strayed, offered, readBy, agentStops>>

\* The instances an update is for: those whose record of the secret lists the
\* agreement.  The list is read once, before the first of them is updated.
Matching(u) == {i \in Instances : u.name \in DOMAIN secretRec[i] /\ u.ag \in secretRec[i][u.name].ags}
BeginUpdate ==
  /\ ~writing.on /\ inbox # <<>>
  /\ writing' = [on |-> TRUE, todo |-> Matching(Head(inbox)), file |-> {}]
  /\ UNCHANGED <<dealState, secretStore, phase, planner, inbox, removing, strayed, offered, readBy, secretValue, agentStops>>

\* ProcessServiceSecretUpdates: instance by instance the record, then the file.
UpdateRecord ==
  /\ writing.on /\ writing.file = {}
  /\ \E i \in writing.todo :
       /\ secretRec' = [secretRec EXCEPT ![i] =
            SaveSecret(secretRec[i], Head(inbox).name, Head(inbox).value, {Head(inbox).ag}, secretValue)]
       /\ writing' = [writing EXCEPT !.todo = @ \ {i}, !.file = {i}]
       /\ removing' = IF removing.on THEN [removing EXCEPT !.updated = @ \cup {i}] ELSE removing
  /\ UNCHANGED <<dealState, agSecrets, secretFile, phase, planner, inbox, strayed, offered, readBy,
                 secretValue, agentStops>>

\* The file can be written only if its directory is still there.
WriteFile ==
  /\ writing.on /\ writing.file # {} /\ writing' = [writing EXCEPT !.file = {}]
  /\ \A i \in writing.file : secretFile[i] # NoSecrets
  /\ secretFile' = [i \in Instances |->
       IF i \in writing.file THEN With(secretFile[i], Head(inbox).name, Head(inbox).value) ELSE secretFile[i]]
  /\ UNCHANGED <<dealState, agSecrets, secretRec, phase, planner, inbox, removing, strayed, offered, readBy,
                 secretValue, agentStops>>

\* A record that cannot be saved, or a file that cannot be written, ends the update with the
\* instances that are left.  The reply says so, but the message is handled and deleted.
UpdateFails ==
  /\ writing.on /\ (writing.todo # {} \/ writing.file # {})
  /\ writing' = NotWriting /\ inbox' = Tail(inbox) /\ strayed' = strayed \cup writing.todo \cup writing.file
  /\ UNCHANGED <<dealState, secretStore, phase, planner, removing, offered, readBy, secretValue, agentStops>>

\* Mutant: the update is finished as soon as the records are written.
EndUpdateEarly ==
  /\ writing.on /\ writing.todo = {} /\ writing' = NotWriting /\ inbox' = Tail(inbox)
  /\ UNCHANGED <<dealState, secretStore, phase, planner, removing, strayed, offered, readBy, secretValue, agentStops>>

\* The reply is sent and the message is deleted after the last instance.
EndUpdate ==
  /\ writing.on /\ writing.todo = {} /\ writing.file = {}
  /\ writing' = NotWriting /\ inbox' = Tail(inbox)
  /\ UNCHANGED <<dealState, secretStore, phase, planner, removing, strayed, offered, readBy, secretValue, agentStops>>

\* The agent stops in the middle of an update, whose message is delivered again, or of a
\* clean-up, which is begun again.
StopAgent ==
  /\ agentStops < MaxAgentStops /\ agentStops' = agentStops + 1
  /\ writing' = NotWriting /\ removing' = NotRemoving
  /\ UNCHANGED <<dealState, secretStore, phase, planner, inbox, strayed, offered, readBy, secretValue>>

-----------------------------------------------------------------------------
(* The API of the service. *)

\* FindUpdatedSecretsForMSSInstance.
FindUpdatedSecrets(i) ==
  {n \in DOMAIN secretRec[i] :
     /\ secretRec[i][n].updated > secretRec[i][n].created
     /\ n \in DOMAIN offered[i] => secretRec[i][n].updated > offered[i][n]}

\* GET the secrets: the names that changed, each of which the service then reads.
PollSecrets(i) ==
  /\ phase[i] = "up" /\ FindUpdatedSecrets(i) # {}
  /\ readBy' = [readBy EXCEPT ![i] = [n \in DOMAIN @ \cup FindUpdatedSecrets(i) |->
       IF n \in FindUpdatedSecrets(i) THEN secretRec[i][n].value ELSE @[n]]]
  /\ UNCHANGED <<dealState, secretStore, phase, planner, inbox, writing, removing, strayed, offered, secretValue, agentStops>>

\* GET a secret, and POST that it was received: the update time that is confirmed is
\* the one recorded now, not the one of the value that was read.
GetSecret(i, n) ==
  /\ phase[i] = "up" /\ n \in DOMAIN secretRec[i]
  /\ readBy' = [readBy EXCEPT ![i] = With(@, n, secretRec[i][n].value)]
  /\ UNCHANGED <<dealState, secretStore, phase, planner, inbox, writing, removing, strayed, offered, secretValue, agentStops>>
ConfirmSecret(i, n) ==
  /\ phase[i] = "up" /\ n \in DOMAIN secretRec[i]
  /\ offered' = [offered EXCEPT ![i] = With(@, n, secretRec[i][n].updated)]
  /\ UNCHANGED <<dealState, secretStore, phase, planner, inbox, writing, removing, strayed, readBy, secretValue, agentStops>>

AgentSecretsNext ==
  \/ \E a \in SecretDeals : AcceptProposal(a) \/ DeleteAgreementSecrets(a) \/ BeginRemove(a)
  \/ \E a \in SecretDeals, i \in Instances : PlanInstance(a, i) \/ StartInstance(a, i) \/ ShareInstance(a, i)
  \/ \E a \in SecretDeals, n \in SecretNames : SendUpdate(a, n)
  \/ \E i \in Instances, n \in SecretNames : DeleteSecret(i, n) \/ SaveOldCopy(i, n)
  \/ EndRemove \/ BeginUpdate \/ UpdateRecord \/ WriteFile \/ UpdateFails \/ EndUpdate \/ StopAgent
  \/ \E i \in Instances : PollSecrets(i)
  \/ \E i \in Instances, n \in SecretNames : GetSecret(i, n) \/ ConfirmSecret(i, n)

AgentSecretsSpec == AgentSecretsInit /\ [][AgentSecretsNext]_agentSecretVars

-----------------------------------------------------------------------------
AgentSecretsTypeOK ==
  /\ dealState \in [SecretDeals -> {"none", "made", "ended", "gone"}]
  /\ phase \in [Instances -> {"new", "planned", "up", "over"}] /\ agentStops \in 0 .. MaxAgentStops
  /\ \A i \in Instances : \A n \in DOMAIN secretRec[i] :
       secretRec[i][n].ags \subseteq SecretDeals /\ secretRec[i][n].created <= secretRec[i][n].updated

\* A container never sees a value other than the recorded one, except while the
\* update that changes it has not been completed: the file of a secret holds what the
\* record says, or the message is still there and will be processed again.  The gaps the
\* code has are all named here: an instance an update failed on, whose files could not be
\* removed, or whose record a clean-up saved from a copy read before an update (strayed),
\* and an agent that stopped in the middle of an update for an agreement that then ended
\* (ProcessServiceSecretUpdates, WriteSecretContent, DeleteAllSecForAgreement).
FileFollowsRecord ==
  \A i \in Instances \ strayed : \A n \in DOMAIN secretFile[i] :
    /\ n \in DOMAIN secretRec[i]
    /\ \/ secretFile[i][n] = secretRec[i][n].value
       \/ inbox # <<>> /\ Head(inbox).name = n /\ Head(inbox).value = secretRec[i][n].value
       \/ agentStops > 0 /\ \E a \in SecretDeals : dealState[a] \in {"ended", "gone"}

\* "Remove this agId from all the secrets it is in. If it is the only agId for that
\* secret, remove the secret": a secret is recorded for nobody but agreements that
\* have not been cleaned up (DeleteAllSecForAgreement).
SecretGoneWithAgreement ==
  \A i \in Instances : \A n \in DOMAIN secretRec[i] : \A a \in secretRec[i][n].ags : dealState[a] # "gone"
=============================================================================
