--------------------------- MODULE AgreementStore ---------------------------
(***************************************************************************)
(* An agreement record in the agbot's database and the threads that update *)
(* it: an agreement worker, which holds the agreement's lock, and the      *)
(* governance and API threads, which do not.  SingleAgreementUpdate finds  *)
(* the record, applies a change to the copy, and then, in a transaction,   *)
(* merges the copy into the record as it is by now.  With bolt the         *)
(* transaction is atomic; with Postgresql it runs at the database's        *)
(* default isolation level, so another transaction may commit between its  *)
(* SELECT and its UPDATE of the whole record.  The configuration of the    *)
(* agbot says which database it uses.                                      *)
(***************************************************************************)
EXTENDS Naturals, FiniteSets

CONSTANTS MaxStoreTime,   \* bound on the secret update times
          MaxBusy,   \* bound on the updates in progress at a time
          Threads,   \* the threads that run: "worker", "governance", "api"
          NoRecord   \* there is no record

ASSUME StoreAssumption ==
  /\ MaxStoreTime \in Nat \ {0} /\ MaxBusy \in Nat
  /\ Threads \subseteq {"worker", "governance", "api"}

(* A record gives every field a number; 0 is zero, empty or false.  A field in
   Once changes from zero to its value, one in Latest only grows, and the
   timeouts are in no branch of ValidateStateTransition. *)
Once == {"created", "replied", "finalized", "timedout", "archived"}
Latest == {"secret", "secretAck", "notified"}
Fields == Once \cup Latest \cup {"timeouts"}
Records == [Fields -> 0..MaxStoreTime]

ASSUME RecordIsNotNoRecord == NoRecord \notin Records

\* NewAgreement: its timeouts are set, except in a record of an older agbot.
NewRecord(t) == [f \in Fields |-> IF f = "timeouts" THEN t ELSE 0]

NoCopy == [f \in Fields |-> 0]

\* What a caller is doing: the field it sets and the value, its changed copy
\* of the record, and the record its transaction read.
Job == [at : {"idle", "ready", "found", "read"}, field : Fields, value : 0..MaxStoreTime,
        copy : Records, mod : Records]
NoJob == [at |-> "idle", field |-> "created", value |-> 0, copy |-> NoCopy, mod |-> NoCopy]

VARIABLES db,       \* the database of the agbot
          rec,      \* the record, or NoRecord
          deleted,  \* the record was deleted
          storeJob,      \* what each thread is doing
          saved     \* per field, the latest value an update reported as saved

storeVars == <<db, rec, deleted, storeJob, saved>>

StoreTypeOK ==
  /\ db \in {"bolt", "postgresql"}
  /\ rec \in Records \cup {NoRecord}
  /\ deleted \in BOOLEAN
  /\ storeJob \in [Threads -> Job]
  /\ saved \in Records

StoreInit ==
  /\ db \in {"bolt", "postgresql"}
  /\ rec = NoRecord
  /\ deleted = FALSE
  /\ storeJob = [w \in Threads |-> NoJob]
  /\ saved = NoCopy

Exists == rec # NoRecord
IdleWriter(w) == storeJob[w].at = "idle"

\* A thread sets out to give field f the value v.
Begin(w, f, v) ==
  /\ w \in Threads /\ Exists /\ IdleWriter(w)
  /\ Cardinality({u \in Threads : ~IdleWriter(u)}) < MaxBusy
  /\ storeJob' = [storeJob EXCEPT ![w] = [NoJob EXCEPT !.at = "ready", !.field = f, !.value = v]]
  /\ UNCHANGED <<db, rec, deleted, saved>>

-----------------------------------------------------------------------------
(* The callers *)

\* AgreementAttempt inserts the record; agreement ids are not used again.
AgreementAttempt(t) ==
  /\ ~Exists /\ ~deleted
  /\ rec' = NewRecord(t)
  /\ UNCHANGED <<db, deleted, storeJob, saved>>

\* AgreementUpdate, after the proposal was sent.
AgreementUpdate == Exists /\ rec["created"] = 0 /\ Begin("worker", "created", 1)

\* AgreementMade: a reply for an agreement that is not archived and has none.
AgreementMade ==
  /\ Exists /\ rec["created"] = 1 /\ rec["replied"] = 0 /\ rec["archived"] = 0
  /\ Begin("worker", "replied", 1)

\* AgreementFinalized, after a reply was acked.
AgreementFinalized ==
  Exists /\ rec["replied"] = 1 /\ rec["finalized"] = 0 /\ Begin("worker", "finalized", 1)

\* DataNotification, for an agreement that is not archived.
DataNotification == Exists /\ rec["archived"] = 0 /\ Begin("worker", "notified", 1)

\* AgreementSecretUpdateAckTime is called with the update time the worker read before.
AgreementSecretUpdateAckTime == Exists /\ Begin("worker", "secretAck", rec["secret"])

\* CancelAgreement starts with AgreementTimedout and ends with ArchiveAgreement (Archive).
CancelWrites == Begin("worker", "timedout", 1)

\* notYetFinalFilter and the unarchived filter: the records GovernAgreements looks at.
Governed == Exists /\ rec["created"] = 1 /\ rec["archived"] = 0 /\ rec["timedout"] = 0

\* TerminateAgreement of the governance thread.
TerminateAgreement == Governed /\ Begin("governance", "timedout", 1)

\* The API's DELETE of an agreement.
ApiDeleteAgreement ==
  Exists /\ rec["archived"] = 0 /\ rec["timedout"] = 0 /\ Begin("api", "timedout", 1)

\* AgreementSecretUpdateTime, after a newer secret was sent.
AgreementSecretUpdateTime(t) ==
  /\ Governed /\ rec["secret"] < t
  /\ Begin("governance", "secret", t)

\* SetAgreementTimeouts, when the record has none.
SetAgreementTimeouts ==
  Governed /\ rec["timeouts"] = 0 /\ Begin("governance", "timeouts", 1)

DeleteAgreement ==
  /\ Exists
  /\ rec' = NoRecord /\ deleted' = TRUE
  /\ UNCHANGED <<db, storeJob, saved>>

\* GovernArchivedAgreements, a thread of its own, deletes an old archived record.
PurgeAgreement == Exists /\ rec["archived"] = 1 /\ rec["timedout"] = 1 /\ DeleteAgreement

\* InitiateNewAgreement deletes the record when the proposal cannot be sent.
DeletePending == Exists /\ rec["created"] = 0 /\ "worker" \in Threads /\ IdleWriter("worker") /\ DeleteAgreement

-----------------------------------------------------------------------------
(* SingleAgreementUpdate *)

\* Mutant: the branch for the secret update times is left out.
ValidateWithoutSecrets(mod, update) ==
  [f \in Fields |-> IF f \in Once THEN (IF mod[f] = 0 THEN update[f] ELSE mod[f]) ELSE mod[f]]
\* Mutant: the timeouts are copied, from an old copy too.
ValidateCopyingTimeouts(mod, update) ==
  [f \in Fields |-> IF f = "timeouts" \/ mod[f] < update[f] THEN update[f] ELSE mod[f]]

\* ValidateStateTransition(mod, update)
ValidateStateTransition(mod, update) ==
  [f \in Fields |->
     IF f \in Once THEN (IF mod[f] = 0 THEN update[f] ELSE mod[f])
     ELSE IF f \in Latest THEN (IF mod[f] < update[f] THEN update[f] ELSE mod[f])
     ELSE mod[f]]

\* The record is found and the change is applied to the copy; without a record
\* the update fails.
Find(w) ==
  /\ storeJob[w].at = "ready"
  /\ storeJob' = [storeJob EXCEPT ![w] =
               IF Exists THEN [@ EXCEPT !.at = "found", !.copy = [rec EXCEPT ![storeJob[w].field] = storeJob[w].value]]
               ELSE NoJob]
  /\ UNCHANGED <<db, rec, deleted, saved>>

\* The end of an update: CancelAgreement goes on to archive the record, unless
\* the copy it got back is archived already.
Finished(w) ==
  storeJob' = [storeJob EXCEPT ![w] =
            IF w = "worker" /\ storeJob[w].field = "timedout" /\ storeJob[w].copy["archived"] = 0
            THEN [NoJob EXCEPT !.at = "ready", !.field = "archived", !.value = 1]
            ELSE NoJob]

\* Mutant: the record is inserted when there is none to update.
WriteOrInsert(w, r) ==
  /\ rec' = ValidateStateTransition(r, storeJob[w].copy)
  /\ saved' = [saved EXCEPT ![storeJob[w].field] = IF @ < storeJob[w].value THEN storeJob[w].value ELSE @]
  /\ Finished(w)
  /\ UNCHANGED <<db, deleted>>

\* The copy merged into record r is written, if there is still a record.  The
\* UPDATE of a record that was deleted meanwhile changes nothing.
Write(w, r) ==
  /\ rec' = IF Exists THEN ValidateStateTransition(r, storeJob[w].copy) ELSE rec
  /\ saved' = [saved EXCEPT ![storeJob[w].field] = IF @ < storeJob[w].value THEN storeJob[w].value ELSE @]
  /\ Finished(w)
  /\ UNCHANGED <<db, deleted>>

\* The transaction finds no record: the update fails.
FailUpdate(w) ==
  /\ storeJob[w].at = "found" /\ ~Exists
  /\ storeJob' = [storeJob EXCEPT ![w] = NoJob]
  /\ UNCHANGED <<db, rec, deleted, saved>>

\* bolt: db.Update holds the database's write lock.
PersistAtomically(w) == db = "bolt" /\ storeJob[w].at = "found" /\ Exists /\ Write(w, rec)

\* Postgresql: the SELECT and the UPDATE of one transaction.
Select(w) ==
  /\ db = "postgresql" /\ storeJob[w].at = "found" /\ Exists
  /\ storeJob' = [storeJob EXCEPT ![w].at = "read", ![w].mod = rec]
  /\ UNCHANGED <<db, rec, deleted, saved>>

Update(w) == storeJob[w].at = "read" /\ Write(w, storeJob[w].mod)

StoreNext ==
  \/ \E t \in 0..1 : AgreementAttempt(t)
  \/ AgreementUpdate \/ AgreementMade \/ AgreementFinalized \/ DataNotification
  \/ AgreementSecretUpdateAckTime \/ CancelWrites
  \/ TerminateAgreement \/ ApiDeleteAgreement
  \/ \E t \in 1..MaxStoreTime : AgreementSecretUpdateTime(t)
  \/ SetAgreementTimeouts \/ PurgeAgreement \/ DeletePending
  \/ \E w \in Threads : Find(w) \/ FailUpdate(w) \/ PersistAtomically(w) \/ Select(w) \/ Update(w)

StoreSpec == StoreInit /\ [][StoreNext]_storeVars

-----------------------------------------------------------------------------
(* Properties *)

\* With bolt the record only moves forward: a reply, a timeout or the archiving
\* of an agreement is never undone by a thread that found the record earlier.
Forward ==
  [][db = "bolt" /\ Exists /\ Exists' => \A f \in Fields : rec[f] <= rec'[f]]_storeVars

\* With bolt an update that was reported as saved is in the record, whatever the
\* other threads wrote since.  The timeouts are excepted: they are not merged.
Durable == db = "bolt" /\ Exists => \A f \in Once \cup Latest : saved[f] <= rec[f]

\* A deleted agreement stays deleted: an update that found the record before it
\* was deleted, or whose transaction has read it, does not bring it back.
PurgedForGood == deleted => ~Exists
=============================================================================
