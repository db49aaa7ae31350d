------------------------ MODULE AgreementStoreProofs ------------------------
(***************************************************************************)
(* Proofs about AgreementStore: with bolt, whose transactions are atomic,  *)
(* no update of an agreement record is lost or undone, whichever threads   *)
(* run and however they interleave; and, with either database, no update   *)
(* recreates a record that was deleted.                                    *)
(***************************************************************************)
EXTENDS AgreementStore, TLAPS

\* A field with a single transition is only ever set to 1.
SetOnce == \A w \in Threads : storeJob[w].field \in Once => storeJob[w].value <= 1

\* The copy that is written has the value the caller gave the field.
CopyHasValue ==
  \A w \in Threads : storeJob[w].at = "found" => storeJob[w].copy[storeJob[w].field] = storeJob[w].value

\* Nothing was saved before the record exists.
NothingSavedBefore == ~Exists /\ ~deleted => saved = NoCopy

\* Between SELECT and UPDATE is nobody when the transaction is atomic.
NoneBetween == \A w \in Threads : storeJob[w].at # "read"

SaveInv == StoreTypeOK /\ SetOnce /\ CopyHasValue /\ NothingSavedBefore /\ NoneBetween /\ Durable

\* What is promised depends on the database, which never changes.
StoreInv == StoreTypeOK /\ (db = "bolt" => SaveInv)

LEMMA EmptyIsRecord == NoCopy \in Records /\ NoJob \in Job
BY StoreAssumption DEF NoCopy, Records, NoJob, Job, Fields, Once, Latest

LEMMA NewIsRecord == \A t \in 0..1 : NewRecord(t) \in Records
BY StoreAssumption DEF NewRecord, Records

LEMMA SetIsRecord ==
  ASSUME NEW r \in Records, NEW f \in Fields, NEW v \in 0..MaxStoreTime
  PROVE  [r EXCEPT ![f] = v] \in Records
BY DEF Records

LEMMA MergeIsRecord ==
  ASSUME NEW mod \in Records, NEW update \in Records
  PROVE  ValidateStateTransition(mod, update) \in Records
BY DEF ValidateStateTransition, Records

LEMMA ReadyIsJob ==
  ASSUME NEW f \in Fields, NEW v \in 0..MaxStoreTime
  PROVE  [NoJob EXCEPT !.at = "ready", !.field = f, !.value = v] \in Job
BY EmptyIsRecord DEF Job, NoJob

LEMMA FieldNames ==
  /\ Once \subseteq Fields /\ Latest \subseteq Fields
  /\ {"created", "replied", "finalized", "timedout", "archived"} = Once
  /\ {"secret", "secretAck", "notified"} = Latest
  /\ "timeouts" \in Fields
  /\ 0 \in 0..MaxStoreTime /\ 1 \in 0..MaxStoreTime
BY StoreAssumption DEF Once, Latest, Fields

\* What a caller sets out to do.
Asked(f, v) == f \in Fields /\ v \in 0..MaxStoreTime /\ (f \in Once => v = 1)

\* Every action is one of six kinds of step.
LEMMA StepKinds ==
  ASSUME StoreTypeOK, StoreNext
  PROVE  \/ \E t \in 0..1 : AgreementAttempt(t)
         \/ \E w \in Threads, f \in Fields, v \in 0..MaxStoreTime : Asked(f, v) /\ Begin(w, f, v)
         \/ DeleteAgreement
         \/ \E w \in Threads : Find(w) \/ FailUpdate(w) \/ PersistAtomically(w) \/ Select(w) \/ Update(w)
<1> USE FieldNames
<1>1. ASSUME NEW w, NEW f \in Fields, NEW v \in 0..MaxStoreTime, Asked(f, v), Begin(w, f, v)
      PROVE  \E u \in Threads, g \in Fields, x \in 0..MaxStoreTime : Asked(g, x) /\ Begin(u, g, x)
  BY <1>1 DEF Begin
<1>2. CASE AgreementUpdate
  BY <1>2, <1>1 DEF AgreementUpdate, Asked
<1>3. CASE AgreementMade
  BY <1>3, <1>1 DEF AgreementMade, Asked
<1>4. CASE AgreementFinalized
  BY <1>4, <1>1 DEF AgreementFinalized, Asked
<1>5. CASE DataNotification
  BY <1>5, <1>1 DEF DataNotification, Asked, Once
<1>6. CASE AgreementSecretUpdateAckTime
  <2>1. rec["secret"] \in 0..MaxStoreTime
    BY <1>6 DEF AgreementSecretUpdateAckTime, Exists, StoreTypeOK, Records
  <2>2. Asked("secretAck", rec["secret"]) /\ "secretAck" \in Fields
    BY <2>1 DEF Asked, Once
  <2> QED BY <1>6, <1>1, <2>1, <2>2 DEF AgreementSecretUpdateAckTime
<1>7. CASE CancelWrites
  BY <1>7, <1>1 DEF CancelWrites, Asked
<1>8. CASE TerminateAgreement \/ ApiDeleteAgreement
  BY <1>8, <1>1 DEF TerminateAgreement, ApiDeleteAgreement, Asked
<1>9. CASE \E t \in 1..MaxStoreTime : AgreementSecretUpdateTime(t)
  <2>1. PICK t \in 1..MaxStoreTime : AgreementSecretUpdateTime(t)
    BY <1>9
  <2>2. t \in 0..MaxStoreTime
    BY StoreAssumption
  <2>3. Asked("secret", t) /\ "secret" \in Fields
    BY <2>2 DEF Asked, Once
  <2> QED BY <2>1, <2>2, <2>3, <1>1 DEF AgreementSecretUpdateTime
<1>10. CASE SetAgreementTimeouts
  BY <1>10, <1>1 DEF SetAgreementTimeouts, Asked, Once
<1>11. CASE PurgeAgreement \/ DeletePending
  BY <1>11 DEF PurgeAgreement, DeletePending
<1> QED BY <1>2, <1>3, <1>4, <1>5, <1>6, <1>7, <1>8, <1>9, <1>10, <1>11 DEF StoreNext

LEMMA DoneTypes ==
  ASSUME StoreTypeOK, NEW w \in Threads, Finished(w)
  PROVE  storeJob' \in [Threads -> Job]
<1>1. [NoJob EXCEPT !.at = "ready", !.field = "archived", !.value = 1] \in Job
  BY ReadyIsJob, FieldNames
<1> QED BY <1>1, EmptyIsRecord DEF Finished, StoreTypeOK

LEMMA WriteTypes ==
  ASSUME StoreTypeOK, NEW w \in Threads, NEW r \in Records, Write(w, r)
  PROVE  StoreTypeOK'
<1>1. storeJob[w] \in Job
  BY DEF StoreTypeOK
<1>2. storeJob[w].copy \in Records /\ storeJob[w].field \in Fields /\ storeJob[w].value \in 0..MaxStoreTime
  BY <1>1 DEF Job
<1>3. rec' \in Records \cup {NoRecord}
  BY <1>2, MergeIsRecord DEF Write, StoreTypeOK
<1>4. saved' \in Records
  <2>1. saved[storeJob[w].field] \in 0..MaxStoreTime
    BY <1>2 DEF StoreTypeOK, Records
  <2>2. saved' = [saved EXCEPT ![storeJob[w].field] =
                    IF saved[storeJob[w].field] < storeJob[w].value THEN storeJob[w].value ELSE saved[storeJob[w].field]]
    BY DEF Write
  <2> QED BY <1>2, <2>1, <2>2, SetIsRecord DEF StoreTypeOK
<1>5. storeJob' \in [Threads -> Job]
  BY DoneTypes DEF Write
<1> QED BY <1>3, <1>4, <1>5 DEF StoreTypeOK, Write

LEMMA TypeStep ==
  ASSUME StoreTypeOK, [StoreNext]_storeVars
  PROVE  StoreTypeOK'
<1>1. CASE UNCHANGED storeVars
  BY <1>1 DEF storeVars, StoreTypeOK
<1>2. ASSUME NEW t \in 0..1, AgreementAttempt(t)
      PROVE  StoreTypeOK'
  BY <1>2, NewIsRecord DEF AgreementAttempt, StoreTypeOK
<1>3. ASSUME NEW w \in Threads, NEW f \in Fields, NEW v \in 0..MaxStoreTime, Begin(w, f, v)
      PROVE  StoreTypeOK'
  <2>1. [NoJob EXCEPT !.at = "ready", !.field = f, !.value = v] \in Job
    BY ReadyIsJob
  <2>2. storeJob' \in [Threads -> Job]
    BY <1>3, <2>1 DEF Begin, StoreTypeOK
  <2> QED BY <1>3, <2>2 DEF Begin, StoreTypeOK
<1>4. CASE DeleteAgreement
  BY <1>4 DEF DeleteAgreement, StoreTypeOK
<1>5. ASSUME NEW w \in Threads, Find(w)
      PROVE  StoreTypeOK'
  <2>1. storeJob[w] \in Job
    BY DEF StoreTypeOK
  <2>2. Exists => [rec EXCEPT ![storeJob[w].field] = storeJob[w].value] \in Records
    BY <2>1, SetIsRecord DEF Job, StoreTypeOK, Exists
  <2>3. Exists => [storeJob[w] EXCEPT !.at = "found",
                                 !.copy = [rec EXCEPT ![storeJob[w].field] = storeJob[w].value]] \in Job
    BY <2>1, <2>2 DEF Job
  <2>4. storeJob' \in [Threads -> Job]
    BY <1>5, <2>3, EmptyIsRecord DEF Find, StoreTypeOK
  <2> QED BY <1>5, <2>4 DEF Find, StoreTypeOK
<1>6. ASSUME NEW w \in Threads, FailUpdate(w)
      PROVE  StoreTypeOK'
  BY <1>6, EmptyIsRecord DEF FailUpdate, StoreTypeOK
<1>7. ASSUME NEW w \in Threads, PersistAtomically(w)
      PROVE  StoreTypeOK'
  BY <1>7, WriteTypes DEF PersistAtomically, Exists, StoreTypeOK
<1>8. ASSUME NEW w \in Threads, Select(w)
      PROVE  StoreTypeOK'
  <2>1. storeJob[w] \in Job
    BY DEF StoreTypeOK
  <2>2. rec \in Records
    BY <1>8 DEF Select, Exists, StoreTypeOK
  <2>3. [storeJob[w] EXCEPT !.at = "read", !.mod = rec] \in Job
    BY <2>1, <2>2 DEF Job
  <2>4. storeJob' = [storeJob EXCEPT ![w] = [storeJob[w] EXCEPT !.at = "read", !.mod = rec]]
    BY <1>8 DEF Select, StoreTypeOK
  <2>5. storeJob' \in [Threads -> Job]
    BY <2>3, <2>4 DEF StoreTypeOK
  <2> QED BY <1>8, <2>5 DEF Select, StoreTypeOK
<1>9. ASSUME NEW w \in Threads, Update(w)
      PROVE  StoreTypeOK'
  <2>1. storeJob[w] \in Job
    BY DEF StoreTypeOK
  <2>2. storeJob[w].mod \in Records
    BY <2>1 DEF Job
  <2> QED BY <1>9, <2>2, WriteTypes DEF Update
<1> QED BY <1>1, <1>2, <1>3, <1>4, <1>5, <1>6, <1>7, <1>8, <1>9, StepKinds

LEMMA InitTypes == StoreInit => StoreTypeOK
BY EmptyIsRecord DEF StoreInit, StoreTypeOK

\* The record, the copies and the reported values stay well formed with either
\* database, whichever threads run.
THEOREM StoreTypeCorrect == StoreSpec => []StoreTypeOK
BY InitTypes, TypeStep, PTL DEF StoreSpec

\* An update that found an agreement before it was deleted does not bring the
\* record back, with either database.
THEOREM DeletedForGood == StoreSpec => []PurgedForGood
<1> DEFINE Inv == StoreTypeOK /\ PurgedForGood
<1>1. StoreInit => Inv
  BY InitTypes DEF StoreInit, PurgedForGood
<1>2. Inv /\ [StoreNext]_storeVars => Inv'
  <2> SUFFICES ASSUME Inv, [StoreNext]_storeVars PROVE PurgedForGood'
    BY TypeStep
  <2> USE DEF PurgedForGood, Exists
  <2>1. CASE UNCHANGED storeVars
    BY <2>1 DEF storeVars
  <2>2. CASE \E t \in 0..1 : AgreementAttempt(t)
    BY <2>2 DEF AgreementAttempt
  <2>3. CASE \E w \in Threads, f \in Fields, v \in 0..MaxStoreTime : Asked(f, v) /\ Begin(w, f, v)
    BY <2>3 DEF Begin
  <2>4. CASE DeleteAgreement
    BY <2>4 DEF DeleteAgreement
  <2>5. ASSUME NEW w \in Threads, Find(w) \/ FailUpdate(w) \/ Select(w)
        PROVE  PurgedForGood'
    BY <2>5 DEF Find, FailUpdate, Select
  <2>6. ASSUME NEW w \in Threads, NEW r, Write(w, r)
        PROVE  PurgedForGood'
    BY <2>6 DEF Write
  <2> QED BY <2>1, <2>2, <2>3, <2>4, <2>5, <2>6, StepKinds DEF PersistAtomically, Update
<1> QED BY <1>1, <1>2, PTL DEF StoreSpec

-----------------------------------------------------------------------------
(* With an atomic transaction. *)

\* The merge never lowers a field, and takes over what the copy sets.
LEMMA MergeGrows ==
  ASSUME NEW mod \in Records, NEW update \in Records
  PROVE  /\ \A f \in Fields : mod[f] <= ValidateStateTransition(mod, update)[f]
         /\ \A f \in Latest : update[f] <= ValidateStateTransition(mod, update)[f]
         /\ \A f \in Once : update[f] = 1 => 1 <= ValidateStateTransition(mod, update)[f]
BY FieldNames DEF ValidateStateTransition, Records, Once, Latest

\* One field of the reported values grows to the value of the update.
LEMMA WriteSaves ==
  ASSUME db = "bolt", SaveInv, NEW w \in Threads, storeJob[w].at = "found", Exists, Write(w, rec)
  PROVE  Durable'
<1> DEFINE c == storeJob[w].copy
           g == storeJob[w].field
           x == storeJob[w].value
           merged == ValidateStateTransition(rec, c)
<1>1. storeJob[w] \in Job
  BY DEF SaveInv, StoreTypeOK
<1>2. c \in Records /\ g \in Fields /\ x \in 0..MaxStoreTime /\ rec \in Records /\ saved \in Records
  BY <1>1 DEF Job, SaveInv, StoreTypeOK, Exists
<1>3. rec' = merged
  BY DEF Write
<1>4. saved' = [saved EXCEPT ![g] = IF saved[g] < x THEN x ELSE saved[g]]
  BY DEF Write
<1>5. c[g] = x /\ (g \in Once => x <= 1)
  BY DEF SaveInv, CopyHasValue, SetOnce
<1> SUFFICES ASSUME NEW f \in Once \cup Latest
             PROVE  saved'[f] <= rec'[f]
  BY DEF Durable
<1>6. f \in Fields
  BY FieldNames
<1>7. saved[f] <= rec[f]
  BY DEF SaveInv, Durable
<1>8. rec[f] <= merged[f]
  BY <1>2, <1>6, MergeGrows
<1>9. saved[f] \in Nat /\ rec[f] \in Nat /\ merged[f] \in Nat /\ x \in Nat
  <2>1. merged \in Records
    BY <1>2, MergeIsRecord
  <2> HIDE DEF merged
  <2> QED BY <1>2, <1>6, <2>1, StoreAssumption DEF Records
<1>10. CASE f # g
  BY <1>2, <1>3, <1>4, <1>6, <1>7, <1>8, <1>9, <1>10 DEF Records
<1>11. CASE f = g
  <2>1. saved'[f] = IF saved[f] < x THEN x ELSE saved[f]
    BY <1>2, <1>4, <1>6, <1>11 DEF Records
  <2>2. x <= merged[f]
    <3>1. CASE f \in Latest
      BY <3>1, <1>2, <1>5, <1>11, MergeGrows
    <3>2. CASE f \in Once
      <4>1. x = 0 \/ x = 1
        BY <3>2, <1>5, <1>9, <1>11
      <4>2. x = 1 => 1 <= merged[f]
        BY <3>2, <1>2, <1>5, <1>11, MergeGrows
      <4> QED BY <4>1, <4>2, <1>9
    <3> QED BY <3>1, <3>2
  <2> QED BY <2>1, <2>2, <1>3, <1>7, <1>8, <1>9
<1> QED BY <1>10, <1>11

\* What an update leaves behind in the thread that made it.
LEMMA DoneJobs ==
  ASSUME SaveInv, NEW w \in Threads, Finished(w)
  PROVE  SetOnce' /\ CopyHasValue' /\ NoneBetween'
<1> DEFINE next == [NoJob EXCEPT !.at = "ready", !.field = "archived", !.value = 1]
<1>1. next.at = "ready" /\ next.value = 1
  BY DEF NoJob
<1>2. NoJob.at = "idle" /\ NoJob.value = 0
  BY DEF NoJob
<1>3. storeJob'[w] \in {next, NoJob} /\ \A u \in Threads \ {w} : storeJob'[u] = storeJob[u]
  BY DEF Finished, SaveInv, StoreTypeOK
<1> HIDE DEF next
<1> QED BY <1>1, <1>2, <1>3 DEF SaveInv, SetOnce, CopyHasValue, NoneBetween

LEMMA SaveStep ==
  ASSUME db = "bolt", SaveInv, [StoreNext]_storeVars
  PROVE  SaveInv'
<1>0. StoreTypeOK'
  BY TypeStep DEF SaveInv
<1> DEFINE Rest == SetOnce /\ CopyHasValue /\ NothingSavedBefore /\ NoneBetween /\ Durable
<1> SUFFICES Rest'
  BY <1>0 DEF SaveInv
<1>1. CASE UNCHANGED storeVars
  BY <1>1 DEF storeVars, SaveInv, SetOnce, CopyHasValue, NothingSavedBefore, NoneBetween, Durable, Exists
<1>2. ASSUME NEW t \in 0..1, AgreementAttempt(t)
      PROVE  Rest'
  <2>1. saved = NoCopy
    BY <1>2 DEF AgreementAttempt, SaveInv, NothingSavedBefore
  <2>2. Durable'
    BY <1>2, <2>1, FieldNames, NewIsRecord DEF AgreementAttempt, Durable, NoCopy, Records
  <2> QED BY <1>2, <2>1, <2>2
          DEF AgreementAttempt, SaveInv, SetOnce, CopyHasValue, NothingSavedBefore, NoneBetween
<1>3. ASSUME NEW w \in Threads, NEW f \in Fields, NEW v \in 0..MaxStoreTime, Asked(f, v), Begin(w, f, v)
      PROVE  Rest'
  <2> DEFINE new == [NoJob EXCEPT !.at = "ready", !.field = f, !.value = v]
  <2>1. new.at = "ready" /\ new.field = f /\ new.value = v
    BY DEF NoJob
  <2>2. storeJob'[w] = new /\ \A u \in Threads \ {w} : storeJob'[u] = storeJob[u]
    BY <1>3 DEF Begin, SaveInv, StoreTypeOK
  <2> HIDE DEF new
  <2>3. SetOnce' /\ CopyHasValue' /\ NoneBetween'
    BY <1>3, <2>1, <2>2 DEF Asked, SaveInv, SetOnce, CopyHasValue, NoneBetween
  <2> QED BY <1>3, <2>3 DEF Begin, SaveInv, NothingSavedBefore, Durable, Exists
<1>4. CASE DeleteAgreement
  BY <1>4 DEF DeleteAgreement, SaveInv, SetOnce, CopyHasValue, NothingSavedBefore, NoneBetween, Durable, Exists
<1>5. ASSUME NEW w \in Threads, Find(w)
      PROVE  Rest'
  <2>1. storeJob[w] \in Job /\ storeJob[w].field \in Fields
    BY DEF SaveInv, StoreTypeOK, Job
  <2> DEFINE copy == [rec EXCEPT ![storeJob[w].field] = storeJob[w].value]
             new == [storeJob[w] EXCEPT !.at = "found", !.copy = copy]
  <2>2. Exists => copy[storeJob[w].field] = storeJob[w].value
    BY <2>1 DEF SaveInv, StoreTypeOK, Exists, Records
  <2>3. new.at = "found" /\ new.field = storeJob[w].field /\ new.value = storeJob[w].value /\ new.copy = copy
    BY <2>1 DEF Job
  <2>4. storeJob'[w] = (IF Exists THEN new ELSE NoJob) /\ \A u \in Threads \ {w} : storeJob'[u] = storeJob[u]
    BY <1>5 DEF Find, SaveInv, StoreTypeOK
  <2>5. NoJob.at = "idle" /\ NoJob.value = 0
    BY DEF NoJob
  <2> HIDE DEF new, copy
  <2>6. SetOnce' /\ CopyHasValue' /\ NoneBetween'
    BY <2>2, <2>3, <2>4, <2>5 DEF SaveInv, SetOnce, CopyHasValue, NoneBetween
  <2> QED BY <1>5, <2>6 DEF Find, SaveInv, NothingSavedBefore, Durable, Exists
<1>6. ASSUME NEW w \in Threads, FailUpdate(w)
      PROVE  Rest'
  <2>1. storeJob'[w] = NoJob /\ \A u \in Threads \ {w} : storeJob'[u] = storeJob[u]
    BY <1>6 DEF FailUpdate, SaveInv, StoreTypeOK
  <2>2. NoJob.at = "idle" /\ NoJob.value = 0
    BY DEF NoJob
  <2>3. SetOnce' /\ CopyHasValue' /\ NoneBetween'
    BY <2>1, <2>2 DEF SaveInv, SetOnce, CopyHasValue, NoneBetween
  <2> QED BY <1>6, <2>3 DEF FailUpdate, SaveInv, NothingSavedBefore, Durable, Exists
<1>7. ASSUME NEW w \in Threads, PersistAtomically(w)
      PROVE  Rest'
  <2>1. Durable'
    BY <1>7, WriteSaves DEF PersistAtomically
  <2>2. SetOnce' /\ CopyHasValue' /\ NoneBetween'
    BY <1>7, DoneJobs DEF PersistAtomically, Write
  <2>3. rec \in Records /\ rec' = ValidateStateTransition(rec, storeJob[w].copy)
    BY <1>7 DEF PersistAtomically, Write, SaveInv, StoreTypeOK, Exists
  <2>4. NothingSavedBefore'
    <3>1. storeJob[w].copy \in Records
      BY DEF SaveInv, StoreTypeOK, Job
    <3>2. rec' \in Records
      BY <2>3, <3>1, MergeIsRecord
    <3> QED BY <3>2, RecordIsNotNoRecord DEF NothingSavedBefore, Exists
  <2> QED BY <2>1, <2>2, <2>4
<1>8. ASSUME NEW w \in Threads, Select(w) \/ Update(w)
      PROVE  FALSE
  BY <1>8 DEF Select, Update, SaveInv, NoneBetween
<1> QED BY <1>1, <1>2, <1>3, <1>4, <1>5, <1>6, <1>7, <1>8, StepKinds DEF SaveInv

LEMMA InitSave == StoreInit => SaveInv
<1> SUFFICES ASSUME StoreInit PROVE SaveInv
  OBVIOUS
<1>1. NoJob.at = "idle" /\ NoJob.value = 0
  BY DEF NoJob
<1>2. \A w \in Threads : storeJob[w] = NoJob
  BY DEF StoreInit
<1>3. SetOnce /\ CopyHasValue /\ NoneBetween
  BY <1>1, <1>2 DEF SetOnce, CopyHasValue, NoneBetween
<1> QED BY <1>3, InitTypes DEF StoreInit, SaveInv, NothingSavedBefore, Durable, Exists

LEMMA DatabaseStays ==
  ASSUME StoreTypeOK, [StoreNext]_storeVars
  PROVE  db' = db
<1>1. CASE UNCHANGED storeVars
  BY <1>1 DEF storeVars
<1>2. CASE StoreNext
  BY <1>2, StepKinds DEF AgreementAttempt, Begin, DeleteAgreement, Find, FailUpdate,
     PersistAtomically, Select, Update, Write
<1> QED BY <1>1, <1>2

LEMMA StoreStep ==
  ASSUME StoreInv, [StoreNext]_storeVars
  PROVE  StoreInv'
BY SaveStep, DatabaseStays, TypeStep DEF StoreInv

LEMMA InitStore == StoreInit => StoreInv
BY InitSave, InitTypes DEF StoreInv

\* With bolt every update reported as saved stays in the record: no thread
\* overwrites it with what it found earlier.
THEOREM BoltLosesNoUpdate == StoreSpec => []Durable
<1>1. StoreInv /\ [StoreNext]_storeVars => StoreInv'
  BY StoreStep
<1>2. StoreInv => Durable
  BY DEF StoreInv, SaveInv, Durable
<1> QED BY InitStore, <1>1, <1>2, PTL DEF StoreSpec

\* With bolt no field of the record ever moves back.
THEOREM BoltMovesForward == StoreSpec => Forward
<1> DEFINE Grows == db = "bolt" /\ Exists /\ Exists' => \A f \in Fields : rec[f] <= rec'[f]
<1>1. StoreInv /\ [StoreNext]_storeVars => StoreInv'
  BY StoreStep
<1>2. ASSUME db = "bolt", SaveInv, [StoreNext]_storeVars
      PROVE  [Grows]_storeVars
  <2>1. Exists => rec \in Records
    BY <1>2 DEF SaveInv, StoreTypeOK, Exists
  <2>2. rec' = rec => Grows
    BY <2>1 DEF Records
  <2>3. CASE UNCHANGED storeVars
    BY <2>3
  <2>4. CASE \E t \in 0..1 : AgreementAttempt(t)
    BY <2>4 DEF AgreementAttempt
  <2>5. CASE \E w \in Threads, f \in Fields, v \in 0..MaxStoreTime : Asked(f, v) /\ Begin(w, f, v)
    BY <2>5, <2>2 DEF Begin
  <2>6. CASE DeleteAgreement
    BY <2>6 DEF DeleteAgreement, Exists
  <2>7. ASSUME NEW w \in Threads, Find(w) \/ FailUpdate(w) \/ Select(w)
        PROVE  Grows
    BY <2>7, <2>2 DEF Find, FailUpdate, Select
  <2>8. ASSUME NEW w \in Threads, PersistAtomically(w)
        PROVE  Grows
    <3>1. storeJob[w].copy \in Records
      BY <1>2 DEF SaveInv, StoreTypeOK, Job
    <3>2. rec \in Records /\ rec' = ValidateStateTransition(rec, storeJob[w].copy)
      BY <2>8, <2>1 DEF PersistAtomically, Write
    <3> QED BY <3>1, <3>2, MergeGrows
  <2>9. ASSUME NEW w \in Threads, Update(w)
        PROVE  FALSE
    BY <1>2, <2>9 DEF Update, SaveInv, NoneBetween
  <2> QED BY <1>2, <2>3, <2>4, <2>5, <2>6, <2>7, <2>8, <2>9, StepKinds DEF SaveInv
<1>3. StoreInv /\ [StoreNext]_storeVars => [Grows]_storeVars
  BY <1>2 DEF StoreInv
<1> QED BY InitStore, <1>1, <1>3, PTL DEF StoreSpec, Forward

=============================================================================
