------------------------ MODULE AgreementWorkerProofs ------------------------
(***************************************************************************)
(* Proofs about what the agreement workers of the agbot share.  The lock   *)
(* of an agreement excludes all but one worker until the agreement is      *)
(* archived, as long as no update of the record failed, and no reply is    *)
(* stored after that, for any number of workers and mutexes.  The work     *)
(* queue has its type, stays within its depth bound, serves high priority  *)
(* work first and implements the two lines of PriorityFifo, for any items, *)
(* senders, workers and buffer size.                                       *)
(***************************************************************************)
EXTENDS AgreementLock, WorkQueue, SequenceTheorems, FiniteSetTheorems, TLAPS

-----------------------------------------------------------------------------
(* The lock of an agreement. *)

\* A worker inside a critical section owns the mutex it fetched.
OwnsIt == \A w \in LockWorkers : lockPc[w] \in Inside => lock[w] \in Mutexes /\ owner[lock[w]] = w

\* A worker that waits has fetched a mutex.
HasMutex == \A w \in LockWorkers : lockPc[w] = "waiting" => lock[w] \in Mutexes

\* Only a worker inside a critical section owns a mutex.
OwnedInside ==
  \A m \in Mutexes, w \in LockWorkers : owner[m] = w => lockPc[w] \in Inside /\ lock[w] = m

\* Until the agreement is archived there is one mutex, the one in the map.
OneMutex == ~archived => \A w \in LockWorkers : lock[w] \in Mutexes => lock[w] = lockMap

\* The mutex is taken out of the map only after the agreement was archived.
DeletedWhenArchived ==
  \A w \in LockWorkers : \/ lockPc[w] = "cancelled"
                         \/ lockPc[w] = "leaving" /\ lockJob[w] = "cancel"
                         => archived

\* What was checked at the start of a critical section still holds.
StillOpen ==
  \A w \in LockWorkers :
    lockPc[w] \in {"sent", "accepting", "recording", "deleting", "archiving"} => ~archived

\* An agreement that is not proposed has not been archived.
ArchivedLater == archived => sent

\* The places of a worker belong to its work item.
JobFits(place, j) ==
  /\ place = "sent" => j = "initiate"
  /\ place \in {"accepting", "recording", "acked"} => j = "reply"
  /\ place \in {"deleting", "archiving"} => j \in {"cancel", "reject"}

AtItsJob == \A w \in LockWorkers : JobFits(lockPc[w], lockJob[w])

\* One worker initiates the agreement, and nobody has other work for it before
\* the proposal is sent.
InitiatingFirst ==
  /\ \A w \in LockWorkers : lockPc[w] \in {"waiting", "locked"} /\ lockJob[w] = "initiate" => ~sent
  /\ \A v, w \in LockWorkers : /\ lockPc[v] # "idle" /\ lockJob[v] = "initiate"
                          /\ lockPc[w] # "idle" /\ lockJob[w] = "initiate"
                          => v = w
  /\ \A w \in LockWorkers : lockPc[w] # "idle" /\ lockJob[w] # "initiate" => sent

LockInv ==
  /\ LockTypeOK
  /\ OwnsIt /\ HasMutex /\ OwnedInside /\ OneMutex
  /\ DeletedWhenArchived /\ StillOpen /\ ArchivedLater /\ AtItsJob /\ InitiatingFirst

LEMMA InitLock == LockInit => LockInv
BY LockAssumption
   DEF LockInit, LockInv, LockTypeOK, OwnsIt, HasMutex, OwnedInside, OneMutex, DeletedWhenArchived,
       StillOpen, ArchivedLater, AtItsJob, JobFits, InitiatingFirst, Inside, Places, Jobs

\* Until the agreement is archived at most one worker is inside.
LEMMA Exclusive == LockInv /\ ~archived => MutualExclusion
BY LockAssumption DEF LockInv, OwnsIt, OneMutex, MutualExclusion

LEMMA TypeStep ==
  ASSUME LockTypeOK, [LockNext]_lockVars
  PROVE  LockTypeOK'
<1> USE DEF LockTypeOK, Goto, locks, record, Places, Inside
<1>1. CASE UNCHANGED lockVars
  BY <1>1 DEF lockVars
<1>2. ASSUME NEW w \in LockWorkers, NEW j \in Jobs, Receive(w, j)
      PROVE  LockTypeOK'
  BY <1>2 DEF Receive, getAgreementLock, Fresh
<1>3. ASSUME NEW w \in LockWorkers, Lock(w)
      PROVE  LockTypeOK'
  BY <1>3 DEF Lock
<1>4. ASSUME NEW w \in LockWorkers,
             AbandonInitiate(w) \/ InitiateAgreement(w) \/ PersistAgreement(w) \/ CheckReply(w)
               \/ PersistReply(w) \/ RecordReplyFails(w) \/ FinalizeAgreement(w) \/ RecordAck(w)
      PROVE  LockTypeOK'
  BY <1>4 DEF AbandonInitiate, InitiateAgreement, PersistAgreement, CheckReply, PersistReply,
              RecordReplyFails, FinalizeAgreement, RecordAck
<1>5. ASSUME NEW w \in LockWorkers,
             AgreementTimedout(w) \/ CancelFails(w) \/ DeleteConsumerAgreement(w) \/ ArchiveAgreement(w)
      PROVE  LockTypeOK'
  BY <1>5 DEF AgreementTimedout, CancelFails, DeleteConsumerAgreement, ArchiveAgreement
<1>6. ASSUME NEW w \in LockWorkers, RecordReply(w) \/ Leave(w)
      PROVE  LockTypeOK'
  BY <1>6 DEF RecordReply, Leave, Unlock
<1>7. ASSUME NEW w \in LockWorkers, PostReply(w)
      PROVE  LockTypeOK'
  BY <1>7 DEF PostReply, getAgreementLock, Fresh, Jobs
<1>8. ASSUME NEW w \in LockWorkers, DeleteLock(w)
      PROVE  LockTypeOK'
  BY <1>8 DEF DeleteLock, deleteAgreementLock
<1> QED BY <1>1, <1>2, <1>3, <1>4, <1>5, <1>6, <1>7, <1>8 DEF LockNext, Step

LEMMA InitiatingStep ==
  ASSUME LockTypeOK, AtItsJob, InitiatingFirst, [LockNext]_lockVars
  PROVE  InitiatingFirst'
<1> USE DEF LockTypeOK, Goto, locks, record
<1>1. CASE UNCHANGED lockVars
  BY <1>1 DEF lockVars, InitiatingFirst
<1>2. ASSUME NEW w \in LockWorkers, NEW j \in Jobs, Receive(w, j)
      PROVE  InitiatingFirst'
  <2>1. lockPc'[w] = "waiting" /\ lockJob'[w] = j /\ sent' = sent
    BY <1>2 DEF Receive
  <2>2. \A v \in LockWorkers \ {w} : lockPc'[v] = lockPc[v] /\ lockJob'[v] = lockJob[v]
    BY <1>2 DEF Receive
  <2>3. j = "initiate" => ~sent /\ \A v \in LockWorkers : lockPc[v] = "idle" \/ lockJob[v] # "initiate"
    BY <1>2 DEF Receive, Arrives, Initiating
  <2>4. j # "initiate" => sent
    BY <1>2 DEF Receive, Arrives
  <2> QED BY <2>1, <2>2, <2>3, <2>4 DEF InitiatingFirst
<1>3. ASSUME NEW w \in LockWorkers, InitiateAgreement(w)
      PROVE  InitiatingFirst'
  <2>1. lockPc[w] = "locked" /\ lockJob[w] = "initiate" /\ lockJob' = lockJob /\ sent'
    BY <1>3 DEF InitiateAgreement
  <2>2. lockPc'[w] = "sent" /\ \A v \in LockWorkers \ {w} : lockPc'[v] = lockPc[v]
    BY <1>3 DEF InitiateAgreement
  <2> QED BY <2>1, <2>2 DEF InitiatingFirst
<1>4. ASSUME NEW w \in LockWorkers, NEW place \in Places, place # "waiting", Goto(w, place),
             UNCHANGED <<lockJob, sent>>, lockPc[w] # "idle",
             place = "locked" => lockPc[w] = "waiting"
      PROVE  InitiatingFirst'
  <2>1. lockPc'[w] = place /\ \A v \in LockWorkers \ {w} : lockPc'[v] = lockPc[v]
    BY <1>4
  <2> QED BY <1>4, <2>1 DEF InitiatingFirst
<1>5. ASSUME NEW w \in LockWorkers, PostReply(w)
      PROVE  InitiatingFirst'
  <2>1. lockPc'[w] = "waiting" /\ lockJob'[w] = "finalize" /\ sent' = sent
    BY <1>5 DEF PostReply
  <2>2. \A v \in LockWorkers \ {w} : lockPc'[v] = lockPc[v] /\ lockJob'[v] = lockJob[v]
    BY <1>5 DEF PostReply
  <2>3. lockPc[w] = "acked" /\ lockJob[w] = "reply"
    BY <1>5 DEF PostReply, AtItsJob, JobFits
  <2> QED BY <2>1, <2>2, <2>3 DEF InitiatingFirst
<1>6. ASSUME NEW w \in LockWorkers, Lock(w)
      PROVE  InitiatingFirst'
  BY <1>6, <1>4 DEF Lock, Places, Inside
<1>7. ASSUME NEW w \in LockWorkers,
             AbandonInitiate(w) \/ PersistAgreement(w) \/ RecordReplyFails(w) \/ FinalizeAgreement(w)
               \/ RecordAck(w) \/ CancelFails(w) \/ ArchiveAgreement(w)
      PROVE  InitiatingFirst'
  <2>1. Goto(w, "leaving") /\ UNCHANGED <<lockJob, sent>> /\ lockPc[w] # "idle"
    BY <1>7 DEF AbandonInitiate, PersistAgreement, RecordReplyFails, FinalizeAgreement, RecordAck,
                CancelFails, ArchiveAgreement
  <2> QED BY <2>1, <1>4 DEF Places, Inside
<1>8. ASSUME NEW w \in LockWorkers,
             CheckReply(w) \/ PersistReply(w) \/ AgreementTimedout(w) \/ DeleteConsumerAgreement(w)
      PROVE  InitiatingFirst'
  <2>1. UNCHANGED <<lockJob, sent>> /\ lockPc[w] # "idle"
    BY <1>8 DEF CheckReply, PersistReply, AgreementTimedout, DeleteConsumerAgreement
  <2>2. \E place \in {"accepting", "leaving", "recording", "deleting", "archiving"} : Goto(w, place)
    BY <1>8 DEF CheckReply, PersistReply, AgreementTimedout, DeleteConsumerAgreement
  <2> QED BY <2>1, <2>2, <1>4 DEF Places, Inside
<1>9. ASSUME NEW w \in LockWorkers, RecordReply(w) \/ Leave(w) \/ DeleteLock(w)
      PROVE  InitiatingFirst'
  <2>1. UNCHANGED <<lockJob, sent>> /\ lockPc[w] # "idle"
    BY <1>9 DEF RecordReply, Leave, DeleteLock
  <2>2. \E place \in {"acked", "cancelled", "idle"} : Goto(w, place)
    BY <1>9 DEF RecordReply, Leave, DeleteLock
  <2> QED BY <2>1, <2>2, <1>4 DEF Places
<1> QED BY <1>1, <1>2, <1>3, <1>5, <1>6, <1>7, <1>8, <1>9 DEF LockNext, Step

\* The worker that fetches the lock disturbs nobody.
LEMMA FetchStep ==
  ASSUME LockInv, LockTypeOK', InitiatingFirst', NEW w \in LockWorkers,
         lockPc[w] \in {"idle", "acked"}, getAgreementLock(w), Goto(w, "waiting"),
         \A v \in LockWorkers \ {w} : lockJob'[v] = lockJob[v],
         UNCHANGED record
  PROVE  LockInv'
<1> USE LockAssumption DEF LockInv, LockTypeOK, Goto, record
<1>1. lockMap' \in Mutexes /\ lock'[w] = lockMap'
  BY DEF getAgreementLock, Fresh
<1>2. \A v \in LockWorkers \ {w} : lock'[v] = lock[v] /\ lockPc'[v] = lockPc[v]
  BY DEF getAgreementLock
<1>3. lockPc'[w] = "waiting" /\ owner' = owner
  BY DEF getAgreementLock
<1>4. OneMutex'
  BY <1>1, <1>2 DEF OneMutex, getAgreementLock
<1>5. OwnsIt' /\ HasMutex'
  BY <1>1, <1>2, <1>3 DEF OwnsIt, HasMutex, Inside
<1>6. OwnedInside'
  BY <1>1, <1>2, <1>3 DEF OwnedInside, Inside
<1>7. DeletedWhenArchived' /\ StillOpen' /\ ArchivedLater'
  BY <1>2, <1>3 DEF DeletedWhenArchived, StillOpen, ArchivedLater
<1>8. AtItsJob'
  BY <1>2, <1>3 DEF AtItsJob, JobFits
<1> QED BY <1>4, <1>5, <1>6, <1>7, <1>8

\* A worker that unlocks its mutex and goes outside.
LEMMA UnlockStep ==
  ASSUME LockInv, LockTypeOK', InitiatingFirst', NEW w \in LockWorkers, NEW place \in {"acked", "cancelled", "idle"},
         lockPc[w] \in Inside, Unlock(w), Goto(w, place), place = "cancelled" => archived,
         place = "acked" => lockJob[w] = "reply",
         UNCHANGED <<lockJob, stage, archived, sent>>
  PROVE  LockInv'
<1> USE LockAssumption DEF LockInv, LockTypeOK, Goto
<1>1. lock'[w] = NoMutex /\ \A v \in LockWorkers \ {w} : lock'[v] = lock[v]
  BY DEF Unlock
<1>2. lockPc'[w] = place /\ \A v \in LockWorkers \ {w} : lockPc'[v] = lockPc[v]
  OBVIOUS
<1>3. lock[w] \in Mutexes /\ owner[lock[w]] = w
  BY DEF OwnsIt
<1>4. owner'[lock[w]] = Free /\ \A m \in Mutexes \ {lock[w]} : owner'[m] = owner[m]
  BY <1>3 DEF Unlock
<1>5. OwnsIt' /\ HasMutex'
  BY <1>1, <1>2, <1>3, <1>4 DEF OwnsIt, HasMutex, Inside
<1>6. OwnedInside'
  BY <1>1, <1>2, <1>3, <1>4 DEF OwnedInside
<1>7. OneMutex'
  BY <1>1 DEF OneMutex, Unlock
<1>8. DeletedWhenArchived' /\ StillOpen' /\ ArchivedLater'
  BY <1>2 DEF DeletedWhenArchived, StillOpen, ArchivedLater
<1>9. AtItsJob'
  BY <1>2 DEF AtItsJob, JobFits
<1> QED BY <1>5, <1>6, <1>7, <1>8, <1>9

\* A worker that goes on inside and archives nothing.
LEMMA InsideStep ==
  ASSUME LockInv, LockTypeOK', InitiatingFirst', NEW w \in LockWorkers, NEW place \in Inside,
         lockPc[w] \in Inside, Goto(w, place),
         place \in {"sent", "accepting", "recording", "deleting", "archiving"} => ~archived,
         place = "leaving" /\ lockJob[w] = "cancel" => archived, JobFits(place, lockJob[w]),
         archived' = archived, sent => sent', UNCHANGED <<locks, lockJob>>
  PROVE  LockInv'
<1> USE LockAssumption DEF LockInv, LockTypeOK, Goto, locks
<1>1. lockPc'[w] = place /\ \A v \in LockWorkers \ {w} : lockPc'[v] = lockPc[v]
  OBVIOUS
<1>2. OwnsIt' /\ HasMutex' /\ OwnedInside'
  BY <1>1 DEF OwnsIt, HasMutex, OwnedInside, Inside
<1>3. OneMutex'
  BY DEF OneMutex
<1>4. DeletedWhenArchived' /\ StillOpen' /\ ArchivedLater'
  BY <1>1 DEF DeletedWhenArchived, StillOpen, ArchivedLater, Inside
<1>5. AtItsJob'
  BY <1>1 DEF AtItsJob
<1> QED BY <1>2, <1>3, <1>4, <1>5

LEMMA LockStep ==
  ASSUME LockInv, [LockNext]_lockVars, ~failed'
  PROVE  LockInv'
<1>0. LockTypeOK' /\ InitiatingFirst'
  BY TypeStep, InitiatingStep DEF LockInv
<1>1. CASE UNCHANGED lockVars
  BY <1>1 DEF lockVars, locks, record, LockInv, LockTypeOK, OwnsIt, HasMutex, OwnedInside, OneMutex,
              DeletedWhenArchived, StillOpen, ArchivedLater, AtItsJob, InitiatingFirst
<1>2. ASSUME NEW w \in LockWorkers, NEW j \in Jobs, Receive(w, j)
      PROVE  LockInv'
  <2>1. \A v \in LockWorkers \ {w} : lockJob'[v] = lockJob[v]
    BY <1>2 DEF Receive, LockInv, LockTypeOK
  <2> QED BY <1>0, <1>2, <2>1, FetchStep DEF Receive
<1>3. ASSUME NEW w \in LockWorkers, PostReply(w)
      PROVE  LockInv'
  <2>1. \A v \in LockWorkers \ {w} : lockJob'[v] = lockJob[v]
    BY <1>3 DEF PostReply, LockInv, LockTypeOK
  <2> QED BY <1>0, <1>3, <2>1, FetchStep DEF PostReply
<1>4. ASSUME NEW w \in LockWorkers, Lock(w)
      PROVE  LockInv'
  <2> USE LockAssumption DEF LockInv, LockTypeOK, Goto
  <2>1. lock[w] \in Mutexes /\ owner[lock[w]] = Free /\ lock' = lock
    BY <1>4 DEF Lock, HasMutex
  <2>2. lockPc'[w] = "locked" /\ \A v \in LockWorkers \ {w} : lockPc'[v] = lockPc[v]
    BY <1>4 DEF Lock
  <2>3. owner'[lock[w]] = w /\ \A m \in Mutexes \ {lock[w]} : owner'[m] = owner[m]
    BY <1>4, <2>1 DEF Lock
  <2>4. OwnsIt'
    BY <2>1, <2>2, <2>3 DEF OwnsIt
  <2>5. HasMutex' /\ OwnedInside'
    BY <2>1, <2>2, <2>3 DEF HasMutex, OwnedInside, Inside
  <2>6. OneMutex' /\ DeletedWhenArchived' /\ StillOpen' /\ ArchivedLater'
    BY <1>4, <2>2 DEF Lock, record, OneMutex, DeletedWhenArchived, StillOpen, ArchivedLater
  <2>7. AtItsJob'
    BY <1>4, <2>2 DEF Lock, AtItsJob, JobFits
  <2> QED BY <1>0, <2>4, <2>5, <2>6, <2>7
<1>5. ASSUME NEW w \in LockWorkers, RecordReply(w)
      PROVE  LockInv'
  <2>1. lockJob[w] = "reply"
    BY <1>5 DEF RecordReply, LockInv, AtItsJob, JobFits
  <2> QED BY <1>0, <1>5, <2>1, UnlockStep DEF RecordReply, Inside
<1>6. ASSUME NEW w \in LockWorkers, Leave(w)
      PROVE  LockInv'
  <2>1. lockJob[w] = "cancel" => archived
    BY <1>6 DEF Leave, LockInv, DeletedWhenArchived
  <2>2. UNCHANGED <<lockJob, stage, archived, sent>> /\ lockPc[w] \in Inside /\ Unlock(w)
    BY <1>6 DEF Leave, record, Inside
  <2>3. CASE lockJob[w] = "cancel"
    BY <1>0, <1>6, <2>1, <2>2, <2>3, UnlockStep DEF Leave
  <2>4. CASE lockJob[w] # "cancel"
    BY <1>0, <1>6, <2>2, <2>4, UnlockStep DEF Leave
  <2> QED BY <2>3, <2>4
<1>7. ASSUME NEW w \in LockWorkers,
             AbandonInitiate(w) \/ PersistAgreement(w) \/ CheckReply(w) \/ RecordReplyFails(w) \/ RecordAck(w)
      PROVE  LockInv'
  <2>1. UNCHANGED <<locks, lockJob>> /\ archived' = archived /\ sent' = sent
    BY <1>7 DEF AbandonInitiate, PersistAgreement, CheckReply, RecordReplyFails, RecordAck, record
  <2>2. lockPc[w] \in Inside
    BY <1>7 DEF AbandonInitiate, PersistAgreement, CheckReply, RecordReplyFails, RecordAck, Inside
  <2>3. lockJob[w] # "cancel"
    BY <1>7 DEF AbandonInitiate, PersistAgreement, CheckReply, RecordReplyFails, RecordAck,
                LockInv, AtItsJob, JobFits
  <2>4. CASE Goto(w, "accepting")
    <3>1. CheckReply(w) /\ ~archived
      <4>1. lockPc'[w] = "accepting"
        BY <2>4 DEF Goto, LockInv, LockTypeOK
      <4> QED BY <1>7, <4>1 DEF AbandonInitiate, PersistAgreement, CheckReply, RecordReplyFails, RecordAck,
                                 Goto, LockInv, LockTypeOK
    <3>2. JobFits("accepting", lockJob[w])
      BY <3>1 DEF CheckReply, JobFits
    <3> QED BY <1>0, <2>1, <2>2, <2>4, <3>1, <3>2, InsideStep DEF Inside
  <2>5. CASE Goto(w, "leaving")
    <3>1. JobFits("leaving", lockJob[w])
      BY DEF JobFits
    <3> QED BY <1>0, <2>1, <2>2, <2>3, <2>5, <3>1, InsideStep DEF Inside
  <2> QED BY <1>7, <2>4, <2>5 DEF AbandonInitiate, PersistAgreement, CheckReply, RecordReplyFails, RecordAck
<1>8. ASSUME NEW w \in LockWorkers, InitiateAgreement(w)
      PROVE  LockInv'
  <2>1. ~archived
    BY <1>8 DEF InitiateAgreement, LockInv, InitiatingFirst, ArchivedLater
  <2>2. JobFits("sent", lockJob[w])
    BY <1>8 DEF InitiateAgreement, JobFits
  <2> QED BY <1>0, <1>8, <2>1, <2>2, InsideStep DEF InitiateAgreement, Inside
<1>9. ASSUME NEW w \in LockWorkers, PersistReply(w)
      PROVE  LockInv'
  <2>1. ~archived /\ lockJob[w] = "reply"
    BY <1>9 DEF PersistReply, LockInv, StillOpen, AtItsJob, JobFits
  <2>2. JobFits("recording", lockJob[w])
    BY <2>1 DEF JobFits
  <2> QED BY <1>0, <1>9, <2>1, <2>2, InsideStep DEF PersistReply, Inside
<1>10. ASSUME NEW w \in LockWorkers, FinalizeAgreement(w)
       PROVE  LockInv'
  <2>1. JobFits("leaving", lockJob[w])
    BY DEF JobFits
  <2> QED BY <1>0, <1>10, <2>1, InsideStep DEF FinalizeAgreement, Inside
<1>11. ASSUME NEW w \in LockWorkers, AgreementTimedout(w)
       PROVE  LockInv'
  <2>1. UNCHANGED <<locks, lockJob>> /\ archived' = archived /\ sent' = sent /\ lockPc[w] \in Inside
    BY <1>11 DEF AgreementTimedout, record, Inside
  <2>2. JobFits("leaving", lockJob[w]) /\ JobFits("deleting", lockJob[w])
    BY <1>11 DEF AgreementTimedout, JobFits, Cancels
  <2>3. CASE archived
    BY <1>0, <1>11, <2>1, <2>2, <2>3, InsideStep DEF AgreementTimedout, Inside
  <2>4. CASE ~archived
    BY <1>0, <1>11, <2>1, <2>2, <2>4, InsideStep DEF AgreementTimedout, Inside
  <2> QED BY <2>3, <2>4
<1>12. ASSUME NEW w \in LockWorkers, DeleteConsumerAgreement(w)
       PROVE  LockInv'
  <2>1. ~archived /\ JobFits("archiving", lockJob[w])
    BY <1>12 DEF DeleteConsumerAgreement, LockInv, StillOpen, AtItsJob, JobFits
  <2> QED BY <1>0, <1>12, <2>1, InsideStep DEF DeleteConsumerAgreement, Inside
<1>13. ASSUME NEW w \in LockWorkers, ArchiveAgreement(w)
       PROVE  LockInv'
  <2> USE DEF LockInv, LockTypeOK, Goto
  <2>1. ~archived /\ archived' /\ UNCHANGED <<locks, lockJob, sent>>
    BY <1>13 DEF ArchiveAgreement, StillOpen
  <2>2. lockPc'[w] = "leaving" /\ \A v \in LockWorkers \ {w} : lockPc'[v] = lockPc[v]
    BY <1>13 DEF ArchiveAgreement
  <2>3. \A v \in LockWorkers \ {w} : lockPc[v] \notin Inside
    BY <1>13, <2>1, Exclusive DEF ArchiveAgreement, MutualExclusion, Inside
  <2>4. StillOpen'
    BY <2>2, <2>3 DEF StillOpen, Inside
  <2>5. OwnsIt' /\ HasMutex' /\ OwnedInside'
    BY <1>13, <2>1, <2>2 DEF ArchiveAgreement, locks, OwnsIt, HasMutex, OwnedInside, Inside
  <2>6. OneMutex' /\ DeletedWhenArchived'
    BY <2>1 DEF OneMutex, DeletedWhenArchived
  <2>7. AtItsJob'
    BY <2>1, <2>2 DEF AtItsJob, JobFits
  <2>8. sent
    BY <1>13 DEF ArchiveAgreement, InitiatingFirst, AtItsJob, JobFits
  <2> QED BY <1>0, <2>1, <2>4, <2>5, <2>6, <2>7, <2>8 DEF ArchivedLater
<1>14. ASSUME NEW w \in LockWorkers, DeleteLock(w)
       PROVE  LockInv'
  <2> USE DEF LockInv, LockTypeOK, Goto
  <2>1. archived /\ archived' /\ UNCHANGED <<owner, lock, lockJob, sent>>
    BY <1>14 DEF DeleteLock, DeletedWhenArchived, deleteAgreementLock, record
  <2>2. lockPc[w] = "cancelled" /\ lockPc'[w] = "idle" /\ \A v \in LockWorkers \ {w} : lockPc'[v] = lockPc[v]
    BY <1>14 DEF DeleteLock
  <2>3. OwnsIt' /\ HasMutex' /\ OwnedInside'
    BY <2>1, <2>2 DEF OwnsIt, HasMutex, OwnedInside, Inside
  <2>4. OneMutex' /\ DeletedWhenArchived' /\ StillOpen' /\ ArchivedLater'
    BY <2>1, <2>2 DEF OneMutex, DeletedWhenArchived, StillOpen, ArchivedLater
  <2>5. AtItsJob'
    BY <2>1, <2>2 DEF AtItsJob, JobFits
  <2> QED BY <1>0, <2>3, <2>4, <2>5
<1>15. ASSUME NEW w \in LockWorkers, CancelFails(w)
       PROVE  LockInv'
  BY <1>15 DEF CancelFails
<1> QED BY <1>1, <1>2, <1>3, <1>4, <1>5, <1>6, <1>7, <1>8, <1>9, <1>10, <1>11, <1>12, <1>13, <1>14, <1>15
        DEF LockNext, Step

\* LockInv holds until an update fails.
UntilFailure == LockTypeOK /\ (~failed => LockInv)

LEMMA FailureStays == ASSUME [LockNext]_lockVars, failed PROVE failed'
<1>1. CASE UNCHANGED lockVars
  BY <1>1 DEF lockVars, record
<1>2. ASSUME NEW w \in LockWorkers, (\E j \in Jobs : Receive(w, j)) \/ Lock(w) \/ Step(w)
      PROVE  failed'
  BY <1>2 DEF Receive, Lock, Step, AbandonInitiate, InitiateAgreement, PersistAgreement, CheckReply,
              PersistReply, RecordReplyFails, RecordReply, PostReply, FinalizeAgreement, RecordAck,
              AgreementTimedout, CancelFails, DeleteConsumerAgreement, ArchiveAgreement, Leave,
              DeleteLock, record
<1> QED BY <1>1, <1>2 DEF LockNext

LEMMA UntilFailureStep == ASSUME UntilFailure, [LockNext]_lockVars PROVE UntilFailure'
<1>1. LockTypeOK'
  BY TypeStep DEF UntilFailure
<1>2. ASSUME ~failed' PROVE LockInv'
  <2>1. ~failed
    BY <1>2, FailureStays
  <2> QED BY <1>2, <2>1, LockStep DEF UntilFailure
<1> QED BY <1>1, <1>2 DEF UntilFailure

\* The workers, the mutexes and the record stay well formed, whether or not
\* updates of the record fail.
THEOREM LockTypeCorrect == LockSpec => []LockTypeOK
<1>1. LockInit => LockTypeOK
  BY InitLock DEF LockInv
<1> QED BY <1>1, TypeStep, PTL DEF LockSpec

\* For any number of workers: until the agreement is archived or an update fails,
\* the lock keeps all but one of them out, although cancels take mutexes out of
\* the map.
THEOREM LockExcludesWhileOpen == LockSpec => []ExclusiveWhileOpen
<1>1. LockInit => UntilFailure
  BY InitLock DEF UntilFailure, LockInv
<1>2. UntilFailure => ExclusiveWhileOpen
  BY Exclusive DEF UntilFailure, ExclusiveWhileOpen
<1> QED BY <1>1, <1>2, UntilFailureStep, PTL DEF LockSpec

\* For any number of workers: after the agreement was archived, and unless an update
\* failed, nothing is written but the finalizing of a reply that was acked before.
THEOREM ArchivedIsNotRevived == LockSpec => NotRevived
<1> DEFINE Kept == archived /\ ~failed => archived' /\ stage' = stage /\ (exch' # exch => LateFinalize)
<1>1. LockInit => UntilFailure
  BY InitLock DEF UntilFailure, LockInv
<1>2. ASSUME UntilFailure, [LockNext]_lockVars
      PROVE  [Kept]_lockVars
  <2>0. ~failed => LockInv
    BY <1>2 DEF UntilFailure
  <2> USE DEF record
  <2>1. CASE UNCHANGED lockVars
    BY <2>1
  <2>2. ASSUME NEW w \in LockWorkers, (\E j \in Jobs : Receive(w, j)) \/ Lock(w) \/ PostReply(w)
        PROVE  Kept
    BY <2>2 DEF Receive, Lock, PostReply
  <2>3. ASSUME NEW w \in LockWorkers, InitiateAgreement(w)
        PROVE  Kept
    BY <2>0, <2>3 DEF InitiateAgreement, LockInv, InitiatingFirst, ArchivedLater
  <2>4. ASSUME NEW w \in LockWorkers, PersistReply(w) \/ RecordReply(w)
        PROVE  Kept
    BY <2>0, <2>4 DEF PersistReply, RecordReply, LockInv, StillOpen
  <2>5. ASSUME NEW w \in LockWorkers,
               AbandonInitiate(w) \/ PersistAgreement(w) \/ CheckReply(w) \/ RecordReplyFails(w)
                 \/ RecordAck(w) \/ AgreementTimedout(w) \/ CancelFails(w) \/ ArchiveAgreement(w)
                 \/ Leave(w) \/ DeleteLock(w)
        PROVE  Kept
    BY <2>5 DEF AbandonInitiate, PersistAgreement, CheckReply, RecordReplyFails, RecordAck,
                AgreementTimedout, CancelFails, ArchiveAgreement, Leave, DeleteLock
  <2>6. ASSUME NEW w \in LockWorkers, FinalizeAgreement(w)
        PROVE  Kept
    BY <2>6 DEF FinalizeAgreement, LateFinalize
  <2>7. ASSUME NEW w \in LockWorkers, DeleteConsumerAgreement(w)
        PROVE  Kept
    BY <2>0, <2>7 DEF DeleteConsumerAgreement, LockInv, StillOpen
  <2> QED BY <1>2, <2>1, <2>2, <2>3, <2>4, <2>5, <2>6, <2>7 DEF LockNext, Step
<1> QED BY <1>1, <1>2, UntilFailureStep, PTL DEF LockSpec, NotRevived

-----------------------------------------------------------------------------
(* The prioritized work queue. *)

(* What run() decided before its select still holds in the select: only run()
   itself takes items out of the buffers.  The channels never overflow. *)
OfferHolds ==
  queuePc = "select" => /\ offer = "high" => bufferHigh # <<>>
                        /\ offer = "low" => bufferLow # <<>> /\ bufferHigh = <<>>

ChannelsFit == Len(inboundHigh) <= BufferSize /\ Len(inboundLow) <= BufferSize

QueueInv == QueueTypeOK /\ OfferHolds /\ ChannelsFit /\ DepthBound

-----------------------------------------------------------------------------
(* Sequences *)

\* Moving the head of a channel to the end of its buffer leaves the line as it is.
LEMMA MoveHead ==
  ASSUME NEW S, NEW s \in Seq(S), NEW t \in Seq(S), t # <<>>
  PROVE  Append(s, Head(t)) \o Tail(t) = s \o t
<1> DEFINE u == Append(s, Head(t))
           v == Tail(t)
<1>1. /\ Head(t) \in S /\ v \in Seq(S) /\ Len(v) = Len(t) - 1
      /\ \A i \in 1..Len(v) : v[i] = t[i + 1]
  BY HeadTailProperties
<1>2. /\ u \in Seq(S) /\ Len(u) = Len(s) + 1
      /\ \A i \in 1..Len(s) : u[i] = s[i]
      /\ u[Len(s) + 1] = Head(t)
  BY <1>1, AppendProperties
<1>3. Len(s) \in Nat /\ Len(t) \in Nat /\ Len(v) \in Nat
  BY <1>1, LenProperties
<1>4. /\ u \o v \in Seq(S) /\ Len(u \o v) = Len(u) + Len(v)
      /\ \A i \in 1..Len(u) + Len(v) : (u \o v)[i] = IF i <= Len(u) THEN u[i] ELSE v[i - Len(u)]
  <2> HIDE DEF u, v
  <2> QED BY <1>1, <1>2, ConcatProperties
<1>5. /\ s \o t \in Seq(S) /\ Len(s \o t) = Len(s) + Len(t)
      /\ \A i \in 1..Len(s) + Len(t) : (s \o t)[i] = IF i <= Len(s) THEN s[i] ELSE t[i - Len(s)]
  BY ConcatProperties
<1>6. Head(t) = t[1]
  OBVIOUS
<1>7. ASSUME NEW i \in 1..Len(u \o v)  PROVE (u \o v)[i] = (s \o t)[i]
  <2> HIDE DEF u, v
  <2>1. CASE i <= Len(s)
    BY <2>1, <1>2, <1>3, <1>4, <1>5, <1>1
  <2>2. CASE i = Len(s) + 1
    BY <2>2, <1>2, <1>3, <1>4, <1>5, <1>1, <1>6
  <2>3. CASE i > Len(s) + 1
    <3>1. i - Len(u) \in 1..Len(v) /\ i - Len(u) + 1 = i - Len(s)
      BY <2>3, <1>1, <1>2, <1>3, <1>4
    <3>2. (u \o v)[i] = v[i - Len(u)]
      BY <2>3, <1>1, <1>2, <1>3, <1>4
    <3>3. v[i - Len(u)] = t[i - Len(s)]
      BY <3>1, <1>1
    <3>4. (s \o t)[i] = t[i - Len(s)]
      BY <2>3, <1>1, <1>2, <1>3, <1>4, <1>5
    <3> QED BY <3>2, <3>3, <3>4
  <2> QED BY <2>1, <2>2, <2>3, <1>3, <1>4, <1>2, <1>1
<1>8. Len(u \o v) = Len(s \o t)
  <2> HIDE DEF u, v
  <2> QED BY <1>1, <1>2, <1>3, <1>4, <1>5
<1> HIDE DEF u, v
<1>9. u \o v = s \o t
  BY <1>4, <1>5, <1>7, <1>8, SeqEqual
<1> QED BY <1>9 DEF u, v

\* An item added to the channel is added at the end of the line.
LEMMA AppendAtEnd ==
  ASSUME NEW S, NEW s \in Seq(S), NEW t \in Seq(S), NEW e \in S
  PROVE  s \o Append(t, e) = Append(s \o t, e)
<1>1. Append(t, e) = t \o <<e>>
  BY AppendIsConcat
<1>2. s \o t \in Seq(S)
  BY ConcatProperties
<1>3. Append(s \o t, e) = (s \o t) \o <<e>>
  BY <1>2, AppendIsConcat
<1>4. <<e>> \in Seq(S)
  OBVIOUS
<1> QED BY <1>1, <1>3, <1>4, ConcatAssociative

\* Taking the head of the buffer takes the head of the line.
LEMMA TakeHead ==
  ASSUME NEW S, NEW s \in Seq(S), NEW t \in Seq(S), s # <<>>
  PROVE  /\ s \o t # <<>>
         /\ Head(s \o t) = Head(s)
         /\ Tail(s \o t) = Tail(s) \o t
<1>1. /\ Tail(s) \in Seq(S) /\ Len(Tail(s)) = Len(s) - 1
      /\ \A i \in 1..Len(Tail(s)) : Tail(s)[i] = s[i + 1]
  BY HeadTailProperties
<1>2. /\ s \o t \in Seq(S) /\ Len(s \o t) = Len(s) + Len(t)
      /\ \A i \in 1..Len(s) + Len(t) : (s \o t)[i] = IF i <= Len(s) THEN s[i] ELSE t[i - Len(s)]
  BY ConcatProperties
<1>3. Len(s) \in Nat \ {0} /\ Len(t) \in Nat
  BY EmptySeq, LenProperties
<1>4. s \o t # <<>>
  BY <1>2, <1>3, EmptySeq
<1>5. Head(s \o t) = Head(s)
  <2>1. Head(s \o t) = (s \o t)[1] /\ Head(s) = s[1]
    BY <1>4
  <2> QED BY <2>1, <1>2, <1>3
<1>6. /\ Tail(s \o t) \in Seq(S) /\ Len(Tail(s \o t)) = Len(s \o t) - 1
      /\ \A i \in 1..Len(Tail(s \o t)) : Tail(s \o t)[i] = (s \o t)[i + 1]
  BY <1>2, <1>4, HeadTailProperties
<1>7. /\ Tail(s) \o t \in Seq(S) /\ Len(Tail(s) \o t) = Len(Tail(s)) + Len(t)
      /\ \A i \in 1..Len(Tail(s)) + Len(t) :
           (Tail(s) \o t)[i] = IF i <= Len(Tail(s)) THEN Tail(s)[i] ELSE t[i - Len(Tail(s))]
  BY <1>1, ConcatProperties
<1>8. ASSUME NEW i \in 1..Len(Tail(s \o t))  PROVE Tail(s \o t)[i] = (Tail(s) \o t)[i]
  <2>1. Tail(s \o t)[i] = IF i + 1 <= Len(s) THEN s[i + 1] ELSE t[i + 1 - Len(s)]
    BY <1>2, <1>3, <1>6
  <2>2. (Tail(s) \o t)[i] = IF i <= Len(s) - 1 THEN Tail(s)[i] ELSE t[i - (Len(s) - 1)]
    BY <1>1, <1>2, <1>3, <1>6, <1>7
  <2>3. i <= Len(s) - 1 => Tail(s)[i] = s[i + 1]
    BY <1>1, <1>2, <1>3, <1>6
  <2> QED BY <2>1, <2>2, <2>3, <1>1, <1>2, <1>3, <1>6
<1>9. Tail(s \o t) = Tail(s) \o t
  BY <1>1, <1>2, <1>3, <1>6, <1>7, <1>8, SeqEqual
<1> QED BY <1>4, <1>5, <1>9

-----------------------------------------------------------------------------
(* The invariant *)

\* Only a step of a sender changes who is past the depth check.
LEMMA ReadyType ==
  ASSUME NEW P
  PROVE  /\ Ready(P) \subseteq Senders /\ IsFiniteSet(Ready(P))
         /\ Cardinality(Ready(P)) \in Nat /\ Cardinality(Ready(P)) <= Cardinality(Senders)
         /\ Cardinality(Senders) \in Nat
<1>1. Ready(P) \subseteq Senders
  BY DEF Ready
<1> QED BY <1>1, QueueAssumption, FS_Subset, FS_CardinalityType

LEMMA QueueTypeInit == QueueInit => QueueInv
<1> SUFFICES ASSUME QueueInit PROVE QueueInv
  OBVIOUS
<1>1. QueueTypeOK
  <2>1. <<>> \in Seq(HighItems) /\ <<>> \in Seq(LowItems)
    BY EmptySeq
  <2>2. Out \in SenderState
    BY DEF Out, SenderState
  <2> QED BY <2>1, <2>2 DEF QueueInit, QueueTypeOK
<1>2. OfferHolds /\ ChannelsFit
  BY QueueAssumption DEF QueueInit, OfferHolds, ChannelsFit
<1>3. DepthBound
  BY ReadyType, QueueAssumption DEF QueueInit, DepthBound
<1> QED BY <1>1, <1>2, <1>3 DEF QueueInv

\* Passing the depth check keeps the bound: the buffer is not at depth, the
\* channel holds at most BufferSize items and there are only so many senders.
LEMMA PassBound ==
  ASSUME QueueInv, NEW s \in Senders, NEW i \in Items, UNCHANGED <<chans, buffers>>,
         sender' = [sender EXCEPT ![s] = [at |-> "ready", item |-> i]], ~AtDepth(i)
  PROVE  DepthBound'
<1> USE DEF QueueInv
<1>1. /\ Len(bufferHigh) \in Nat /\ Len(inboundHigh) \in Nat
      /\ Len(bufferLow) \in Nat /\ Len(inboundLow) \in Nat
  BY LenProperties DEF QueueTypeOK
<1>2. /\ Ready(HighItems)' \subseteq Senders /\ Ready(LowItems)' \subseteq Senders
      /\ i \in HighItems => Ready(LowItems)' \subseteq Ready(LowItems)
      /\ i \notin HighItems => Ready(HighItems)' \subseteq Ready(HighItems)
  BY QueueAssumption DEF Ready, QueueTypeOK, Items
<1>3. /\ Cardinality(Ready(HighItems)') \in Nat /\ Cardinality(Ready(HighItems)') <= Cardinality(Senders)
      /\ Cardinality(Ready(LowItems)') \in Nat /\ Cardinality(Ready(LowItems)') <= Cardinality(Senders)
      /\ Cardinality(Senders) \in Nat
      /\ i \in HighItems => Cardinality(Ready(LowItems)') <= Cardinality(Ready(LowItems))
      /\ i \notin HighItems => Cardinality(Ready(HighItems)') <= Cardinality(Ready(HighItems))
      /\ Cardinality(Ready(LowItems)) \in Nat /\ Cardinality(Ready(HighItems)) \in Nat
  BY <1>2, ReadyType, QueueAssumption, FS_Subset, FS_CardinalityType
<1>4. UNCHANGED <<bufferHigh, bufferLow, inboundHigh, inboundLow>>
  BY DEF chans, buffers
<1>5. /\ Len(inboundHigh) <= BufferSize /\ Len(inboundLow) <= BufferSize
      /\ i \in HighItems => Len(bufferHigh) <= BufferSize
      /\ i \notin HighItems => Len(bufferLow) <= BufferSize
      /\ BufferSize \in Nat
  BY <1>1, QueueAssumption DEF AtDepth, HighAtDepth, LowAtDepth, ChannelsFit
<1> HIDE DEF QueueInv
<1>6. DepthBound
  BY DEF QueueInv
<1>7. CASE i \in HighItems
  BY <1>1, <1>3, <1>4, <1>5, <1>6, <1>7 DEF DepthBound
<1>8. CASE i \notin HighItems
  BY <1>1, <1>3, <1>4, <1>5, <1>6, <1>8 DEF DepthBound
<1> QED BY <1>7, <1>8

LEMMA InboundStep ==
  ASSUME QueueInv, NEW s \in Senders, NEW i \in Items, Inbound(s, i)  PROVE QueueInv'
<1> USE DEF QueueInv
<1>1. QueueTypeOK'
  BY DEF Inbound, QueueTypeOK, SenderState, chans, buffers, openings, choice
<1>2. OfferHolds' /\ ChannelsFit'
  BY DEF Inbound, OfferHolds, ChannelsFit, chans, buffers, choice
<1>3. CASE AtDepth(i)
  <2>1. Ready(HighItems)' = Ready(HighItems) /\ Ready(LowItems)' = Ready(LowItems)
    BY <1>3 DEF Inbound, Ready, QueueTypeOK, Out
  <2> QED BY <1>1, <1>2, <2>1 DEF Inbound, DepthBound, chans, buffers
<1>4. CASE ~AtDepth(i)
  BY <1>1, <1>2, <1>4, PassBound DEF Inbound
<1> QED BY <1>3, <1>4

LEMMA UnblockStep ==
  ASSUME QueueInv, NEW s \in Senders, Unblock(s)  PROVE QueueInv'
<1> USE DEF QueueInv
<1>1. QueueTypeOK'
  BY DEF Unblock, QueueTypeOK, SenderState, chans, buffers, openings, choice
<1>2. OfferHolds' /\ ChannelsFit'
  BY DEF Unblock, OfferHolds, ChannelsFit, chans, buffers, choice
<1>3. UNCHANGED <<chans, buffers>>
  BY DEF Unblock
<1>4. PICK i \in Items \cup {NoWork} : i = sender[s].item
  BY DEF QueueTypeOK, SenderState
<1>5. sender' = [sender EXCEPT ![s] = [at |-> "ready", item |-> i]]
  <2>1. [sender[s] EXCEPT !.at = "ready"] = [at |-> "ready", item |-> i]
    BY <1>4 DEF QueueTypeOK, SenderState
  <2>2. sender' = [sender EXCEPT ![s] = [sender[s] EXCEPT !.at = "ready"]]
    BY DEF Unblock
  <2> QED BY <2>1, <2>2
<1>6. CASE i \in Items
  BY <1>1, <1>2, <1>3, <1>4, <1>5, <1>6, PassBound DEF Unblock
<1>7. CASE i = NoWork
  <2>1. Ready(HighItems)' = Ready(HighItems) /\ Ready(LowItems)' = Ready(LowItems)
    BY <1>4, <1>5, <1>7, QueueAssumption DEF Ready, QueueTypeOK, Items
  <2> QED BY <1>1, <1>2, <1>3, <2>1 DEF DepthBound, chans, buffers
<1> QED BY <1>6, <1>7

LEMMA SendStep ==
  ASSUME QueueInv, NEW s \in Senders, Send(s)  PROVE QueueInv'
<1> USE DEF QueueInv
<1>0. /\ Len(bufferHigh) \in Nat /\ Len(inboundHigh) \in Nat
      /\ Len(bufferLow) \in Nat /\ Len(inboundLow) \in Nat
  BY LenProperties DEF QueueTypeOK
<1>1. QueueTypeOK'
  <2>1. /\ inboundHigh' \in Seq(HighItems) /\ inboundLow' \in Seq(LowItems)
    <3>1. \A i \in HighItems : Append(inboundHigh, i) \in Seq(HighItems)
      BY AppendProperties DEF QueueTypeOK
    <3>2. \A i \in LowItems : Append(inboundLow, i) \in Seq(LowItems)
      BY AppendProperties DEF QueueTypeOK
    <3> QED BY <3>1, <3>2 DEF Send, QueueTypeOK
  <2>2. sender' \in [Senders -> SenderState]
    <3>1. Out \in SenderState
      BY DEF Out, SenderState
    <3> QED BY <3>1 DEF Send, QueueTypeOK
  <2> QED BY <2>1, <2>2 DEF Send, QueueTypeOK, buffers, openings, choice
<1>2. OfferHolds'
  BY DEF Send, OfferHolds, buffers, choice
<1>3. UNCHANGED <<bufferHigh, bufferLow>>
  BY DEF Send, buffers
<1>4. CASE sender[s].item \in HighItems
  <2>1. /\ Len(inboundHigh) < BufferSize
        /\ Len(inboundHigh') = Len(inboundHigh) + 1
        /\ inboundLow' = inboundLow
    BY <1>4, AppendProperties, QueueAssumption DEF Send, QueueTypeOK
  <2>2. /\ s \in Ready(HighItems) /\ Ready(HighItems)' = Ready(HighItems) \ {s}
        /\ Ready(LowItems)' = Ready(LowItems)
    BY <1>4, QueueAssumption DEF Send, Ready, QueueTypeOK, Out
  <2>3. /\ Cardinality(Ready(HighItems)') = Cardinality(Ready(HighItems)) - 1
        /\ Cardinality(Ready(HighItems)) \in Nat /\ Cardinality(Senders) \in Nat
    BY <2>2, ReadyType, FS_RemoveElement
  <2>4. ChannelsFit'
    BY <2>1, <1>0, QueueAssumption DEF ChannelsFit
  <2>5. DepthBound'
    BY <2>1, <2>2, <2>3, <1>0, <1>3, QueueAssumption DEF DepthBound
  <2> QED BY <1>1, <1>2, <2>4, <2>5
<1>5. CASE sender[s].item \in LowItems
  <2>1. /\ Len(inboundLow) < BufferSize
        /\ Len(inboundLow') = Len(inboundLow) + 1
        /\ inboundHigh' = inboundHigh
    BY <1>5, AppendProperties, QueueAssumption DEF Send, QueueTypeOK
  <2>2. /\ s \in Ready(LowItems) /\ Ready(LowItems)' = Ready(LowItems) \ {s}
        /\ Ready(HighItems)' = Ready(HighItems)
    BY <1>5, QueueAssumption DEF Send, Ready, QueueTypeOK, Out
  <2>3. /\ Cardinality(Ready(LowItems)') = Cardinality(Ready(LowItems)) - 1
        /\ Cardinality(Ready(LowItems)) \in Nat /\ Cardinality(Senders) \in Nat
    BY <2>2, ReadyType, FS_RemoveElement
  <2>4. ChannelsFit'
    BY <2>1, <1>0, QueueAssumption DEF ChannelsFit
  <2>5. DepthBound'
    BY <2>1, <2>2, <2>3, <1>0, <1>3, QueueAssumption DEF DepthBound
  <2> QED BY <1>1, <1>2, <2>4, <2>5
<1> QED BY <1>4, <1>5 DEF Send

LEMMA PrepareStep == ASSUME QueueInv, Prepare  PROVE QueueInv'
<1> USE DEF QueueInv
<1>1. QueueTypeOK'
  BY DEF Prepare, BestOffer, QueueTypeOK, chans, buffers, openings
<1>2. OfferHolds'
  BY DEF Prepare, BestOffer, OfferHolds, buffers
<1>3. ChannelsFit' /\ DepthBound'
  BY DEF Prepare, ChannelsFit, DepthBound, Ready, chans, buffers
<1> QED BY <1>1, <1>2, <1>3

LEMMA ReceiveHighStep == ASSUME QueueInv, ReceiveHigh  PROVE QueueInv'
<1> USE DEF QueueInv
<1>0. /\ Len(bufferHigh) \in Nat /\ Len(inboundHigh) \in Nat
      /\ Len(bufferLow) \in Nat /\ Len(inboundLow) \in Nat
  BY LenProperties DEF QueueTypeOK
<1>1. CASE inboundHigh # <<>>
  <2>1. /\ bufferHigh' \in Seq(HighItems) /\ inboundHigh' \in Seq(HighItems)
        /\ Len(bufferHigh') = Len(bufferHigh) + 1 /\ Len(inboundHigh') = Len(inboundHigh) - 1
    <3>1. /\ Head(inboundHigh) \in HighItems /\ Tail(inboundHigh) \in Seq(HighItems)
          /\ Len(Tail(inboundHigh)) = Len(inboundHigh) - 1
      BY <1>1, HeadTailProperties DEF QueueTypeOK
    <3>2. /\ Append(bufferHigh, Head(inboundHigh)) \in Seq(HighItems)
          /\ Len(Append(bufferHigh, Head(inboundHigh))) = Len(bufferHigh) + 1
      BY <3>1, AppendProperties DEF QueueTypeOK
    <3> QED BY <1>1, <3>1, <3>2 DEF ReceiveHigh
  <2>2. QueueTypeOK'
    BY <1>1, <2>1 DEF ReceiveHigh, QueueTypeOK
  <2>3. OfferHolds' /\ ChannelsFit'
    BY <2>1, <1>0, QueueAssumption DEF ReceiveHigh, OfferHolds, ChannelsFit
  <2>4. Ready(HighItems)' = Ready(HighItems) /\ Ready(LowItems)' = Ready(LowItems)
    BY DEF ReceiveHigh, Ready
  <2>5. DepthBound'
    BY <2>1, <2>4, <1>0, ReadyType, QueueAssumption DEF ReceiveHigh, DepthBound
  <2> QED BY <2>2, <2>3, <2>5
<1>2. CASE inboundHigh = <<>>
  BY <1>2 DEF ReceiveHigh, QueueTypeOK, OfferHolds, ChannelsFit, DepthBound, Ready
<1> QED BY <1>1, <1>2

LEMMA ReceiveLowStep == ASSUME QueueInv, ReceiveLow  PROVE QueueInv'
<1> USE DEF QueueInv
<1>0. /\ Len(bufferHigh) \in Nat /\ Len(inboundHigh) \in Nat
      /\ Len(bufferLow) \in Nat /\ Len(inboundLow) \in Nat
  BY LenProperties DEF QueueTypeOK
<1>1. CASE inboundLow # <<>>
  <2>1. /\ bufferLow' \in Seq(LowItems) /\ inboundLow' \in Seq(LowItems)
        /\ Len(bufferLow') = Len(bufferLow) + 1 /\ Len(inboundLow') = Len(inboundLow) - 1
    <3>1. /\ Head(inboundLow) \in LowItems /\ Tail(inboundLow) \in Seq(LowItems)
          /\ Len(Tail(inboundLow)) = Len(inboundLow) - 1
      BY <1>1, HeadTailProperties DEF QueueTypeOK
    <3>2. /\ Append(bufferLow, Head(inboundLow)) \in Seq(LowItems)
          /\ Len(Append(bufferLow, Head(inboundLow))) = Len(bufferLow) + 1
      BY <3>1, AppendProperties DEF QueueTypeOK
    <3> QED BY <1>1, <3>1, <3>2 DEF ReceiveLow
  <2>2. QueueTypeOK'
    BY <1>1, <2>1 DEF ReceiveLow, QueueTypeOK
  <2>3. OfferHolds' /\ ChannelsFit'
    BY <2>1, <1>0, QueueAssumption DEF ReceiveLow, OfferHolds, ChannelsFit
  <2>4. Ready(HighItems)' = Ready(HighItems) /\ Ready(LowItems)' = Ready(LowItems)
    BY DEF ReceiveLow, Ready
  <2>5. DepthBound'
    BY <2>1, <2>4, <1>0, ReadyType, QueueAssumption DEF ReceiveLow, DepthBound
  <2> QED BY <2>2, <2>3, <2>5
<1>2. CASE inboundLow = <<>>
  BY <1>2 DEF ReceiveLow, QueueTypeOK, OfferHolds, ChannelsFit, DepthBound, Ready
<1> QED BY <1>1, <1>2

LEMMA DispatchStep ==
  ASSUME QueueInv, NEW w \in Workers, Dispatch(w)  PROVE QueueInv'
<1> USE DEF QueueInv
<1>0. /\ Len(bufferHigh) \in Nat /\ Len(inboundHigh) \in Nat
      /\ Len(bufferLow) \in Nat /\ Len(inboundLow) \in Nat
  BY LenProperties DEF QueueTypeOK
<1>1. CASE offer = "high"
  <2>1. /\ Head(bufferHigh) \in HighItems /\ Tail(bufferHigh) \in Seq(HighItems)
        /\ Len(Tail(bufferHigh)) = Len(bufferHigh) - 1
    BY <1>1, HeadTailProperties DEF Dispatch, OfferHolds, QueueTypeOK
  <2>2. /\ bufferHigh' = Tail(bufferHigh) /\ bufferLow' = bufferLow
        /\ held' = [held EXCEPT ![w] = Head(bufferHigh)]
    BY <1>1 DEF Dispatch, RemoveHead
  <2>3. QueueTypeOK'
    BY <2>1, <2>2 DEF Dispatch, QueueTypeOK, Items, chans, openings
  <2>4. OfferHolds' /\ ChannelsFit'
    BY DEF Dispatch, OfferHolds, ChannelsFit, chans
  <2>5. Ready(HighItems)' = Ready(HighItems) /\ Ready(LowItems)' = Ready(LowItems)
    BY DEF Dispatch, Ready
  <2>6. DepthBound'
    <3>1. UNCHANGED <<inboundHigh, inboundLow>>
      BY DEF Dispatch, chans
    <3>2. /\ Cardinality(Ready(HighItems)) \in Nat /\ Cardinality(Ready(LowItems)) \in Nat
          /\ Cardinality(Senders) \in Nat
      BY ReadyType
    <3> QED BY <2>1, <2>2, <2>5, <1>0, <3>1, <3>2, QueueAssumption DEF DepthBound
  <2> QED BY <2>3, <2>4, <2>6
<1>2. CASE offer = "low"
  <2>1. /\ Head(bufferLow) \in LowItems /\ Tail(bufferLow) \in Seq(LowItems)
        /\ Len(Tail(bufferLow)) = Len(bufferLow) - 1
    BY <1>2, HeadTailProperties DEF Dispatch, OfferHolds, QueueTypeOK
  <2>2. /\ bufferLow' = Tail(bufferLow) /\ bufferHigh' = bufferHigh
        /\ held' = [held EXCEPT ![w] = Head(bufferLow)]
    BY <1>2 DEF Dispatch, RemoveHead
  <2>3. QueueTypeOK'
    BY <2>1, <2>2 DEF Dispatch, QueueTypeOK, Items, chans, openings
  <2>4. OfferHolds' /\ ChannelsFit'
    BY DEF Dispatch, OfferHolds, ChannelsFit, chans
  <2>5. Ready(HighItems)' = Ready(HighItems) /\ Ready(LowItems)' = Ready(LowItems)
    BY DEF Dispatch, Ready
  <2>6. DepthBound'
    <3>1. UNCHANGED <<inboundHigh, inboundLow>>
      BY DEF Dispatch, chans
    <3>2. /\ Cardinality(Ready(HighItems)) \in Nat /\ Cardinality(Ready(LowItems)) \in Nat
          /\ Cardinality(Senders) \in Nat
      BY ReadyType
    <3> QED BY <2>1, <2>2, <2>5, <1>0, <3>1, <3>2, QueueAssumption DEF DepthBound
  <2> QED BY <2>3, <2>4, <2>6
<1> QED BY <1>1, <1>2 DEF Dispatch

LEMMA OtherSteps ==
  ASSUME QueueInv, Close \/ (\E w \in Workers : Finish(w)) \/ UNCHANGED queueVars  PROVE QueueInv'
<1> USE DEF QueueInv, QueueTypeOK, OfferHolds, ChannelsFit, DepthBound, Ready, chans, buffers, openings, choice
<1>1. CASE Close
  BY <1>1 DEF Close
<1>2. ASSUME NEW w \in Workers, Finish(w)  PROVE QueueInv'
  BY <1>2 DEF Finish
<1>3. CASE UNCHANGED queueVars
  BY <1>3 DEF queueVars
<1> QED BY <1>1, <1>2, <1>3

LEMMA QueueTypeNext == QueueInv /\ [QueueNext]_queueVars => QueueInv'
<1> SUFFICES ASSUME QueueInv, [QueueNext]_queueVars PROVE QueueInv'
  OBVIOUS
<1>1. ASSUME NEW s \in Senders, (\E i \in Items : Inbound(s, i)) \/ Unblock(s) \/ Send(s)
      PROVE  QueueInv'
  BY <1>1, InboundStep, UnblockStep, SendStep
<1>2. CASE Run
  BY <1>2, PrepareStep, ReceiveHighStep, ReceiveLowStep DEF Run
<1>3. ASSUME NEW w \in Workers, Dispatch(w)  PROVE QueueInv'
  BY <1>3, DispatchStep
<1>4. CASE Close \/ (\E w \in Workers : Finish(w)) \/ UNCHANGED queueVars
  BY <1>4, OtherSteps
<1> QED BY <1>1, <1>2, <1>3, <1>4 DEF QueueNext

\* The inductive invariant of the queue.
THEOREM QueueInvariant == QueueSpec => []QueueInv
<1> QED BY QueueTypeInit, QueueTypeNext, PTL DEF QueueSpec

\* The queue holds only work of the right kind in each channel and buffer.
THEOREM QueueTypeCorrect == QueueSpec => []QueueTypeOK
<1>1. QueueInv => QueueTypeOK
  BY DEF QueueInv
<1> QED BY <1>1, QueueInvariant, PTL

\* The queue stays within twice its configured size and one item per sender,
\* for any number of senders (blockHighAtDepth and blockLowAtDepth check the
\* depth before the send, not with it).
THEOREM QueueDepthBounded == QueueSpec => []DepthBound
<1>1. QueueInv => DepthBound
  BY DEF QueueInv
<1> QED BY <1>1, QueueInvariant, PTL

\* run() hands out low priority work only when no high priority work is
\* buffered.
THEOREM HighPriorityFirst == QueueSpec => HighFirst
<1> DEFINE A == \A w \in Workers : held[w] = NoWork /\ held'[w] \in LowItems => bufferHigh = <<>>
<1>1. QueueInv /\ [QueueNext]_queueVars => [A]_queueVars
  <2> SUFFICES ASSUME QueueInv, QueueNext, NEW w \in Workers, held[w] = NoWork, held'[w] \in LowItems
               PROVE  bufferHigh = <<>>
    OBVIOUS
  <2>1. held' # held
    BY QueueAssumption DEF Items
  <2>2. PICK v \in Workers : Dispatch(v) \/ Finish(v)
    BY <2>1 DEF QueueNext, Inbound, Unblock, Send, Close, Run, Prepare, ReceiveHigh, ReceiveLow
  <2>3. CASE Dispatch(v)
    <3>1. v = w
      BY <2>3, <2>1, QueueAssumption DEF Dispatch, QueueInv, QueueTypeOK, Items
    <3>2. offer # "high"
      <4> SUFFICES ASSUME offer = "high" PROVE FALSE
        OBVIOUS
      <4>1. bufferHigh # <<>>
        BY <2>3 DEF Dispatch, QueueInv, OfferHolds
      <4>2. Head(bufferHigh) \in HighItems
        BY <4>1, HeadTailProperties DEF QueueInv, QueueTypeOK
      <4>3. held'[w] = Head(bufferHigh)
        BY <2>3, <3>1 DEF Dispatch, QueueInv, QueueTypeOK
      <4> QED BY <4>2, <4>3, QueueAssumption
    <3> QED BY <2>3, <3>2 DEF Dispatch, QueueInv, OfferHolds
  <2>4. CASE Finish(v)
    BY <2>4, QueueAssumption DEF Finish, QueueInv, QueueTypeOK, Items
  <2> QED BY <2>2, <2>3, <2>4
<1>2. HighFirst <=> [][A]_queueVars
  BY DEF HighFirst
<1> QED BY <1>1, <1>2, QueueInvariant, PTL DEF QueueSpec

-----------------------------------------------------------------------------
(* The queue implements PriorityFifo *)

LEMMA FifoInit == QueueInit => Fifo!Init
  BY DEF QueueInit, Fifo!Init

LEMMA FifoNext == QueueInv /\ [QueueNext]_queueVars => [Fifo!Next]_(Fifo!vars)
<1> SUFFICES ASSUME QueueInv, [QueueNext]_queueVars PROVE [Fifo!Next]_(Fifo!vars)
  OBVIOUS
<1> USE DEF QueueInv
<1>1. ASSUME NEW s \in Senders, (\E i \in Items : Inbound(s, i)) \/ Unblock(s)
      PROVE  UNCHANGED Fifo!vars
  BY <1>1 DEF Inbound, Unblock, Fifo!vars, chans, buffers
<1>2. ASSUME NEW s \in Senders, Send(s)  PROVE Fifo!Put
  <2>1. CASE sender[s].item \in HighItems
    <3>1. PICK i \in HighItems : i = sender[s].item
      BY <2>1
    <3>2. inboundHigh' = Append(inboundHigh, i) /\ UNCHANGED <<inboundLow, bufferHigh, bufferLow, held>>
      BY <1>2, <2>1, <3>1, QueueAssumption DEF Send, buffers
    <3>3. bufferHigh \o Append(inboundHigh, i) = Append(bufferHigh \o inboundHigh, i)
      BY AppendAtEnd DEF QueueTypeOK
    <3> QED BY <3>2, <3>3 DEF Fifo!Put
  <2>2. CASE sender[s].item \in LowItems
    <3>1. PICK i \in LowItems : i = sender[s].item
      BY <2>2
    <3>2. inboundLow' = Append(inboundLow, i) /\ UNCHANGED <<inboundHigh, bufferHigh, bufferLow, held>>
      BY <1>2, <2>2, <3>1, QueueAssumption DEF Send, buffers
    <3>3. bufferLow \o Append(inboundLow, i) = Append(bufferLow \o inboundLow, i)
      BY AppendAtEnd DEF QueueTypeOK
    <3> QED BY <3>2, <3>3 DEF Fifo!Put
  <2> QED BY <1>2, <2>1, <2>2 DEF Send
<1>3. CASE Prepare \/ Close \/ UNCHANGED queueVars
  BY <1>3 DEF Prepare, Close, Fifo!vars, chans, buffers, queueVars
<1>4. CASE ReceiveHigh
  <2>1. bufferHigh' \o inboundHigh' = bufferHigh \o inboundHigh
    BY <1>4, MoveHead DEF ReceiveHigh, QueueTypeOK
  <2> QED BY <1>4, <2>1 DEF ReceiveHigh, Fifo!vars
<1>5. CASE ReceiveLow
  <2>1. bufferLow' \o inboundLow' = bufferLow \o inboundLow
    BY <1>5, MoveHead DEF ReceiveLow, QueueTypeOK
  <2> QED BY <1>5, <2>1 DEF ReceiveLow, Fifo!vars
<1>6. ASSUME NEW w \in Workers, Dispatch(w)  PROVE Fifo!Take(w)
  <2>1. CASE offer = "high"
    <3>1. bufferHigh # <<>>
      BY <1>6, <2>1 DEF Dispatch, OfferHolds
    <3>2. /\ bufferHigh \o inboundHigh # <<>>
          /\ Head(bufferHigh \o inboundHigh) = Head(bufferHigh)
          /\ Tail(bufferHigh \o inboundHigh) = Tail(bufferHigh) \o inboundHigh
      BY <3>1, TakeHead DEF QueueTypeOK
    <3> QED BY <1>6, <2>1, <3>2 DEF Dispatch, RemoveHead, Fifo!Take, Fifo!TakeHigh, chans
  <2>2. CASE offer = "low"
    <3>1. bufferLow # <<>>
      BY <1>6, <2>2 DEF Dispatch, OfferHolds
    <3>2. /\ bufferLow \o inboundLow # <<>>
          /\ Head(bufferLow \o inboundLow) = Head(bufferLow)
          /\ Tail(bufferLow \o inboundLow) = Tail(bufferLow) \o inboundLow
      BY <3>1, TakeHead DEF QueueTypeOK
    <3> QED BY <1>6, <2>2, <3>2 DEF Dispatch, RemoveHead, Fifo!Take, Fifo!TakeLow, chans
  <2> QED BY <1>6, <2>1, <2>2 DEF Dispatch
<1>7. ASSUME NEW w \in Workers, Finish(w)  PROVE Fifo!Finish(w)
  BY <1>7 DEF Finish, Fifo!Finish, chans, buffers
<1> QED BY <1>1, <1>2, <1>3, <1>4, <1>5, <1>6, <1>7 DEF QueueNext, Run, Fifo!Next

\* Work is never lost, repeated or reordered within its priority on its way
\* through the channels and buffers of run().
THEOREM QueueImplementsFifo == QueueSpec => FifoSpec
<1> QED BY FifoInit, FifoNext, QueueInvariant, PTL DEF QueueSpec, FifoSpec, Fifo!Spec
=============================================================================
