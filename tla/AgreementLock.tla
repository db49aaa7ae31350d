---------------------------- MODULE AgreementLock ----------------------------
(***************************************************************************)
(* The agbot's AgreementLockManager and the agreement workers that use it  *)
(* to work on one agreement id at a time.  A worker fetches the mutex of   *)
(* the id from a map, which makes one when there is none, and locks it.    *)
(* CancelAgreementWithLock takes the mutex out of the map after it has     *)
(* unlocked it, although other workers may have fetched it already: from   *)
(* then on two mutexes for one id are in use.  One agreement id is         *)
(* modelled; workers never hold the locks of two ids.                      *)
(***************************************************************************)
EXTENDS Naturals

CONSTANTS LockWorkers,     \* the agreement worker threads
          Mutexes,     \* identities of sync.Mutex values
          NoMutex,     \* no mutex: not in the map, or not held by a worker
          Free         \* the owner of a mutex nobody has locked

ASSUME LockAssumption ==
  /\ NoMutex \notin Mutexes
  /\ Free \notin LockWorkers

\* The work items that concern the agreement.  A reply that was acked goes on
\* as "finalize"; "ack" is a data received ack or an update reply.
Jobs == {"initiate", "reply", "reject", "finalize", "cancel", "ack"}

\* Where a worker is; Inside are the places at which it has the lock.
Inside == {"locked", "sent", "accepting", "recording", "deleting", "archiving", "leaving"}
Places == Inside \cup {"idle", "waiting", "cancelled", "acked"}

VARIABLES lockMap,   \* AgreementMapLocks[id]
          owner,     \* who has locked each mutex
          lockPc,        \* where each worker is
          lockJob,       \* the work item of each worker
          lock,      \* the mutex each worker has fetched
          stage,     \* the record: "none", "pending" or "replied"
          archived,  \* the record is archived
          sent,      \* the proposal was sent
          exch,      \* the agbot's agreement in the exchange
          failed     \* history: an update of the record for a cancel has failed

locks == <<lockMap, owner, lock>>
record == <<stage, archived, sent, exch, failed>>
lockVars == <<locks, lockPc, lockJob, record>>

LockTypeOK ==
  /\ lockMap \in Mutexes \cup {NoMutex}
  /\ owner \in [Mutexes -> LockWorkers \cup {Free}]
  /\ lockPc \in [LockWorkers -> Places]
  /\ lockJob \in [LockWorkers -> Jobs]
  /\ lock \in [LockWorkers -> Mutexes \cup {NoMutex}]
  /\ stage \in {"none", "pending", "replied"}
  /\ archived \in BOOLEAN
  /\ sent \in BOOLEAN
  /\ exch \in {"none", "agreed", "finalized"}
  /\ failed \in BOOLEAN

LockInit ==
  /\ lockMap = NoMutex
  /\ owner = [m \in Mutexes |-> Free]
  /\ lockPc = [w \in LockWorkers |-> "idle"]
  /\ lockJob = [w \in LockWorkers |-> "ack"]
  /\ lock = [w \in LockWorkers |-> NoMutex]
  /\ stage = "none" /\ archived = FALSE /\ sent = FALSE
  /\ exch = "none" /\ failed = FALSE

Goto(w, place) == lockPc' = [lockPc EXCEPT ![w] = place]

-----------------------------------------------------------------------------
(* The lock manager *)

\* A new mutex is none that anybody still refers to.
Fresh == {m \in Mutexes : m # lockMap /\ \A w \in LockWorkers : lock[w] # m}

\* getAgreementLock
getAgreementLock(w) ==
  /\ lockMap' \in (IF lockMap = NoMutex THEN Fresh ELSE {lockMap})
  /\ lock' = [lock EXCEPT ![w] = lockMap']
  /\ UNCHANGED owner

\* deleteAgreementLock
deleteAgreementLock == lockMap' = NoMutex /\ UNCHANGED <<owner, lock>>

\* lock.Lock() returns.
Lock(w) ==
  /\ lockPc[w] = "waiting" /\ owner[lock[w]] = Free
  /\ owner' = [owner EXCEPT ![lock[w]] = w]
  /\ Goto(w, "locked")
  /\ UNCHANGED <<lockMap, lock, lockJob, record>>

\* lock.Unlock()
Unlock(w) ==
  /\ owner' = [owner EXCEPT ![lock[w]] = Free]
  /\ lock' = [lock EXCEPT ![w] = NoMutex]
  /\ UNCHANGED lockMap

-----------------------------------------------------------------------------
(* Work items *)

Initiating == \E w \in LockWorkers : lockPc[w] # "idle" /\ lockJob[w] = "initiate"

\* Messages about the agreement, and its cancellation, come after the proposal
\* was sent.  The id of a new agreement is random: nobody else initiates it.
Arrives(j) ==
  \/ j = "initiate" /\ stage = "none" /\ ~sent /\ ~Initiating
  \/ j \in {"reply", "reject", "cancel", "ack"} /\ sent

\* A worker receives a work item and fetches the lock of the agreement.
Receive(w, j) ==
  /\ lockPc[w] = "idle" /\ Arrives(j)
  /\ getAgreementLock(w)
  /\ lockJob' = [lockJob EXCEPT ![w] = j]
  /\ Goto(w, "waiting")
  /\ UNCHANGED record

\* InitiateNewAgreement gives up before it sends the proposal; a record made
\* by AgreementAttempt is deleted.
AbandonInitiate(w) ==
  /\ lockPc[w] = "locked" /\ lockJob[w] = "initiate"
  /\ Goto(w, "leaving")
  /\ UNCHANGED <<locks, lockJob, record>>

\* InitiateNewAgreement makes the record and sends the proposal: the node may
\* answer before the worker has stored the proposal (PersistAgreement).
InitiateAgreement(w) ==
  /\ lockPc[w] = "locked" /\ lockJob[w] = "initiate"
  /\ stage' = "pending" /\ sent' = TRUE
  /\ Goto(w, "sent")
  /\ UNCHANGED <<locks, lockJob, archived, exch, failed>>

PersistAgreement(w) ==
  /\ lockPc[w] = "sent"
  /\ Goto(w, "leaving")
  /\ UNCHANGED <<locks, lockJob, record>>

\* Mutant: a cancelled agreement is not noticed.
CheckReplyAny(w) ==
  /\ lockPc[w] = "locked" /\ lockJob[w] = "reply"
  /\ Goto(w, IF stage = "pending" THEN "accepting" ELSE "leaving")
  /\ UNCHANGED <<locks, lockJob, record>>

\* HandleAgreementReply looks at the record: only the first reply for an
\* agreement that is not archived is accepted.
CheckReply(w) ==
  /\ lockPc[w] = "locked" /\ lockJob[w] = "reply"
  /\ Goto(w, IF ~archived /\ stage = "pending" THEN "accepting" ELSE "leaving")
  /\ UNCHANGED <<locks, lockJob, record>>

\* PersistReply (AgreementMade)
PersistReply(w) ==
  /\ lockPc[w] = "accepting"
  /\ stage' = "replied"
  /\ Goto(w, "recording")
  /\ UNCHANGED <<locks, lockJob, archived, sent, exch, failed>>

\* RecordConsumerAgreementState or a later check fails: the ack is negative.
RecordReplyFails(w) ==
  /\ lockPc[w] = "recording"
  /\ Goto(w, "leaving")
  /\ UNCHANGED <<locks, lockJob, record>>

\* RecordConsumerAgreementState("Producer agreed") and the positive ack, after
\* which the lock is dropped early.
RecordReply(w) ==
  /\ lockPc[w] = "recording"
  /\ exch' = "agreed"
  /\ Unlock(w)
  /\ Goto(w, "acked")
  /\ UNCHANGED <<lockJob, stage, archived, sent, failed>>

\* PostReply, and the lock is fetched again.
PostReply(w) ==
  /\ lockPc[w] = "acked"
  /\ getAgreementLock(w)
  /\ lockJob' = [lockJob EXCEPT ![w] = "finalize"]
  /\ Goto(w, "waiting")
  /\ UNCHANGED record

\* AgreementFinalized and RecordConsumerAgreementState("Finalized Agreement"),
\* whatever happened to the agreement since the reply was acked.
FinalizeAgreement(w) ==
  /\ lockPc[w] = "locked" /\ lockJob[w] = "finalize"
  /\ exch' = "finalized"
  /\ Goto(w, "leaving")
  /\ UNCHANGED <<locks, lockJob, stage, archived, sent, failed>>

\* HandleDataReceivedAck and accepted update replies: fields of the record
\* that the lock's other users do not look at.
RecordAck(w) ==
  /\ lockPc[w] = "locked" /\ lockJob[w] = "ack"
  /\ Goto(w, "leaving")
  /\ UNCHANGED <<locks, lockJob, record>>

Cancels(w) == lockJob[w] \in {"cancel", "reject"}

\* Mutant: the mutex is taken out of the map before the cancellation.
AgreementTimedoutUnmapped(w) ==
  /\ lockPc[w] = "locked" /\ Cancels(w)
  /\ lockMap' = NoMutex
  /\ Goto(w, IF archived THEN "leaving" ELSE "deleting")
  /\ UNCHANGED <<owner, lock, lockJob, record>>

\* CancelAgreement starts with AgreementTimedout, which also tells whether the
\* record is archived already.
AgreementTimedout(w) ==
  /\ lockPc[w] = "locked" /\ Cancels(w)
  /\ Goto(w, IF archived THEN "leaving" ELSE "deleting")
  /\ UNCHANGED <<locks, lockJob, record>>

\* Mutant: a cancel that failed is tried again.
CancelFailsRetried(w) ==
  /\ lockPc[w] = "locked" /\ Cancels(w)
  /\ failed' = TRUE
  /\ owner' = [owner EXCEPT ![lock[w]] = Free]
  /\ Goto(w, "waiting")
  /\ UNCHANGED <<lockMap, lock, lockJob, stage, archived, sent, exch>>

\* AgreementTimedout fails, and nothing is cancelled.
CancelFails(w) ==
  /\ lockPc[w] = "locked" /\ Cancels(w)
  /\ failed' = TRUE
  /\ Goto(w, "leaving")
  /\ UNCHANGED <<locks, lockJob, stage, archived, sent, exch>>

\* DeleteConsumerAgreement and TerminateAgreement
DeleteConsumerAgreement(w) ==
  /\ lockPc[w] = "deleting"
  /\ exch' = "none"
  /\ Goto(w, "archiving")
  /\ UNCHANGED <<locks, lockJob, stage, archived, sent, failed>>

\* ArchiveAgreement, which may fail.
ArchiveAgreement(w) ==
  /\ lockPc[w] = "archiving"
  /\ \/ archived' = TRUE /\ UNCHANGED failed
     \/ failed' = TRUE /\ UNCHANGED archived
  /\ Goto(w, "leaving")
  /\ UNCHANGED <<locks, lockJob, stage, sent, exch>>

\* The end of a critical section.
Leave(w) ==
  /\ lockPc[w] = "leaving"
  /\ Unlock(w)
  /\ Goto(w, IF lockJob[w] = "cancel" THEN "cancelled" ELSE "idle")
  /\ UNCHANGED <<lockJob, record>>

\* CancelAgreementWithLock: "Don't need the agreement lock anymore".
DeleteLock(w) ==
  /\ lockPc[w] = "cancelled"
  /\ deleteAgreementLock
  /\ Goto(w, "idle")
  /\ UNCHANGED <<lockJob, record>>

Step(w) ==
  \/ AbandonInitiate(w) \/ InitiateAgreement(w) \/ PersistAgreement(w)
  \/ CheckReply(w) \/ PersistReply(w) \/ RecordReplyFails(w) \/ RecordReply(w)
  \/ PostReply(w) \/ FinalizeAgreement(w) \/ RecordAck(w)
  \/ AgreementTimedout(w) \/ CancelFails(w) \/ DeleteConsumerAgreement(w) \/ ArchiveAgreement(w)
  \/ Leave(w) \/ DeleteLock(w)

LockNext == \E w \in LockWorkers : (\E j \in Jobs : Receive(w, j)) \/ Lock(w) \/ Step(w)

LockSpec == LockInit /\ [][LockNext]_lockVars

\* A worker that has a work item goes on, and a sync.Mutex does not starve the
\* goroutines that wait for it.
LockFairness == \A w \in LockWorkers : WF_lockVars(Step(w)) /\ SF_lockVars(Lock(w))

LockFairSpec == LockSpec /\ LockFairness

-----------------------------------------------------------------------------
(* Properties *)

\* "Get the agreement id lock to prevent any other thread from processing this
\* same agreement."
MutualExclusion ==
  \A v, w \in LockWorkers : lockPc[v] \in Inside /\ lockPc[w] \in Inside => v = w

\* While the agreement is not archived, the lock does what it is for: a worker
\* that fetched the mutex before a cancel took it out of the map meets nobody
\* with the other mutex.  A cancel that failed deletes the mutex all the same, so
\* this is promised only until an update fails.
ExclusiveWhileOpen == ~archived /\ ~failed => MutualExclusion

\* FinalizeAgreement looks at nothing after its wait for the lock.
LateFinalize ==
  exch' = "finalized" /\ \E w \in LockWorkers : lockPc[w] = "locked" /\ lockJob[w] = "finalize"

\* An agreement that was archived stays archived, and unless an update failed nothing that was
\* checked before the cancel is written after it: no reply is stored, and the agreement does not
\* come back to the exchange nor leaves it once more.  The exception is a write of the code: a worker
\* that acked the reply and waited for the lock while the agreement was cancelled still finalizes it,
\* and puts it back in the exchange.
NotRevived ==
  [][archived /\ ~failed => archived' /\ stage' = stage /\ (exch' # exch => LateFinalize)]_lockVars

\* Every work item is finished, although the mutexes for the agreement change
\* and updates fail: no worker waits for a mutex that is never unlocked.
WorkEnds == \A w \in LockWorkers : lockPc[w] = "waiting" ~> lockPc[w] = "idle"
=============================================================================
