----------------------------- MODULE AgentProofs -----------------------------
(***************************************************************************)
(* Proofs about the parts of the agent: the change feed, node management   *)
(* policies, the node policy and the user input that the exchange and the  *)
(* agent both hold, the secrets of its services, and registration.         *)
(***************************************************************************)
EXTENDS NodeConfig, NodeSync, NodeManagement, AgentSecrets, ChangeFeed, FiniteSetTheorems,
        WellFoundedInduction, TLAPS

-----------------------------------------------------------------------------
(* The change feed and the messages.                                         *)

\* The log and the positions in it are well formed.
PositionOK ==
  /\ log \in Seq(ChangeTypes) /\ fetching \in BOOLEAN /\ dropped \in BOOLEAN /\ onBus \subseteq Heard
  /\ changeId \in 0 .. Len(log) + 1 /\ savedId \in 0 .. Len(log) + 1

\* A change says that there is a message, and it will be read also after a restart.
StillInLog == "message" \in From(changeId) /\ (changeId = 0 \/ "message" \in From(savedId))
\* The inductive invariant of the messages.
FeedInv == PositionOK /\ (Unseen /\ ~dropped => onBus # {} \/ fetching \/ StillInLog)

\* A place the worker may go to: positions in the log, and no message overlooked there.
PlaceOK(s) ==
  /\ s = [id |-> s.id, saved |-> s.saved, bus |-> s.bus, dropped |-> s.dropped]
  /\ s.id \in 0 .. Len(log) + 1 /\ s.saved \in 0 .. Len(log) + 1 /\ s.dropped \in BOOLEAN
  /\ (Unseen /\ ~s.dropped =>
       \/ s.bus \cap Heard # {} \/ fetching
       \/ "message" \in From(s.id) /\ (s.id = 0 \/ "message" \in From(s.saved)))

\* What is yet to be read stays to be read when the log grows, and what is appended is
\* among it.
LEMMA AppendedIsNews ==
  ASSUME PositionOK, NEW t \in ChangeTypes, LogChange(t), NEW i \in 0 .. Len(log) + 1
  PROVE  /\ PositionOK' /\ t \in From(i)' /\ From(i) \subseteq From(i)'
<1>1. /\ log' = Append(log, t) /\ changeId' = changeId /\ savedId' = savedId /\ fetching' = fetching
      /\ dropped' = dropped /\ onBus' = onBus
  BY DEF LogChange, posVars
<1>2. /\ log' \in Seq(ChangeTypes) /\ Len(log') = Len(log) + 1
      /\ log'[Len(log) + 1] = t /\ \A j \in 1 .. Len(log) : log'[j] = log[j]
  BY <1>1 DEF PositionOK
<1>3. DOMAIN log = 1 .. Len(log) /\ DOMAIN log' = 1 .. Len(log) + 1 /\ Len(log) \in Nat
  BY <1>2 DEF PositionOK
<1>4. PositionOK'
  BY <1>1, <1>2, <1>3 DEF PositionOK
<1>5. t \in From(i)'
  BY <1>1, <1>2, <1>3 DEF From
<1>6. From(i) \subseteq From(i)'
  BY <1>1, <1>2, <1>3 DEF From
<1> QED BY <1>4, <1>5, <1>6

\* Reading a batch leaves of what was yet to be read only what the batch did not hold,
\* and position 0 holds everything.
LEMMA BatchIsRead ==
  ASSUME PositionOK, NEW i \in 0 .. Len(log) + 1
  PROVE  /\ AfterBatch(i) \in 0 .. Len(log) + 1
         /\ From(i) = {log[j] : j \in Batch(i)} \cup From(AfterBatch(i))
         /\ From(i) \subseteq From(0)
<1>1. /\ Len(log) \in Nat /\ DOMAIN log = 1 .. Len(log) /\ MaxRecords \in Nat /\ MaxRecords > 0
  BY FeedAssumption DEF PositionOK
<1>2. AfterBatch(i) \in 0 .. Len(log) + 1
  BY <1>1 DEF AfterBatch
<1>3. \A k \in DOMAIN log : k >= i <=> (k >= i /\ k < i + MaxRecords) \/ k >= AfterBatch(i)
  BY <1>1 DEF AfterBatch
<1>4. From(i) = {log[j] : j \in Batch(i)} \cup From(AfterBatch(i))
  BY <1>3 DEF From, Batch
<1>5. From(i) \subseteq From(0)
  BY <1>1 DEF From
<1> QED BY <1>2, <1>4, <1>5

LEMMA HereIsOK == FeedInv => PlaceOK(Here)
<1> SUFFICES ASSUME FeedInv PROVE PlaceOK(Here)
  OBVIOUS
<1>1. onBus \cap Heard = onBus
  BY DEF FeedInv, PositionOK
<1>2. Here.id = changeId /\ Here.saved = savedId /\ Here.bus = onBus /\ Here.dropped = dropped
  BY DEF Here
<1>3. Here = [id |-> Here.id, saved |-> Here.saved, bus |-> Here.bus, dropped |-> Here.dropped]
  BY DEF Here
<1> QED BY <1>1, <1>2, <1>3 DEF FeedInv, PositionOK, PlaceOK, StillInLog

LEMMA NewestIsOK ==
  ASSUME PositionOK, NEW s, PlaceOK(s), NEW o \in GetChangeId(s)
  PROVE  PlaceOK(o.at)
<1>1. "message" \in Supported \cap Heard
  BY FeedAssumption DEF Supported, Heard
<1>2. Len(log) \in 0 .. Len(log) + 1
  BY DEF PositionOK
<1>3. CASE o.at = s
  BY <1>3
<1>4. CASE o.at = [s EXCEPT !.id = Len(log), !.dropped = TRUE]
  <2>1. o.at = [id |-> Len(log), saved |-> s.saved, bus |-> s.bus, dropped |-> TRUE]
    BY <1>4 DEF PlaceOK
  <2> QED BY <1>2, <2>1 DEF PlaceOK
<1>5. CASE o.at = [s EXCEPT !.id = Len(log), !.saved = Len(log), !.bus = @ \cup Supported]
  <2>1. o.at = [id |-> Len(log), saved |-> Len(log), bus |-> s.bus \cup Supported, dropped |-> s.dropped]
    BY <1>5 DEF PlaceOK
  <2>2. o.at.bus \cap Heard # {}
    BY <1>1, <2>1
  <2> QED BY <1>2, <2>1, <2>2 DEF PlaceOK
<1> QED BY <1>3, <1>4, <1>5 DEF GetChangeId

LEMMA GoToKeeps ==
  ASSUME PositionOK, NEW s, PlaceOK(s), GoTo(s), UNCHANGED <<log, mailbox, fetching>>
  PROVE  FeedInv'
<1>1. onBus' = s.bus \cap Heard /\ changeId' = s.id /\ savedId' = s.saved /\ dropped' = s.dropped
  BY DEF GoTo
<1>2. PositionOK'
  BY <1>1 DEF PositionOK, PlaceOK
<1>3. Unseen' = Unseen /\ From(changeId)' = From(s.id) /\ From(savedId)' = From(s.saved)
  BY <1>1 DEF Unseen, From
<1> QED BY <1>1, <1>2, <1>3 DEF FeedInv, PlaceOK, StillInLog

LEMMA MoreOnBusIsOK ==
  ASSUME NEW s, PlaceOK(s), NEW B
  PROVE  PlaceOK([s EXCEPT !.bus = @ \cup B])
<1>1. [s EXCEPT !.bus = @ \cup B] = [id |-> s.id, saved |-> s.saved, bus |-> s.bus \cup B, dropped |-> s.dropped]
  <2>1. \A b : [s EXCEPT !.bus = b] = [id |-> s.id, saved |-> s.saved, bus |-> b, dropped |-> s.dropped]
    BY DEF PlaceOK
  <2> QED BY <2>1
<1> QED BY <1>1 DEF PlaceOK

LEMMA PlaceIsRecord ==
  ASSUME NEW s, PlaceOK(s), NEW i, NEW b
  PROVE  [s EXCEPT !.id = i, !.bus = b] = [id |-> i, saved |-> s.saved, bus |-> b, dropped |-> s.dropped]
<1>1. PICK i0, v, b0, d : s = [id |-> i0, saved |-> v, bus |-> b0, dropped |-> d]
  BY DEF PlaceOK
<1>2. s.saved = v /\ s.dropped = d
  BY <1>1
<1>3. [s EXCEPT !.id = i] = [id |-> i, saved |-> v, bus |-> b0, dropped |-> d]
  BY <1>1
<1>4. [s EXCEPT !.id = i, !.bus = b] = [[s EXCEPT !.id = i] EXCEPT !.bus = b]
  OBVIOUS
<1>5. [[id |-> i, saved |-> v, bus |-> b0, dropped |-> d] EXCEPT !.bus = b]
      = [id |-> i, saved |-> v, bus |-> b, dropped |-> d]
  OBVIOUS
<1> QED BY <1>2, <1>3, <1>4, <1>5, Zenon

LEMMA PollGoesToOK ==
  ASSUME PositionOK, NEW s, PlaceOK(s), s.id # 0, NEW p, FailedPoll(p, s) \/ SuccessfulPoll(p, s)
  PROVE  \E t : PlaceOK(t) /\ GoTo(t)
<1>1. CASE FailedPoll(p, s)
  <2>1. CASE GoTo([s EXCEPT !.bus = @ \cup {"unconfigure"}])
    BY <2>1, MoreOnBusIsOK
  <2>2. ASSUME NEW late \in BOOLEAN,
               GoTo([s EXCEPT !.bus = IF late /\ ~heartBeatFailed THEN @ \cup {"failed"} ELSE @])
        PROVE  \E t : PlaceOK(t) /\ GoTo(t)
    <3>1. CASE late /\ ~heartBeatFailed
      <4>1. GoTo([s EXCEPT !.bus = @ \cup {"failed"}])
        BY <2>2, <3>1
      <4> QED BY <4>1, MoreOnBusIsOK
    <3>2. CASE ~(late /\ ~heartBeatFailed)
      <4>1. [s EXCEPT !.bus = s.bus] = s
        BY DEF PlaceOK
      <4>2. GoTo(s)
        BY <2>2, <3>2, <4>1
      <4> QED BY <4>2
    <3> QED BY <3>1, <3>2
  <2> QED BY <1>1, <2>1, <2>2 DEF FailedPoll
<1>2. CASE SuccessfulPoll(p, s)
  <2> DEFINE batch == Batch(s.id)
             told == {log[j] : j \in batch} \cap Supported
             B == told \cup (IF heartBeatFailed THEN {"restored"} ELSE {})
             next == [s EXCEPT !.id = IF batch = {} THEN @ ELSE AfterBatch(s.id),
                               !.bus = @ \cup told \cup (IF heartBeatFailed THEN {"restored"} ELSE {})]
  <2>1. \E saved \in IF batch = {} THEN {next} ELSE SavePosition(next, next.id) : GoTo(saved)
    BY <1>2 DEF SuccessfulPoll
  <2> DEFINE id == IF batch = {} THEN s.id ELSE AfterBatch(s.id)
  <2>2. next = [id |-> id, saved |-> s.saved, bus |-> s.bus \cup B, dropped |-> s.dropped]
    <3>2. s.bus \cup told \cup (IF heartBeatFailed THEN {"restored"} ELSE {}) = s.bus \cup B
      OBVIOUS
    <3>3. next = [s EXCEPT !.id = id, !.bus = s.bus \cup B]
      BY <3>2, Zenon
    <3> HIDE DEF id, B, next
    <3> QED BY <3>3, PlaceIsRecord
  <2>3. id \in 0 .. Len(log) + 1 /\ s.id \in 0 .. Len(log) + 1 /\ s.saved \in 0 .. Len(log) + 1
    BY BatchIsRead DEF PlaceOK
  <2>4. "message" \in From(s.id) => "message" \in told \/ "message" \in From(id)
    <3>1. "message" \in Supported
      BY FeedAssumption DEF Supported
    <3>2. From(s.id) = {log[j] : j \in batch} \cup From(AfterBatch(s.id))
      BY <2>3, BatchIsRead
    <3> QED BY <3>1, <3>2
  <2>5. "message" \in told => (s.bus \cup B) \cap Heard # {}
    BY DEF Heard
  <2>6. s.bus \cap Heard # {} => (s.bus \cup B) \cap Heard # {}
    OBVIOUS
  <2>7. s.dropped \in BOOLEAN
    BY DEF PlaceOK
  <2>8. Unseen /\ ~s.dropped =>
          \/ (s.bus \cup B) \cap Heard # {} \/ fetching
          \/ "message" \in From(id) /\ "message" \in From(s.saved)
    BY <2>4, <2>5, <2>6 DEF PlaceOK
  <2> HIDE DEF id, B, batch, told
  <2>9. ASSUME NEW n \in {s.saved, id}
        PROVE  PlaceOK([id |-> id, saved |-> n, bus |-> s.bus \cup B, dropped |-> s.dropped])
    BY <2>3, <2>7, <2>8, <2>9 DEF PlaceOK
  <2>10. \A t \in {next} \cup SavePosition(next, next.id) :
           \E n \in {s.saved, id} : t = [id |-> id, saved |-> n, bus |-> s.bus \cup B, dropped |-> s.dropped]
    <3> HIDE DEF next
    <3> QED BY <2>2 DEF SavePosition
  <2> QED BY <2>1, <2>9, <2>10
<1> QED BY <1>1, <1>2

LEMMA FindGoesToOK ==
  ASSUME FeedInv, NEW p, FindAndProcessChanges(p)
  PROVE  \E t : PlaceOK(t) /\ GoTo(t)
<1>0. PositionOK /\ PlaceOK(Here) /\ Here.id = changeId
  BY HereIsOK DEF FeedInv, Here
<1>1. CASE changeId # 0 /\ (FailedPoll(p, Here) \/ SuccessfulPoll(p, Here))
  BY <1>0, <1>1, PollGoesToOK
<1>2. ASSUME NEW o \in GetChangeId(Here), o.at.id # 0, FailedPoll(p, o.at) \/ SuccessfulPoll(p, o.at)
      PROVE  \E t : PlaceOK(t) /\ GoTo(t)
  <2>1. PlaceOK(o.at)
    BY <1>0, NewestIsOK
  <2> QED BY <1>0, <1>2, <2>1, PollGoesToOK
<1>3. ASSUME NEW o \in GetChangeId(Here), GoTo(o.at)
      PROVE  \E t : PlaceOK(t) /\ GoTo(t)
  BY <1>0, <1>3, NewestIsOK
<1> QED BY <1>1, <1>2, <1>3 DEF FindAndProcessChanges

\* Where the worker is when the agent starts again.
LEMMA StopIsOK ==
  ASSUME FeedInv, NEW id \in {0, savedId}, NEW v \in {id, savedId}, id = 0 \/ v = id
  PROVE  /\ Stop(id, v) = [id |-> id, saved |-> v, bus |-> {}, dropped |-> dropped \/ Forgotten(id)]
         /\ Unseen /\ ~(dropped \/ Forgotten(id)) => "message" \in From(id) /\ (id = 0 \/ "message" \in From(v))
<1>1. changeId \in 0 .. Len(log) + 1 /\ savedId \in 0 .. Len(log) + 1 /\ PositionOK
  BY DEF FeedInv, PositionOK
<1>2. From(changeId) \subseteq From(0) /\ From(savedId) \subseteq From(0)
  BY <1>1, BatchIsRead
<1>3. ASSUME Unseen, ~dropped, ~Forgotten(id) PROVE "message" \in From(id)
  BY <1>2, <1>3 DEF FeedInv, StillInLog, Forgotten
<1> QED BY <1>3 DEF Stop

LEMMA RestartKeeps ==
  ASSUME FeedInv, NEW s, NEW id \in {0, savedId}, NEW v \in {id, savedId}, id = 0 \/ v = id,
         s = Stop(id, v), UNCHANGED <<log, mailbox>>, fetching' = FALSE,
         GoTo(s) \/ \E o \in GetChangeId(s) : GoTo(o.at)
  PROVE  FeedInv'
<1>1. /\ s = [id |-> id, saved |-> v, bus |-> {}, dropped |-> dropped \/ Forgotten(id)]
      /\ Unseen /\ ~s.dropped => "message" \in From(id) /\ (id = 0 \/ "message" \in From(v))
  <2> DEFINE lost == dropped \/ Forgotten(id)
  <2>1. s = [id |-> id, saved |-> v, bus |-> {}, dropped |-> lost]
    BY StopIsOK
  <2>2. Unseen /\ ~lost => "message" \in From(id) /\ (id = 0 \/ "message" \in From(v))
    BY StopIsOK
  <2> HIDE DEF lost
  <2>3. s.dropped = lost
    BY <2>1
  <2>4. ~s.dropped => ~lost
    BY <2>3
  <2>5. Unseen /\ ~s.dropped => "message" \in From(id) /\ (id = 0 \/ "message" \in From(v))
    BY <2>2, <2>4
  <2> QED BY <2>1, <2>5 DEF lost
<1>2. PositionOK /\ id \in 0 .. Len(log) + 1 /\ v \in 0 .. Len(log) + 1 /\ Len(log) \in 0 .. Len(log) + 1
  BY DEF FeedInv, PositionOK
<1>3. s.id = id /\ s.saved = v /\ s.bus = {} /\ s.dropped \in BOOLEAN
  <2>1. (dropped \/ Forgotten(id)) \in BOOLEAN
    BY Zenon DEF Forgotten
  <2> QED BY <1>1, <2>1
<1>4. Unseen' = Unseen /\ \A i : From(i)' = From(i)
  BY DEF Unseen, From
<1>5. CASE GoTo(s)
  <2>1. changeId' = id /\ savedId' = v /\ onBus' = {} /\ dropped' = s.dropped
    BY <1>3, <1>5 DEF GoTo
  <2>2. PositionOK'
    BY <1>2, <1>3, <2>1 DEF PositionOK
  <2>3. From(changeId)' = From(id) /\ From(savedId)' = From(v)
    BY <2>1 DEF From
  <2> QED BY <1>1, <1>4, <2>1, <2>2, <2>3 DEF FeedInv, StillInLog
<1>6. ASSUME NEW o \in GetChangeId(s), GoTo(o.at) PROVE FeedInv'
  <2>1. CASE o.at = s
    BY <1>5, <1>6, <2>1
  <2>2. CASE o.at = [s EXCEPT !.id = Len(log), !.dropped = TRUE]
    <3>1. o.at.dropped = TRUE /\ o.at.id = Len(log) /\ o.at.saved = v /\ o.at.bus = {}
      BY <1>1, <2>2
    <3>2. changeId' = Len(log) /\ savedId' = v /\ onBus' = {} /\ dropped' = TRUE
      BY <1>6, <3>1 DEF GoTo
    <3> QED BY <1>2, <3>2 DEF FeedInv, PositionOK
  <2>3. CASE o.at = [s EXCEPT !.id = Len(log), !.saved = Len(log), !.bus = @ \cup Supported]
    <3>1. o.at.dropped = s.dropped /\ o.at.id = Len(log) /\ o.at.saved = Len(log) /\ Supported \subseteq o.at.bus
      BY <1>1, <2>3
    <3>2. changeId' = Len(log) /\ savedId' = Len(log) /\ onBus' = o.at.bus \cap Heard /\ dropped' = s.dropped
      BY <1>6, <3>1 DEF GoTo
    <3>3. "message" \in onBus'
      BY <3>1, <3>2, FeedAssumption DEF Supported, Heard
    <3> QED BY <1>2, <1>3, <3>2, <3>3 DEF FeedInv, PositionOK
  <2> QED BY <2>1, <2>2, <2>3 DEF GetChangeId
<1> QED BY <1>5, <1>6

LEMMA FeedInvStep == FeedInv /\ [FeedNext]_feedVars => FeedInv'
<1> SUFFICES ASSUME FeedInv, [FeedNext]_feedVars PROVE FeedInv'
  OBVIOUS
<1>0. {"message", "node", "org"} \subseteq ChangeTypes /\ PositionOK
  BY FeedAssumption DEF FeedInv
<1>1. ASSUME NEW t \in ChangeTypes, LogChange(t), t = "message" \/ mailbox' = mailbox
      PROVE  FeedInv'
  <2>0. changeId \in 0 .. Len(log) + 1 /\ savedId \in 0 .. Len(log) + 1
    BY <1>0 DEF PositionOK
  <2>1. onBus' = onBus /\ fetching' = fetching /\ dropped' = dropped /\ changeId' = changeId /\ savedId' = savedId
    BY <1>1 DEF LogChange, posVars
  <2>2. PositionOK'
    BY <1>0, <1>1, <2>0, AppendedIsNews
  <2>3. ASSUME NEW i \in {changeId, savedId} PROVE t \in From(i)' /\ From(i) \subseteq From(i)'
    BY <1>0, <1>1, <2>0, AppendedIsNews
  <2>4. /\ t \in From(changeId)' /\ From(changeId) \subseteq From(changeId)'
        /\ t \in From(savedId)' /\ From(savedId) \subseteq From(savedId)'
    BY <2>1, <2>3 DEF From
  <2>5. CASE t = "message"
    BY <2>2, <2>4, <2>5 DEF FeedInv, StillInLog
  <2>6. CASE mailbox' = mailbox
    BY <2>1, <2>2, <2>4, <2>6 DEF FeedInv, StillInLog, Unseen
  <2> QED BY <1>1, <2>5, <2>6
<1>2. CASE \E good \in BOOLEAN : SendMessage(good)
  BY <1>0, <1>1, <1>2 DEF SendMessage
<1>3. CASE EditNodeConfig \/ EditOrgConfig \/ \E t \in ChangeTypes : OtherChange(t)
  BY <1>0, <1>1, <1>3 DEF EditNodeConfig, EditOrgConfig, OtherChange
<1>4. CASE RemoveMessage
  <2>1. mailbox' \subseteq mailbox /\ UNCHANGED <<log, changeId, savedId, onBus, dropped, fetching>>
    BY <1>4 DEF RemoveMessage, posVars
  <2>2. Unseen' => Unseen
    BY <2>1 DEF Unseen
  <2> QED BY <2>1, <2>2 DEF FeedInv, PositionOK, StillInLog, From
<1>5. CASE Register
  <2>1. PICK o \in GetChangeId(Here) : GoTo(o.at)
    BY <1>5 DEF Register
  <2>2. PlaceOK(o.at)
    BY <1>0, HereIsOK, NewestIsOK
  <2> QED BY <1>0, <1>5, <2>1, <2>2, GoToKeeps DEF Register, exchVars
<1>6. CASE NoWork
  <2>1. PICK t : PlaceOK(t) /\ GoTo(t)
    BY <1>6, FindGoesToOK DEF NoWork
  <2> QED BY <1>0, <1>6, <2>1, GoToKeeps DEF NoWork, exchVars
<1>7. CASE UpdateInterval
  <2>1. UNCHANGED <<log, mailbox, fetching>>
    BY <1>7 DEF UpdateInterval, exchVars
  <2>2. CASE UNCHANGED posVars
    BY <2>1, <2>2 DEF FeedInv, PositionOK, StillInLog, From, Unseen, posVars
  <2>3. ASSUME NEW p, FindAndProcessChanges(p) PROVE FeedInv'
    <3>1. PICK t : PlaceOK(t) /\ GoTo(t)
      BY <2>3, FindGoesToOK
    <3> QED BY <1>0, <2>1, <3>1, GoToKeeps
  <2> QED BY <1>7, <2>2, <2>3 DEF UpdateInterval, posVars
<1>8. CASE RestartAgent
  <2>1. fetching' = FALSE /\ UNCHANGED <<log, mailbox>>
    BY <1>8 DEF RestartAgent, StopWorkers, exchVars
  <2>2. PICK id \in {savedId, 0} :
          \E o \in IF id = 0 /\ hasToken THEN GetChangeId(Stop(id, savedId))
                   ELSE {[ok |-> TRUE, at |-> Stop(id, savedId)]} : GoTo(o.at)
    BY <1>8 DEF RestartAgent
  <2>3. GoTo(Stop(id, savedId)) \/ \E o \in GetChangeId(Stop(id, savedId)) : GoTo(o.at)
    BY <2>2
  <2> QED BY <2>1, <2>2, <2>3, RestartKeeps
<1>9. CASE Unconfigure
  <2>1. fetching' = FALSE /\ UNCHANGED <<log, mailbox>>
    BY <1>9 DEF Unconfigure, StopWorkers, exchVars
  <2>2. PICK id \in {savedId, 0} : GoTo(Stop(id, id))
    BY <1>9 DEF Unconfigure
  <2> QED BY <2>1, <2>2, RestartKeeps
<1>10. CASE TakeEvent
  BY <1>10 DEF TakeEvent, exchVars, FeedInv, PositionOK
<1>11. CASE HandleMessages
  <2>1. ~Unseen'
    BY <1>11 DEF HandleMessages, LeftInMailbox, Unseen
  <2>2. PositionOK'
    BY <1>11 DEF HandleMessages, FeedInv, PositionOK
  <2> QED BY <2>1, <2>2 DEF FeedInv
<1>12. CASE AgreementMade \/ UNCHANGED feedVars
  <2>1. UNCHANGED <<log, mailbox, changeId, savedId, onBus, fetching, dropped>>
    BY <1>12 DEF AgreementMade, feedVars, exchVars, posVars
  <2> QED BY <2>1 DEF FeedInv, PositionOK, StillInLog, From, Unseen
<1> QED BY <1>2, <1>3, <1>4, <1>5, <1>6, <1>7, <1>8, <1>9, <1>10, <1>11, <1>12 DEF FeedNext

\* A message that reached the exchange for the node is never overlooked, whatever the
\* order of changes, polls, failed calls, failed writes, restarts and registrations, for
\* any kinds of change and any number of records at once, unless a notice about it was
\* lost when the agent stopped or could not save its first position
\* (findAndProcessChanges, getChangeId, handleMessages).
THEOREM MessagesAreFetched == FeedSpec => []NoMessageOverlooked
<1>1. FeedInit => FeedInv
  <2> SUFFICES ASSUME FeedInit PROVE FeedInv
    OBVIOUS
  <2>1. log = <<>> /\ mailbox = {} /\ fetching = FALSE /\ dropped = FALSE /\ changeId = 0 /\ savedId = 0 /\ onBus = {}
    BY DEF FeedInit
  <2>2. log \in Seq(ChangeTypes) /\ Len(log) = 0
    BY <2>1
  <2>3. changeId \in 0 .. Len(log) + 1 /\ savedId \in 0 .. Len(log) + 1
    BY <2>1, <2>2
  <2>4. fetching \in BOOLEAN /\ dropped \in BOOLEAN /\ onBus \subseteq Heard
    BY <2>1, Zenon
  <2>5. ~Unseen
    BY <2>1 DEF Unseen
  <2> QED BY <2>2, <2>3, <2>4, <2>5 DEF FeedInv, PositionOK
<1>2. FeedInv => NoMessageOverlooked
  BY DEF FeedInv, NoMessageOverlooked, MessagesAwaited, StillInLog
<1> QED BY <1>1, <1>2, FeedInvStep, PTL DEF FeedSpec

-----------------------------------------------------------------------------
(* The polling interval.                                                     *)

PollRecord == [interval : Nat \ {0}, min : Nat \ {0}, max : Nat \ {0}, increment : Nat,
               restored : Nat, quiet : Nat, torn : BOOLEAN]
\* A polling interval that may be in force.
Sound(p) == p.min <= p.max /\ p.interval <= p.max /\ p.restored <= p.max
PollOK(p) == p \in PollRecord /\ (~p.torn => Sound(p))
\* The inductive invariant: also the interval that comes back after an outage is within
\* the maximum, since no new maximum is taken while the heartbeat fails.
PollInv ==
  /\ PollOK(poll) /\ (~hasToken => poll.restored = 0)
  /\ nodeCfg \in [min : Nat, max : Nat, increment : Nat]
  /\ orgCfg \in [min : Nat, max : Nat, increment : Nat]

LEMMA ResetIsOK ==
  ASSUME NEW p, PollOK(p)
  PROVE  PollOK(PollReset(p)) /\ PollReset(p).restored = p.restored
<1> DEFINE q == PollReset(p)
<1>0. p \in PollRecord /\ q = [p EXCEPT !.interval = p.min, !.quiet = 0]
  BY DEF PollReset, PollOK
<1> HIDE DEF q
<1>1. q = [interval |-> p.min, min |-> p.min, max |-> p.max, increment |-> p.increment,
           restored |-> p.restored, quiet |-> 0, torn |-> p.torn]
  BY <1>0 DEF PollRecord
<1>2. q \in PollRecord /\ q.restored = p.restored
  BY <1>1 DEF PollOK, PollRecord
<1>3. Sound(p) => Sound(q)
  BY <1>1 DEF PollOK, PollRecord, Sound
<1>4. q.torn = p.torn
  BY <1>1
<1> QED BY <1>2, <1>3, <1>4 DEF PollOK, q

\* A worker that starts does so at the minimum, whatever its interval was.
LEMMA StartIsOK ==
  ASSUME NEW p \in PollRecord, ~p.torn => p.min <= p.max, p.restored = 0
  PROVE  PollOK(PollReset(p)) /\ PollReset(p).restored = 0
<1> DEFINE q == PollReset(p)
<1>0. q = [p EXCEPT !.interval = p.min, !.quiet = 0]
  BY DEF PollReset
<1> HIDE DEF q
<1>1. q = [interval |-> p.min, min |-> p.min, max |-> p.max, increment |-> p.increment,
           restored |-> 0, quiet |-> 0, torn |-> p.torn]
  BY <1>0 DEF PollRecord
<1>2. q \in PollRecord /\ q.restored = 0
  BY <1>1 DEF PollRecord
<1>3. p.min <= p.max => Sound(q)
  BY <1>1 DEF PollRecord, Sound
<1>4. q.torn = p.torn
  BY <1>1
<1> QED BY <1>2, <1>3, <1>4 DEF PollOK, q

LEMMA AlertIsOK ==
  ASSUME NEW p, PollOK(p)
  PROVE  PollOK(PollAlert(p)) /\ PollAlert(p).restored = p.restored
<1> DEFINE q == PollAlert(p)
           mid == (p.min + p.max) \div 2
           i == IF p.interval > mid THEN mid ELSE p.interval
<1>0. p \in PollRecord /\ p.min \in Nat \ {0} /\ p.max \in Nat \ {0} /\ p.interval \in Nat \ {0}
  BY DEF PollOK, PollRecord
<1>1. mid \in Nat /\ mid > 0 /\ (p.min <= p.max => mid <= p.max)
  BY <1>0
<1>2. i \in Nat \ {0} /\ (Sound(p) => i <= p.max)
  <2> HIDE DEF mid
  <2> QED BY <1>0, <1>1 DEF Sound
<1>3. q = [p EXCEPT !.interval = i, !.quiet = 0]
  BY DEF PollAlert
<1> HIDE DEF i, q, mid
<1>4. q = [interval |-> i, min |-> p.min, max |-> p.max, increment |-> p.increment,
           restored |-> p.restored, quiet |-> 0, torn |-> p.torn]
  BY <1>0, <1>3 DEF PollRecord
<1>5. q \in PollRecord /\ q.restored = p.restored
  BY <1>0, <1>2, <1>4 DEF PollRecord
<1>6. Sound(p) => Sound(q)
  BY <1>2, <1>4 DEF Sound
<1>7. q.torn = p.torn
  BY <1>4
<1> QED BY <1>5, <1>6, <1>7 DEF PollOK, q

LEMMA NoChangesIsOK ==
  ASSUME NEW p, PollOK(p)
  PROVE  PollOK(PollNoChanges(p)) /\ PollNoChanges(p).restored = p.restored
<1>0. p \in PollRecord /\ p.max \in Nat \ {0} /\ p.interval \in Nat \ {0} /\ p.quiet \in Nat /\ p.increment \in Nat
  BY DEF PollOK, PollRecord
<1>1. CASE PollNoChanges(p) = p
  BY <1>1
<1>2. CASE PollNoChanges(p) = [p EXCEPT !.quiet = @ + 1]
  <2> DEFINE q == PollNoChanges(p)
  <2>1. q = [interval |-> p.interval, min |-> p.min, max |-> p.max, increment |-> p.increment,
             restored |-> p.restored, quiet |-> p.quiet + 1, torn |-> p.torn]
    BY <1>0, <1>2 DEF PollRecord
  <2> HIDE DEF q
  <2>2. q \in PollRecord /\ q.restored = p.restored
    BY <1>0, <2>1 DEF PollRecord
  <2>3. Sound(p) => Sound(q)
    BY <2>1 DEF Sound
  <2>4. q.torn = p.torn
    BY <2>1
  <2> QED BY <2>2, <2>3, <2>4 DEF PollOK, q
<1>3. CASE PollNoChanges(p) = [p EXCEPT !.quiet = 0,
             !.interval = IF @ + p.increment > p.max THEN p.max ELSE @ + p.increment]
  <2> DEFINE q == PollNoChanges(p)
             i == IF p.interval + p.increment > p.max THEN p.max ELSE p.interval + p.increment
  <2>1. i \in Nat \ {0} /\ i <= p.max
    BY <1>0
  <2>2. q = [p EXCEPT !.quiet = 0, !.interval = i]
    BY <1>3
  <2> HIDE DEF q, i
  <2>3. q = [interval |-> i, min |-> p.min, max |-> p.max, increment |-> p.increment,
             restored |-> p.restored, quiet |-> 0, torn |-> p.torn]
    BY <1>0, <2>2 DEF PollRecord
  <2>4. q \in PollRecord /\ q.restored = p.restored
    BY <1>0, <2>1, <2>3 DEF PollRecord
  <2>5. Sound(p) => Sound(q)
    BY <2>1, <2>3 DEF Sound
  <2>6. q.torn = p.torn
    BY <2>3
  <2> QED BY <2>4, <2>5, <2>6 DEF PollOK, q
<1> QED BY <1>1, <1>2, <1>3 DEF PollNoChanges

LEMMA FailedIsOK ==
  ASSUME NEW p, PollOK(p)
  PROVE  PollOK(PollHeartbeatFailed(p))
<1> DEFINE q == PollHeartbeatFailed(p)
           b == IF p.restored = 0 THEN p.interval ELSE p.restored
<1>0. p \in PollRecord
  BY DEF PollOK
<1>1. q = [p EXCEPT !.restored = b, !.interval = p.min, !.quiet = 0]
  BY DEF PollHeartbeatFailed
<1>2. b \in Nat /\ (Sound(p) => b <= p.max)
  BY <1>0 DEF PollRecord, Sound
<1> HIDE DEF q, b
<1>3. q = [interval |-> p.min, min |-> p.min, max |-> p.max, increment |-> p.increment,
           restored |-> b, quiet |-> 0, torn |-> p.torn]
  BY <1>0, <1>1 DEF PollRecord
<1>4. q \in PollRecord
  BY <1>0, <1>2, <1>3 DEF PollRecord
<1>5. Sound(p) => Sound(q)
  BY <1>0, <1>2, <1>3 DEF Sound, PollRecord
<1>6. q.torn = p.torn
  BY <1>3
<1> QED BY <1>4, <1>5, <1>6 DEF PollOK, q

LEMMA RestoredIsOK ==
  ASSUME NEW p, PollOK(p)
  PROVE  PollOK(PollHeartbeatRestored(p)) /\ PollHeartbeatRestored(p).restored = 0
<1>0. p \in PollRecord
  BY DEF PollOK
<1>1. CASE p.restored = 0
  BY <1>1 DEF PollHeartbeatRestored
<1>2. CASE p.restored # 0
  <2> DEFINE q == PollHeartbeatRestored(p)
  <2>1. q = [p EXCEPT !.interval = p.restored, !.restored = 0]
    BY <1>2 DEF PollHeartbeatRestored
  <2> HIDE DEF q
  <2>2. q = [interval |-> p.restored, min |-> p.min, max |-> p.max, increment |-> p.increment,
             restored |-> 0, quiet |-> p.quiet, torn |-> p.torn]
    BY <1>0, <2>1 DEF PollRecord
  <2>3. q \in PollRecord /\ q.restored = 0
    BY <1>0, <1>2, <2>2 DEF PollRecord
  <2>4. Sound(p) => Sound(q)
    BY <1>0, <2>2 DEF Sound, PollRecord
  <2>5. q.torn = p.torn
    BY <2>2
  <2> QED BY <2>3, <2>4, <2>5 DEF PollOK, q
<1> QED BY <1>1, <1>2

\* Taking intervals from a configuration changes those, to values that are not 0.
LEMMA TakenIsRecord ==
  ASSUME NEW c \in [min : Nat, max : Nat, increment : Nat], NEW p \in PollRecord
  PROVE  \E lo \in Nat \ {0}, hi \in Nat \ {0}, n \in Nat :
           TakeFrom(c, p) = [interval |-> p.interval, min |-> lo, max |-> hi, increment |-> n,
                             restored |-> p.restored, quiet |-> p.quiet, torn |-> p.torn]
<1> DEFINE lo == Prefer(c.min, p.min)
           hi == Prefer(c.max, p.max)
           n == Prefer(c.increment, p.increment)
<1>1. lo \in Nat \ {0} /\ hi \in Nat \ {0} /\ n \in Nat
  BY DEF Prefer, PollRecord
<1>2. TakeFrom(c, p) = [p EXCEPT !.min = lo, !.max = hi, !.increment = n]
  BY DEF TakeFrom
<1> HIDE DEF lo, hi, n
<1>3. TakeFrom(c, p) = [interval |-> p.interval, min |-> lo, max |-> hi, increment |-> n,
                        restored |-> p.restored, quiet |-> p.quiet, torn |-> p.torn]
  BY <1>2 DEF PollRecord
<1> QED BY <1>1, <1>3

\* What is read of the intervals is sound, except that after an update the interval may
\* exceed the new maximum until it is adjusted.
LEMMA ReadIsOK ==
  ASSUME PollInv, NEW p, PollOK(p), p.restored = 0, NEW h \in HeartbeatIntervals(p)
  PROVE  /\ h.poll \in PollRecord /\ h.poll.restored = 0
         /\ ~h.updated => PollOK(h.poll)
         /\ ~h.poll.torn => h.poll.min <= h.poll.max
<1> DEFINE half == TakeFrom(nodeCfg, p)
           full == TakeFrom(NodeOverOrg, p)
<1>0. p \in PollRecord /\ nodeCfg \in [min : Nat, max : Nat, increment : Nat]
  BY DEF PollInv, PollOK
<1>1. NodeOverOrg \in [min : Nat, max : Nat, increment : Nat]
  BY DEF NodeOverOrg, Prefer, PollInv
<1>2. CASE h = [updated |-> FALSE, poll |-> p]
  BY <1>2 DEF PollOK, Sound
<1>3. CASE h = [updated |-> FALSE, poll |-> [half EXCEPT !.torn = @ \/ half # p]]
  <2>1. PICK lo \in Nat \ {0}, hi \in Nat \ {0}, n \in Nat :
          half = [interval |-> p.interval, min |-> lo, max |-> hi, increment |-> n,
                  restored |-> p.restored, quiet |-> p.quiet, torn |-> p.torn]
    BY <1>0, TakenIsRecord
  <2> DEFINE t == half.torn \/ half # p
  <2>2. h.poll = [half EXCEPT !.torn = t]
    BY <1>3
  <2>3. t \in BOOLEAN
    OBVIOUS
  <2>4. half.torn = p.torn
    BY <2>1
  <2>5. ~t => half = p /\ ~p.torn
    BY <2>4
  <2> HIDE DEF t, half
  <2>6. h.poll = [interval |-> p.interval, min |-> lo, max |-> hi, increment |-> n,
                  restored |-> p.restored, quiet |-> p.quiet, torn |-> t]
    BY <2>1, <2>2
  <2>7. h.poll \in PollRecord /\ h.poll.restored = 0
    BY <1>0, <2>3, <2>6 DEF PollRecord
  <2>8. h.poll.torn = t
    BY <2>6
  <2>9. ASSUME ~t PROVE Sound(h.poll)
    <3>1. p.min = lo /\ p.max = hi
      BY <2>1, <2>5, <2>9
    <3>2. Sound(p)
      BY <2>5, <2>9 DEF PollOK
    <3>3. h.poll.min = p.min /\ h.poll.max = p.max /\ h.poll.interval = p.interval /\ h.poll.restored = p.restored
      BY <2>6, <3>1
    <3> QED BY <3>2, <3>3 DEF Sound
  <2> QED BY <2>7, <2>8, <2>9 DEF PollOK, Sound
<1>4. CASE h = [updated |-> full # p,
                poll |-> IF full = p THEN p
                         ELSE [full EXCEPT !.max = IF @ < full.min THEN full.min ELSE @, !.torn = FALSE]]
  <2>1. CASE full = p
    <3>1. h.poll = p
      BY <1>4, <2>1
    <3> QED BY <1>0, <3>1 DEF PollOK, Sound
  <2>2. CASE full # p
    <3>1. PICK lo \in Nat \ {0}, hi \in Nat \ {0}, n \in Nat :
            full = [interval |-> p.interval, min |-> lo, max |-> hi, increment |-> n,
                    restored |-> p.restored, quiet |-> p.quiet, torn |-> p.torn]
      BY <1>0, <1>1, TakenIsRecord
    <3> DEFINE top == IF full.max < full.min THEN full.min ELSE full.max
    <3>2. h.poll = [full EXCEPT !.max = top, !.torn = FALSE] /\ h.updated
      BY <1>4, <2>2
    <3>3. top \in Nat \ {0} /\ lo <= top
      BY <3>1
    <3> HIDE DEF top, full
    <3>4. h.poll = [interval |-> p.interval, min |-> lo, max |-> top, increment |-> n,
                    restored |-> p.restored, quiet |-> p.quiet, torn |-> FALSE]
      BY <3>1, <3>2
    <3>5. h.poll \in PollRecord /\ h.poll.restored = 0 /\ h.poll.min <= h.poll.max
      BY <1>0, <3>3, <3>4 DEF PollRecord
    <3> QED BY <3>2, <3>5
  <2> QED BY <2>1, <2>2
<1> QED BY <1>2, <1>3, <1>4 DEF HeartbeatIntervals

LEMMA NewConfigIsOK ==
  ASSUME PollInv, NEW p, PollOK(p), p.restored = 0, NEW q \in NewConfig(p)
  PROVE  PollOK(q) /\ q.restored = 0
<1>1. PICK h \in HeartbeatIntervals(p) : q = IF h.updated THEN PollNewConfig(h.poll) ELSE h.poll
  BY DEF NewConfig
<1> DEFINE r == h.poll
<1>2. /\ r \in PollRecord /\ r.restored = 0 /\ (~h.updated => PollOK(r)) /\ (~r.torn => r.min <= r.max)
  BY ReadIsOK
<1>3. CASE ~h.updated
  BY <1>1, <1>2, <1>3
<1>4. CASE h.updated
  <2> HIDE DEF r
  <2>1. q = PollNewConfig(r)
    BY <1>1, <1>4 DEF r
  <2>2. CASE r.interval > r.max
    <3>1. q = [interval |-> r.max, min |-> r.min, max |-> r.max, increment |-> r.increment,
               restored |-> r.restored, quiet |-> r.quiet, torn |-> r.torn]
      BY <1>2, <2>1, <2>2 DEF PollNewConfig, PollRecord
    <3>2. q \in PollRecord /\ q.restored = 0
      BY <1>2, <3>1 DEF PollRecord
    <3>3. r.min <= r.max => Sound(q)
      BY <1>2, <3>1 DEF Sound, PollRecord
    <3>4. q.torn = r.torn
      BY <3>1
    <3> QED BY <1>2, <3>2, <3>3, <3>4 DEF PollOK
  <2>3. CASE ~(r.interval > r.max)
    <3>1. q = r
      BY <2>1, <2>3 DEF PollNewConfig
    <3>2. r.min <= r.max => Sound(r)
      BY <1>2, <2>3 DEF Sound, PollRecord
    <3> QED BY <1>2, <3>1, <3>2 DEF PollOK
  <2> QED BY <2>2, <2>3
<1> QED BY <1>3, <1>4

LEMMA ConfiguredIsOK ==
  ASSUME PollInv, NEW p, PollOK(p), p.restored = 0, NEW n, NEW q \in Configured(p, n)
  PROVE  PollOK(q) /\ q.restored = 0
<1>1. CASE q = p
  BY <1>1
<1>2. CASE q \in NewConfig(p)
  BY <1>2, NewConfigIsOK
<1>3. ASSUME NEW r \in NewConfig(p), q \in NewConfig(r) PROVE PollOK(q) /\ q.restored = 0
  <2>1. PollOK(r) /\ r.restored = 0
    BY NewConfigIsOK
  <2> QED BY <1>3, <2>1, NewConfigIsOK
<1> QED BY <1>1, <1>2, <1>3 DEF Configured

LEMMA PollStaysOK ==
  ASSUME PollInv, NEW p, PollOK(p), NEW s, FailedPoll(p, s) \/ SuccessfulPoll(p, s)
  PROVE  PollOK(poll')
<1>1. CASE poll' = p
  BY <1>1
<1>2. CASE poll' = PollHeartbeatFailed(p)
  BY <1>2, FailedIsOK
<1>3. CASE SuccessfulPoll(p, s)
  <2>1. PICK n : \E q \in Configured(PollHeartbeatRestored(p), n) : poll' \in {q, PollNoChanges(q)}
    BY <1>3 DEF SuccessfulPoll
  <2>3. PICK q \in Configured(PollHeartbeatRestored(p), n) : poll' \in {q, PollNoChanges(q)}
    BY <2>1
  <2>2. PollOK(q)
    BY RestoredIsOK, ConfiguredIsOK
  <2> QED BY <2>2, <2>3, NoChangesIsOK
<1> QED BY <1>1, <1>2, <1>3 DEF FailedPoll

LEMMA FindKeepsPoll ==
  ASSUME PollInv, NEW p, PollOK(p), FindAndProcessChanges(p)
  PROVE  PollOK(poll')
BY PollStaysOK DEF FindAndProcessChanges

LEMMA PollInvStep == PollInv /\ [FeedNext]_feedVars => PollInv'
<1> SUFFICES ASSUME PollInv, [FeedNext]_feedVars PROVE PollInv'
  OBVIOUS
<1>0. PollOK(FirstPoll) /\ FirstPoll.restored = 0
  <2>1. FirstPoll \in PollRecord
    BY FeedAssumption DEF FirstPoll, PollRecord
  <2>2. Sound(FirstPoll) /\ FirstPoll.restored = 0
    BY FeedAssumption DEF FirstPoll, Sound
  <2> QED BY <2>1, <2>2 DEF PollOK
<1>1. CASE Register
  <2>1. PICK h \in HeartbeatIntervals(poll) : poll' = PollReset(h.poll)
    BY <1>1 DEF Register
  <2>2. /\ h.poll \in PollRecord /\ (~h.poll.torn => h.poll.min <= h.poll.max) /\ h.poll.restored = 0
    BY <1>1, ReadIsOK DEF PollInv, Register
  <2> QED BY <1>1, <2>1, <2>2, StartIsOK DEF PollInv, Register, exchVars
<1>2. CASE NoWork
  BY <1>2, FindKeepsPoll DEF NoWork, exchVars, PollInv
<1>3. CASE UpdateInterval
  <2>1. PICK p \in {PollReset(poll), PollAlert(poll)} : poll' = p \/ (hasToken /\ FindAndProcessChanges(p))
    BY <1>3 DEF UpdateInterval
  <2>2. PollOK(p) /\ p.restored = poll.restored
    BY ResetIsOK, AlertIsOK DEF PollInv
  <2>3. PollOK(poll') /\ (~hasToken => poll'.restored = poll.restored)
    BY <2>1, <2>2, FindKeepsPoll
  <2> QED BY <1>3, <2>3 DEF UpdateInterval, exchVars, PollInv
<1>4. CASE RestartAgent
  <2>1. PICK h \in HeartbeatIntervals(FirstPoll) : poll' = IF hasToken THEN PollReset(h.poll) ELSE FirstPoll
    BY <1>4 DEF RestartAgent
  <2>2. /\ h.poll \in PollRecord /\ (~h.poll.torn => h.poll.min <= h.poll.max) /\ h.poll.restored = 0
    BY <1>0, ReadIsOK
  <2>3. PollOK(PollReset(h.poll))
    BY <2>2, StartIsOK
  <2>4. PollOK(poll') /\ (~hasToken => poll'.restored = 0)
    BY <1>0, <2>1, <2>3
  <2> QED BY <1>4, <2>4 DEF RestartAgent, exchVars, PollInv
<1>5. CASE Unconfigure
  BY <1>0, <1>5 DEF Unconfigure, exchVars, PollInv
<1>6. ASSUME UNCHANGED <<poll, hasToken>>,
             nodeCfg' \in [min : Nat, max : Nat, increment : Nat],
             orgCfg' \in [min : Nat, max : Nat, increment : Nat]
      PROVE  PollInv'
  BY <1>6 DEF PollInv
<1>7. CASE \/ \E good \in BOOLEAN : SendMessage(good)
           \/ EditNodeConfig \/ EditOrgConfig \/ \E t \in ChangeTypes : OtherChange(t)
  BY <1>6, <1>7, FeedAssumption DEF SendMessage, EditNodeConfig, EditOrgConfig, OtherChange, LogChange, PollInv
<1>8. CASE RemoveMessage \/ AgreementMade \/ TakeEvent \/ HandleMessages \/ UNCHANGED feedVars
  BY <1>6, <1>8 DEF RemoveMessage, AgreementMade, TakeEvent, HandleMessages, feedVars, exchVars, PollInv
<1> QED BY <1>1, <1>2, <1>3, <1>4, <1>5, <1>7, <1>8 DEF FeedNext

\* The polling interval never exceeds the maximum in force, however node and
\* organization change their intervals and the heartbeat fails and returns, unless the
\* organization could not be read in the middle of taking new values
\* (updatePollingInterval, getHeartbeatIntervals).
THEOREM IntervalStaysWithinMaximum == FeedSpec => []IntervalWithinMaximum
<1>1. FeedInit => PollInv
  <2> SUFFICES ASSUME FeedInit PROVE PollInv
    OBVIOUS
  <2>1. nodeCfg = NoConfig /\ orgCfg = NoConfig /\ poll = FirstPoll
    BY DEF FeedInit
  <2>2. FirstPoll \in PollRecord
    BY FeedAssumption DEF FirstPoll, PollRecord
  <2>3. Sound(FirstPoll) /\ FirstPoll.restored = 0
    BY FeedAssumption DEF FirstPoll, Sound
  <2> QED BY <2>1, <2>2, <2>3 DEF PollInv, PollOK, NoConfig
<1>2. PollInv => IntervalWithinMaximum
  <2> SUFFICES ASSUME PollInv, ~poll.torn PROVE poll.min <= poll.max /\ poll.interval <= poll.max /\ poll.interval > 0
    BY DEF IntervalWithinMaximum
  <2> QED BY DEF PollInv, PollOK, Sound, PollRecord
<1> QED BY <1>1, <1>2, PollInvStep, PTL DEF FeedSpec

-----------------------------------------------------------------------------
(* The upgrade of the agent.                                                 *)

DownloadStatuses == {"downloaded", "no action", "precheck failed", "download failed"}
Completion == [nmp : NMPs, st : DownloadStatuses, version : Nat]
UpgradeSteps == {"idle", "install", "report", "precheck", "rollback", "restore", "restored", "broken", "check", "config", "image", "wait", "done"}
Upgrade == [nmp : NMPs \cup {NoNMP}, version : Nat, step : UpgradeSteps, backup : Nat]

ManagementTypeOK ==
  /\ kind \in [cluster : BOOLEAN, haGroup : BOOLEAN]
  /\ picked \in NMPs \cup {NoNMP} /\ downloads \in Seq(NMPs)
  /\ completes \in Seq(Completion) /\ packages \in Seq(Completion)
  /\ upgraded \in [NMPs -> Nat]
  /\ agentVersion \in Nat /\ latest \in Nat /\ clock \in Nat
  /\ upgrade \in Upgrade
  /\ k8s \in [config : Nat, image : Nat]

\* What the comparison of the download worker allowed.
Allowed(nmp, version) == version < agentVersion => nmp \in AllowDowngrade
\* The packages that were announced, and those that reached the upgrade worker.
Announced(s) == \A i \in DOMAIN s : s[i].st = "downloaded" => Allowed(s[i].nmp, s[i].version)
Fetched(s) == \A i \in DOMAIN s : Allowed(s[i].nmp, s[i].version)

\* On a cluster what was compared stays compared: nothing changes the version of the
\* agent before the queues are lost with the old pod, and an older image is in place only
\* while its upgrade waits for the new pod.
ManagementInv ==
  /\ ManagementTypeOK
  /\ kind.cluster =>
       /\ Announced(completes) /\ Fetched(packages)
       /\ upgrade.step \in {"check", "config", "image"} => Allowed(upgrade.nmp, upgrade.version)
       /\ k8s.image < agentVersion => upgrade.step = "wait" /\ upgrade.nmp \in AllowDowngrade

\* Of the NMPs that are due there is one scheduled last, since all are scheduled before
\* now.
LEMMA LatestIsDue ==
  ASSUME NEW c \in Nat, NEW S \in SUBSET NMPs, S # {}, \A n \in S : ScheduledTime[n] < c
  PROVE  GetLatest(S) \in S
<1> DEFINE T == {c - ScheduledTime[n] : n \in S}
<1>1. T \subseteq Nat /\ T # {}
  BY ManagementAssumption
<1>2. PICK t \in T : \A u \in T : ~(<<u, t>> \in OpToRel(<, Nat))
  <2>1. IsWellFoundedOn(OpToRel(<, Nat), Nat)
    BY NatLessThanWellFounded
  <2> HIDE DEF T
  <2> QED BY <1>1, <2>1, WFMin
<1>3. \A u \in T : t <= u
  <2> TAKE u \in T
  <2>1. <<u, t>> \in Nat \X Nat
    BY <1>1
  <2>2. ~(<<u, t>> \in {ss \in Nat \X Nat : ss[1] < ss[2]})
    BY <1>2 DEF OpToRel
  <2>3. ~(u < t) /\ u \in Nat /\ t \in Nat
    <3> HIDE DEF T
    <3> QED BY <2>1, <2>2
  <2> QED BY <2>3
<1>4. PICK n \in S : t = c - ScheduledTime[n]
  OBVIOUS
<1>5. \A m \in S : ScheduledTime[n] >= ScheduledTime[m]
  BY <1>3, <1>4, ManagementAssumption
<1> QED BY <1>4, <1>5 DEF GetLatest

\* The elements of a sequence that grows or shrinks by one.
LEMMA Appended ==
  ASSUME NEW S, NEW s \in Seq(S), NEW e \in S
  PROVE  /\ Append(s, e) \in Seq(S)
         /\ \A i \in DOMAIN Append(s, e) : Append(s, e)[i] = e \/ (i \in DOMAIN s /\ Append(s, e)[i] = s[i])
OBVIOUS

LEMMA AppendedTwice ==
  ASSUME NEW S, NEW s \in Seq(S), NEW e \in S
  PROVE  s \o <<e, e>> = Append(Append(s, e), e)
OBVIOUS

LEMMA Shifted ==
  ASSUME NEW S, NEW s \in Seq(S), s # <<>>
  PROVE  /\ Tail(s) \in Seq(S) /\ Head(s) \in S /\ 1 \in DOMAIN s /\ Head(s) = s[1]
         /\ \A i \in DOMAIN Tail(s) : i + 1 \in DOMAIN s /\ Tail(s)[i] = s[i + 1]
OBVIOUS

\* A step that leaves alone what was compared.
LEMMA ComparedKept ==
  ASSUME ManagementInv, ManagementTypeOK', UNCHANGED <<kind, completes, packages, upgrade, k8s, agentVersion>>
  PROVE  ManagementInv'
BY DEF ManagementInv, Announced, Fetched, Allowed

\* ResolveUpgradeVersions: what is found to be downloadable is newer, or may be older.
LEMMA CompletedIsAllowed ==
  ASSUME ManagementTypeOK, NEW n \in NMPs,
         NEW st \in DownloadStatuses,
         st = "downloaded" => ResolveUpgradeVersions(n) # 0
  PROVE  /\ Completed(n, st) \in Completion
         /\ Completed(n, st).st = "downloaded" => Allowed(Completed(n, st).nmp, Completed(n, st).version)
<1>1. FindBestMatchingVersion(n) \in Nat
  BY ManagementAssumption DEF ManagementTypeOK, FindBestMatchingVersion
<1>2. /\ Completed(n, st).nmp = n /\ Completed(n, st).st = st
      /\ Completed(n, st) \in Completion
      /\ st = "downloaded" => Completed(n, st).version = FindBestMatchingVersion(n)
  BY <1>1 DEF Completed, Completion, DownloadStatuses
<1>3. ResolveUpgradeVersions(n) # 0 => Allowed(n, FindBestMatchingVersion(n))
  BY <1>1 DEF ResolveUpgradeVersions, Allowed, ManagementTypeOK
<1> QED BY <1>2, <1>3

\* The download worker announces a result.
LEMMA DownloadInv ==
  ASSUME ManagementInv,
         DownloadAgentUpgradePackages \/ DownloadPrecheckFails \/ DownloadCSSObjectFails
  PROVE  ManagementInv'
<1>1. /\ downloads # <<>> /\ downloads' = Tail(downloads) /\ UNCHANGED downloadVars
  BY DEF DownloadAgentUpgradePackages, DownloadPrecheckFails, DownloadCSSObjectFails
<1>2. Head(downloads) \in NMPs /\ downloads' \in Seq(NMPs)
  BY <1>1, Shifted DEF ManagementInv, ManagementTypeOK
<1>3. UNCHANGED <<kind, picked, packages, upgraded, agentVersion, latest, clock, upgrade, k8s>>
  BY <1>1 DEF downloadVars, Environment
<1>4. PICK c \in Completion :
        /\ c.st = "downloaded" => Allowed(c.nmp, c.version)
        /\ completes' = Append(completes, c) \/ completes' = completes \o <<c, c>>
  <2>1. CASE DownloadAgentUpgradePackages
    <3> DEFINE st == IF ResolveUpgradeVersions(Head(downloads)) = 0 THEN "no action" ELSE "downloaded"
    <3>1. completes' = Append(completes, Completed(Head(downloads), st))
      BY <2>1 DEF DownloadAgentUpgradePackages
    <3>2. st \in {"downloaded", "no action"} /\ (st = "downloaded" => ResolveUpgradeVersions(Head(downloads)) # 0)
      OBVIOUS
    <3> HIDE DEF st
    <3> QED BY <1>2, <3>1, <3>2, CompletedIsAllowed DEF ManagementInv, DownloadStatuses
  <2>2. CASE DownloadPrecheckFails
    BY <1>2, <2>2, CompletedIsAllowed DEF ManagementInv, DownloadStatuses, DownloadPrecheckFails
  <2>3. CASE DownloadCSSObjectFails
    BY <1>2, <2>3, CompletedIsAllowed DEF ManagementInv, DownloadStatuses, DownloadCSSObjectFails
  <2> QED BY <2>1, <2>2, <2>3
<1>5. completes \in Seq(Completion)
  BY DEF ManagementInv, ManagementTypeOK
<1>6. /\ completes' \in Seq(Completion)
      /\ \A i \in DOMAIN completes' : completes'[i] = c \/ (i \in DOMAIN completes /\ completes'[i] = completes[i])
  <2>1. completes' = Append(completes, c) \/ completes' = Append(Append(completes, c), c)
    BY <1>4, <1>5, AppendedTwice
  <2>2. Append(completes, c) \in Seq(Completion)
    BY <1>4, <1>5
  <2>3. CASE completes' = Append(completes, c)
    BY <1>5, <2>3, Appended
  <2>4. CASE completes' = Append(Append(completes, c), c)
    <3>1. completes' \in Seq(Completion)
      BY <2>2, <2>4
    <3>2. \A i \in DOMAIN completes' : completes'[i] = c \/ (i \in DOMAIN Append(completes, c) /\ completes'[i] = Append(completes, c)[i])
      BY <2>2, <2>4, Appended
    <3> QED BY <1>5, <3>1, <3>2, Appended
  <2> QED BY <2>1, <2>3, <2>4
<1>7. ManagementTypeOK'
  BY <1>2, <1>3, <1>6 DEF ManagementInv, ManagementTypeOK
<1>8. kind.cluster => Announced(completes)'
  BY <1>3, <1>4, <1>6 DEF ManagementInv, Announced, Allowed
<1> QED BY <1>3, <1>7, <1>8 DEF ManagementInv, Fetched, Allowed

\* The handler of a finished download passes a package on.
LEMMA DownloadCompleteInv ==
  ASSUME ManagementInv, DownloadComplete \/ DownloadCompleteDropped
  PROVE  ManagementInv'
<1> DEFINE c == Head(completes)
<1>1. /\ completes # <<>> /\ completes' = Tail(completes)
      /\ UNCHANGED <<kind, picked, downloads, agentVersion, latest, clock, upgrade, k8s>>
  BY DEF DownloadComplete, DownloadCompleteDropped, Environment
<1>2. /\ completes' \in Seq(Completion) /\ c \in Completion
      /\ 1 \in DOMAIN completes /\ c = completes[1]
      /\ \A i \in DOMAIN completes' : i + 1 \in DOMAIN completes /\ completes'[i] = completes[i + 1]
  BY <1>1, Shifted DEF ManagementInv, ManagementTypeOK
<1>3. /\ upgraded' \in {upgraded, [upgraded EXCEPT ![c.nmp] = c.version]}
      /\ packages' = packages \/ (packages' = Append(packages, c) /\ c.st = "downloaded")
  <2>1. CASE DownloadComplete
    BY <2>1 DEF DownloadComplete
  <2>2. CASE DownloadCompleteDropped
    BY <2>2 DEF DownloadCompleteDropped
  <2> QED BY <2>1, <2>2
<1> HIDE DEF c
<1>4. upgraded' \in [NMPs -> Nat]
  BY <1>2, <1>3 DEF ManagementInv, ManagementTypeOK, Completion
<1>5. /\ packages' \in Seq(Completion)
      /\ \A i \in DOMAIN packages' : \/ packages'[i] = c /\ c.st = "downloaded"
                                     \/ i \in DOMAIN packages /\ packages'[i] = packages[i]
  <2>1. packages \in Seq(Completion)
    BY DEF ManagementInv, ManagementTypeOK
  <2>2. CASE packages' = packages
    BY <2>1, <2>2
  <2>3. CASE packages' = Append(packages, c) /\ c.st = "downloaded"
    BY <1>2, <2>1, <2>3, Appended
  <2> QED BY <1>3, <2>2, <2>3
<1>6. ManagementTypeOK'
  BY <1>1, <1>2, <1>4, <1>5 DEF ManagementInv, ManagementTypeOK
<1>7. kind.cluster => Announced(completes)'
  BY <1>1, <1>2 DEF ManagementInv, Announced, Allowed
<1>8. kind.cluster /\ c.st = "downloaded" => Allowed(c.nmp, c.version)
  BY <1>2 DEF ManagementInv, Announced
<1>9. kind.cluster => Fetched(packages)'
  BY <1>1, <1>5, <1>8 DEF ManagementInv, Fetched, Allowed
<1> QED BY <1>1, <1>6, <1>7, <1>9 DEF ManagementInv, Allowed

\* The job of a device is no cluster's.
LEMMA JobInv ==
  ASSUME ManagementInv,
         \/ JobInstalls \/ JobPrecheckFails \/ JobFails \/ JobRollbackStarts \/ JobRollsBack
         \/ UpdateManagementStatusEnded
         \/ \E n \in NMPs : UpdateManagementStatusInitiated(n)
  PROVE  ManagementInv'
<1> USE DEF Upgrade, UpgradeSteps
<1>1. /\ ~kind.cluster
      /\ UNCHANGED <<kind, picked, downloads, completes, packages, upgraded, latest, clock, k8s>>
  BY DEF JobInstalls, JobPrecheckFails, JobFails, JobRollbackStarts, JobRollsBack, JobStep,
         UpdateManagementStatusInitiated, UpdateManagementStatusEnded, jobVars, upgradeVars, Environment
<1>2. /\ upgrade' \in Upgrade
      /\ agentVersion' \in Nat
  <2>1. /\ upgrade \in Upgrade /\ agentVersion \in Nat /\ upgraded \in [NMPs -> Nat]
        /\ JobVersion \in Nat /\ Idle \in Upgrade
    BY DEF ManagementInv, ManagementTypeOK, JobVersion, InstallPkgs, Idle
  <2>2. CASE JobInstalls \/ JobPrecheckFails \/ JobFails \/ JobRollbackStarts \/ JobRollsBack
    <3>1. /\ agentVersion' \in {agentVersion, JobVersion, upgrade.backup}
          /\ \/ upgrade' = Idle
             \/ \E s \in UpgradeSteps : upgrade' = [upgrade EXCEPT !.step = s]
      BY <2>2 DEF JobInstalls, JobPrecheckFails, JobFails, JobRollbackStarts, JobRollsBack, Step
    <3> QED BY <2>1, <3>1
  <2>3. ASSUME NEW n \in NMPs, UpdateManagementStatusInitiated(n)
        PROVE  /\ upgrade' \in Upgrade
               /\ agentVersion' \in Nat
    BY <2>1, <2>3 DEF UpdateManagementStatusInitiated
  <2>4. CASE UpdateManagementStatusEnded
    BY <2>1, <2>4 DEF UpdateManagementStatusEnded
  <2> QED BY <2>2, <2>3, <2>4
<1>3. ManagementTypeOK'
  BY <1>1, <1>2 DEF ManagementInv, ManagementTypeOK
<1> QED BY <1>1, <1>3 DEF ManagementInv

\* The cluster upgrade worker takes a package and goes through its steps.
LEMMA ClusterInv ==
  ASSUME ManagementInv,
         \/ HandleClusterUpgrade \/ ClusterCheck \/ ClusterFails \/ ClusterArchUnknown
         \/ UpdateAgentConfigmap \/ UpdateAgentDeploymentImage \/ ClusterDone
  PROVE  ManagementInv'
<1>1. UNCHANGED <<kind, picked, downloads, completes, upgraded, agentVersion, latest, clock>>
  BY DEF HandleClusterUpgrade, ClusterCheck, ClusterFails, ClusterArchUnknown, UpdateAgentConfigmap,
         UpdateAgentDeploymentImage, ClusterDone, clusterVars, upgradeVars, Environment
<1>2. Announced(completes) => Announced(completes)'
  BY <1>1 DEF Announced, Allowed
<1> USE DEF ManagementInv, ManagementTypeOK, Upgrade, UpgradeSteps
<1>3. CASE HandleClusterUpgrade
  <2> DEFINE c == Head(packages)
  <2>1. /\ packages # <<>> /\ packages' = Tail(packages) /\ k8s' = k8s /\ upgrade = Idle
        /\ upgrade' = [nmp |-> c.nmp, version |-> c.version, step |-> "check", backup |-> agentVersion]
    BY <1>3 DEF HandleClusterUpgrade
  <2>2. /\ packages' \in Seq(Completion) /\ c \in Completion
        /\ 1 \in DOMAIN packages /\ c = packages[1]
        /\ \A i \in DOMAIN packages' : i + 1 \in DOMAIN packages /\ packages'[i] = packages[i + 1]
    BY <2>1, Shifted
  <2> HIDE DEF c
  <2>3. ManagementTypeOK'
    BY <1>1, <2>1, <2>2 DEF Completion
  <2>4. kind.cluster => Fetched(packages)' /\ Allowed(c.nmp, c.version)
    BY <1>1, <2>2 DEF Fetched, Allowed
  <2> QED BY <1>1, <1>2, <2>1, <2>2, <2>3, <2>4 DEF Allowed, Idle
<1>4. CASE ClusterCheck \/ UpdateAgentConfigmap
  <2>1. /\ packages' = packages /\ k8s' \in [config : Nat, image : Nat] /\ k8s'.image = k8s.image
        /\ upgrade.step \in {"check", "config"}
        /\ \E s \in {"done", "config", "image"} : upgrade' = [upgrade EXCEPT !.step = s]
    BY <1>4 DEF ClusterCheck, UpdateAgentConfigmap, Step
  <2>2. /\ upgrade' \in Upgrade
        /\ upgrade'.nmp = upgrade.nmp /\ upgrade'.version = upgrade.version
    BY <2>1
  <2>3. ManagementTypeOK'
    BY <1>1, <2>1, <2>2
  <2>4. Fetched(packages) => Fetched(packages)'
    BY <1>1, <2>1 DEF Fetched, Allowed
  <2> QED BY <1>1, <1>2, <2>1, <2>2, <2>3, <2>4 DEF Allowed
<1>5. CASE UpdateAgentDeploymentImage
  <2>1. /\ packages' = packages /\ upgrade.step = "image"
        /\ \/ k8s' = [k8s EXCEPT !.image = upgrade.version] /\ upgrade' = [upgrade EXCEPT !.step = "wait"]
           \/ k8s' = k8s /\ upgrade' = [upgrade EXCEPT !.step = "done"]
    BY <1>5 DEF UpdateAgentDeploymentImage, Step
  <2>2. /\ upgrade' \in Upgrade
        /\ upgrade'.nmp = upgrade.nmp /\ upgrade'.version = upgrade.version
        /\ k8s' \in [config : Nat, image : Nat]
        /\ \/ k8s'.image = upgrade.version /\ upgrade'.step = "wait"
           \/ k8s'.image = k8s.image /\ upgrade'.step = "done"
    BY <2>1
  <2>3. ManagementTypeOK'
    BY <1>1, <2>1, <2>2
  <2>4. Fetched(packages) => Fetched(packages)'
    BY <1>1, <2>1 DEF Fetched, Allowed
  <2> QED BY <1>1, <1>2, <2>1, <2>2, <2>3, <2>4 DEF Allowed
<1>6. CASE ClusterFails \/ ClusterArchUnknown \/ ClusterDone
  <2>1. /\ packages' = packages /\ k8s' = k8s /\ upgrade.step # "wait"
        /\ upgrade' = Idle \/ upgrade' = [upgrade EXCEPT !.step = "wait"]
    BY <1>6 DEF ClusterFails, ClusterArchUnknown, ClusterDone, Step
  <2>2. /\ upgrade' \in Upgrade
        /\ upgrade'.step \in {"idle", "wait"}
    <3>1. CASE upgrade' = Idle
      BY <3>1 DEF Idle
    <3>2. CASE upgrade' = [upgrade EXCEPT !.step = "wait"]
      BY <3>2
    <3> QED BY <2>1, <3>1, <3>2
  <2>3. ManagementTypeOK'
    BY <1>1, <2>1, <2>2
  <2>4. Fetched(packages) => Fetched(packages)'
    BY <1>1, <2>1 DEF Fetched, Allowed
  <2> QED BY <1>1, <1>2, <2>1, <2>2, <2>3, <2>4
<1> QED BY <1>3, <1>4, <1>5, <1>6

\* With the new pod the queues are empty and the image is the agent's.
LEMMA ManagementRestartInv ==
  ASSUME ManagementInv, ManagementRestart
  PROVE  ManagementInv'
<1>1. /\ UNCHANGED <<kind, upgraded, k8s, latest, clock>>
      /\ picked' = NoNMP /\ downloads' = <<>> /\ completes' = <<>> /\ packages' = <<>>
      /\ agentVersion' = IF kind.cluster THEN k8s.image ELSE agentVersion
      /\ upgrade' = IF kind.cluster THEN Idle ELSE upgrade
  BY DEF ManagementRestart
<1>2. /\ <<>> \in Seq(NMPs) /\ <<>> \in Seq(Completion) /\ \A i \in DOMAIN <<>> : FALSE
  OBVIOUS
<1>3. agentVersion' \in Nat /\ upgrade' \in Upgrade
  BY <1>1 DEF ManagementInv, ManagementTypeOK, Idle, Upgrade, UpgradeSteps
<1>4. ManagementTypeOK'
  BY <1>1, <1>2, <1>3 DEF ManagementInv, ManagementTypeOK
<1>5. kind.cluster => /\ Announced(completes)' /\ Fetched(packages)'
                      /\ upgrade'.step = "idle" /\ ~(k8s'.image < agentVersion')
  BY <1>1, <1>2 DEF Announced, Fetched, Idle, ManagementInv, ManagementTypeOK
<1> QED BY <1>1, <1>4, <1>5 DEF ManagementInv

LEMMA ManagementInvStep == ManagementInv /\ [ManagementNext]_managementVars => ManagementInv'
<1> SUFFICES ASSUME ManagementInv, [ManagementNext]_managementVars PROVE ManagementInv'
  OBVIOUS
<1>1. CASE ProcessAllNMPS \/ HandleUnregister
  <2>1. /\ UNCHANGED <<kind, picked, downloads, completes, packages, upgrade, k8s, agentVersion, latest, clock>>
        /\ upgraded' \in [NMPs -> Nat]
    BY <1>1 DEF ProcessAllNMPS, HandleUnregister, Environment, ManagementInv, ManagementTypeOK
  <2> QED BY <2>1, ComparedKept DEF ManagementInv, ManagementTypeOK
<1>2. CASE CheckNMPTimeToRun
  <2> DEFINE due == {n \in FindWaitingNMPStatuses : TimeToStart(n)}
  <2>1. /\ due # {} /\ picked' = GetLatest(due)
        /\ UNCHANGED <<kind, downloads, completes, packages, upgraded, upgrade, k8s, agentVersion, latest, clock>>
    BY <1>2 DEF CheckNMPTimeToRun, Environment
  <2>2. due \in SUBSET NMPs /\ \A n \in due : ScheduledTime[n] < clock
    BY DEF FindWaitingNMPStatuses, FindNMPSWithStatuses, TimeToStart
  <2> HIDE DEF due
  <2>3. picked' \in NMPs
    BY <2>1, <2>2, LatestIsDue DEF ManagementInv, ManagementTypeOK
  <2> QED BY <2>1, <2>3, ComparedKept DEF ManagementInv, ManagementTypeOK
<1>3. CASE StartDownload
  <2>1. /\ picked # NoNMP /\ picked' = NoNMP /\ downloads' = Append(downloads, picked)
        /\ UNCHANGED <<kind, completes, packages, upgraded, upgrade, k8s, agentVersion, latest, clock>>
    BY <1>3 DEF StartDownload, Environment
  <2>2. downloads' \in Seq(NMPs)
    BY <2>1, Appended DEF ManagementInv, ManagementTypeOK
  <2> QED BY <2>1, <2>2, ComparedKept DEF ManagementInv, ManagementTypeOK
<1>4. ASSUME UNCHANGED <<kind, picked, downloads, completes, packages, upgraded, upgrade, k8s, agentVersion>>,
             latest' \in Nat, clock' \in Nat
      PROVE  ManagementInv'
  BY <1>4, ComparedKept DEF ManagementInv, ManagementTypeOK
<1>5. CASE \/ \E n \in NMPs : CheckHAWaiting(n) \/ ResetManagementStatus(n)
           \/ \E n \in NMPs : \E p \in {"none", "enabled", "disabled"} : PolicyChange(n, p)
           \/ HandleAgentFilesVersionChange \/ MonitorHAGroupNMPUpdates \/ OtherTurn
           \/ UNCHANGED managementVars
  <2>1. UNCHANGED <<kind, picked, downloads, completes, packages, upgraded, upgrade, k8s, agentVersion, latest, clock>>
    BY <1>5 DEF CheckHAWaiting, ResetManagementStatus, PolicyChange, HandleAgentFilesVersionChange,
                MonitorHAGroupNMPUpdates, OtherTurn, managementVars, environmentVars, Environment
  <2> QED BY <1>4, <2>1 DEF ManagementInv, ManagementTypeOK
<1>6. CASE Tick \/ PublishVersion
  BY <1>4, <1>6 DEF Tick, PublishVersion, environmentVars, ManagementInv, ManagementTypeOK
<1>7. CASE \/ DownloadAgentUpgradePackages \/ DownloadPrecheckFails \/ DownloadCSSObjectFails
           \/ DownloadComplete \/ DownloadCompleteDropped
  BY <1>7, DownloadInv, DownloadCompleteInv
<1>8. CASE \/ JobInstalls \/ JobPrecheckFails \/ JobFails \/ JobRollbackStarts \/ JobRollsBack
           \/ UpdateManagementStatusEnded
           \/ \E n \in NMPs : UpdateManagementStatusInitiated(n)
  BY <1>8, JobInv
<1>9. CASE \/ HandleClusterUpgrade \/ ClusterCheck \/ ClusterFails \/ ClusterArchUnknown
           \/ UpdateAgentConfigmap \/ UpdateAgentDeploymentImage \/ ClusterDone
  BY <1>9, ClusterInv
<1>10. CASE ManagementRestart
  BY <1>10, ManagementRestartInv
<1> QED BY <1>1, <1>2, <1>3, <1>5, <1>6, <1>7, <1>8, <1>9, <1>10 DEF ManagementNext

\* The software goes back to an older version only for an NMP that allows it, for any
\* NMPs, schedules and versions, however downloads fail and are repeated, versions are
\* published and the agent is restarted between the comparison and the upgrade
\* (ResolveUpgradeVersions, DownloadComplete, HandleClusterUpgrade, syncOnInit), and in the
\* rollback of an upgrade that failed, to the version it began from.
THEOREM DowngradeOnlyIfAllowed == ManagementSpec => VersionFallsOnlyIfAllowed
<1>1. ManagementInit => ManagementInv
  <2> SUFFICES ASSUME ManagementInit PROVE ManagementInv
    OBVIOUS
  <2>1. /\ <<>> \in Seq(NMPs) /\ <<>> \in Seq(Completion) /\ \A i \in DOMAIN <<>> : FALSE
    OBVIOUS
  <2>2. ManagementTypeOK
    BY <2>1 DEF ManagementInit, ManagementTypeOK, Idle, Upgrade, UpgradeSteps
  <2>3. Announced(completes) /\ Fetched(packages)
    BY <2>1 DEF ManagementInit, Announced, Fetched
  <2> QED BY <2>2, <2>3 DEF ManagementInv, ManagementInit, Idle
<1>2. ManagementInv /\ [ManagementNext]_managementVars
        => [agentVersion' < agentVersion =>
              \/ upgrade.nmp \in AllowDowngrade
              \/ upgrade.step = "restore" /\ agentVersion' = upgrade.backup]_managementVars
  <2> SUFFICES ASSUME ManagementInv, ManagementNext, agentVersion' < agentVersion
               PROVE  \/ upgrade.nmp \in AllowDowngrade
                      \/ upgrade.step = "restore" /\ agentVersion' = upgrade.backup
    OBVIOUS
  <2>1. CASE agentVersion' = agentVersion
    BY <2>1 DEF ManagementInv, ManagementTypeOK
  <2>2. CASE JobInstalls \/ JobFails \/ JobRollsBack
    <3>1. JobVersion < agentVersion => upgrade.nmp \in AllowDowngrade
      BY DEF JobVersion, InstallPkgs, ManagementInv, ManagementTypeOK, Upgrade
    <3>2. \/ agentVersion' \in {agentVersion, JobVersion}
          \/ upgrade.step = "restore" /\ agentVersion' = upgrade.backup
      BY <2>2 DEF JobInstalls, JobFails, JobRollsBack, JobStep
    <3> QED BY <3>1, <3>2 DEF ManagementInv, ManagementTypeOK
  <2>3. CASE ManagementRestart
    <3>1. agentVersion' = IF kind.cluster THEN k8s.image ELSE agentVersion
      BY <2>3 DEF ManagementRestart
    <3> QED BY <3>1 DEF ManagementInv, ManagementTypeOK
  <2>4. JobInstalls \/ JobFails \/ JobRollsBack \/ ManagementRestart \/ agentVersion' = agentVersion
    BY DEF ManagementNext, ProcessAllNMPS, CheckNMPTimeToRun, StartDownload, CheckHAWaiting,
           DownloadAgentUpgradePackages, DownloadPrecheckFails, DownloadCSSObjectFails, downloadVars,
           DownloadComplete, DownloadCompleteDropped, UpdateManagementStatusInitiated, ResetManagementStatus,
           JobPrecheckFails, JobRollbackStarts, UpdateManagementStatusEnded, HandleClusterUpgrade, ClusterCheck, ClusterFails, ClusterArchUnknown,
           UpdateAgentConfigmap, UpdateAgentDeploymentImage, ClusterDone, clusterVars, PolicyChange, Tick,
           PublishVersion, HandleAgentFilesVersionChange, MonitorHAGroupNMPUpdates, OtherTurn,
           environmentVars, HandleUnregister
  <2> QED BY <2>1, <2>2, <2>3, <2>4
<1> QED BY <1>1, <1>2, ManagementInvStep, PTL DEF ManagementSpec, VersionFallsOnlyIfAllowed

-----------------------------------------------------------------------------
(* The marker of the node policy.                                            *)

Policy == [dep : Deployments \cup {"none"}, builtins : BOOLEAN]
Versioned == [pol : Policy, ver : Nat]
PolicySteps == {"idle", "default", "put", "lock", "get", "reget", "save", "mark", "delete", "deleteCopy",
                "deleteMarker", "announce"}
PolicyOps == {"idle", "check", "setup", "update", "patch", "delete"}
PolicyWork == [op : PolicyOps, at : PolicySteps, dep : Deployments \cup {"none"}, got : Versioned,
               code : SUBSET {"changed", "privileged", "deleted"}]

PolicyTypeOK ==
  /\ xpol \in Versioned /\ lpol \in Policy /\ marker \in Nat /\ versions \in Nat
  /\ polLock \in Actors \cup {"free"} /\ polActor \in [Actors -> PolicyWork] /\ markerLeft \in BOOLEAN

\* The steps under nodePolicyUpdateLock.
UnderLock == {"get", "reget", "save", "mark", "delete", "deleteCopy", "deleteMarker"}
LockHeld == \A a \in Actors : polActor[a].at \in UnderLock => polLock = a

\* No version is used twice, and a policy that is there has one.
VersionsGrow ==
  /\ xpol.ver <= versions /\ marker <= versions /\ \A a \in Actors : polActor[a].got.ver <= versions
  /\ xpol.ver = 0 => xpol.pol = NoPolicy
  /\ \A a \in Actors : polActor[a].got.ver = 0 => polActor[a].got.pol = NoPolicy

\* What an actor that copies has read is still what its version names in the exchange; if
\* the marker names the exchange's policy then it is the one that was read, and the
\* copy is that one, if not before, then after it was saved, unless an unregistration deleted it.
CopyFollows(a) ==
  LET got == polActor[a].got IN
  /\ polActor[a].at \in {"save", "mark"} =>
       /\ xpol.ver = got.ver /\ got.ver # 0 => xpol.pol = got.pol
       /\ marker # 0 /\ xpol.ver = marker => got.ver = marker
  /\ polActor[a].at = "save" /\ marker # 0 /\ got.ver = marker /\ ~markerLeft => lpol = got.pol
  /\ polActor[a].at = "mark" /\ ~markerLeft => lpol = got.pol

\* While a policy is deleted the marker does not name another one.
DeleteFollows(a) ==
  polActor[a].at \in {"deleteCopy", "deleteMarker"} /\ marker # 0 /\ xpol.ver = marker => xpol.pol = NoPolicy

MarkerInv ==
  /\ PolicyTypeOK /\ LockHeld /\ VersionsGrow /\ PolicyMarkerTruthful
  /\ \A a \in Actors : CopyFollows(a) /\ DeleteFollows(a)

LEMMA NoPolicyType == NoPolicy \in Policy /\ [pol |-> NoPolicy, ver |-> 0] \in Versioned /\ IdlePolicy \in PolicyWork
BY DEF NoPolicy, Policy, Versioned, IdlePolicy, PolicyWork, PolicySteps, PolicyOps

\* Another policy in the exchange, with a version of its own: nobody has read it.
LEMMA ExchangeWritten ==
  ASSUME MarkerInv, NEW p \in Policy, PutExchangePolicy(p),
         UNCHANGED <<lpol, marker, polLock, markerLeft>>, polActor' \in [Actors -> PolicyWork],
         \A a \in Actors : /\ polActor'[a].got = polActor[a].got
                           /\ \/ polActor'[a].at = polActor[a].at
                              \/ polActor'[a].at = "lock"
                              \/ polActor[a].at = "get" /\ polActor'[a].at = "reget"
  PROVE  MarkerInv'
<1>1. xpol' = [pol |-> p, ver |-> versions + 1] /\ versions' = versions + 1
  BY DEF PutExchangePolicy
<1>2. xpol' \in Versioned /\ xpol'.ver = versions + 1 /\ xpol'.pol = p /\ versions \in Nat
  BY <1>1 DEF Versioned, MarkerInv, PolicyTypeOK
<1>3. PolicyTypeOK'
  BY <1>1, <1>2 DEF MarkerInv, PolicyTypeOK
<1>4. LockHeld'
  BY DEF MarkerInv, LockHeld, UnderLock
<1>5. /\ xpol.ver \in Nat /\ marker \in Nat /\ \A a \in Actors : polActor[a].got.ver \in Nat
      /\ marker <= versions /\ \A a \in Actors : polActor[a].got.ver <= versions
  BY DEF MarkerInv, PolicyTypeOK, VersionsGrow, Versioned, PolicyWork
<1>6. VersionsGrow'
  BY <1>1, <1>2, <1>5 DEF MarkerInv, VersionsGrow
<1>7. /\ xpol'.ver # marker' /\ \A a \in Actors : xpol'.ver # polActor'[a].got.ver
  BY <1>1, <1>2, <1>5
<1>8. PolicyMarkerTruthful'
  BY <1>7 DEF PolicyMarkerTruthful
<1>9. ASSUME NEW a \in Actors PROVE CopyFollows(a)' /\ DeleteFollows(a)'
  BY <1>7 DEF MarkerInv, CopyFollows, DeleteFollows
<1> QED BY <1>3, <1>4, <1>6, <1>8, <1>9 DEF MarkerInv

\* The exchange's policy is deleted.
LEMMA ExchangeDeleted ==
  ASSUME MarkerInv, xpol' = [pol |-> NoPolicy, ver |-> 0],
         UNCHANGED <<lpol, marker, polLock, markerLeft, versions>>, polActor' \in [Actors -> PolicyWork],
         \A a \in Actors : /\ polActor'[a].got = polActor[a].got
                           /\ \/ polActor'[a].at = polActor[a].at
                              \/ polActor[a].at = "delete" /\ polActor'[a].at = "deleteCopy"
  PROVE  MarkerInv'
<1>1. xpol' \in Versioned /\ xpol'.ver = 0 /\ xpol'.pol = NoPolicy
  BY NoPolicyType
<1>2. PolicyTypeOK'
  BY <1>1 DEF MarkerInv, PolicyTypeOK
<1>3. LockHeld'
  BY DEF MarkerInv, LockHeld, UnderLock
<1>4. VersionsGrow'
  <2>1. VersionsGrow /\ 0 <= versions
    BY DEF MarkerInv, PolicyTypeOK
  <2>2. \A a \in Actors : polActor'[a].got = polActor[a].got
    OBVIOUS
  <2> QED BY <1>1, <2>1, <2>2 DEF VersionsGrow
<1>5. PolicyMarkerTruthful'
  BY <1>1 DEF PolicyMarkerTruthful
<1>6. ASSUME NEW a \in Actors PROVE CopyFollows(a)' /\ DeleteFollows(a)'
  BY <1>1 DEF MarkerInv, CopyFollows, DeleteFollows
<1> QED BY <1>2, <1>3, <1>4, <1>5, <1>6 DEF MarkerInv

\* A step that goes on without reading or writing a policy, and may forget the marker.
LEMMA WentOn ==
  ASSUME MarkerInv, UNCHANGED <<xpol, versions, lpol, markerLeft>>, marker' \in {marker, 0},
         polActor' \in [Actors -> PolicyWork], polLock' \in Actors \cup {"free"}, LockHeld',
         \A a \in Actors : /\ \/ polActor'[a].got = polActor[a].got
                              \/ polActor'[a].got.ver = 0 /\ polActor'[a].got.pol = NoPolicy
                           /\ \/ polActor'[a].at = polActor[a].at /\ polActor'[a].got = polActor[a].got
                              \/ polActor'[a].at \notin {"save", "mark", "deleteCopy", "deleteMarker"}
                              \/ xpol.pol = NoPolicy /\ polActor'[a].at = "deleteCopy"
  PROVE  MarkerInv'
<1>1. PolicyTypeOK'
  <2>1. PolicyTypeOK /\ marker' \in Nat
    BY DEF MarkerInv, PolicyTypeOK
  <2> QED BY <2>1 DEF PolicyTypeOK
<1>2. VersionsGrow'
  <2>1. VersionsGrow /\ 0 <= versions /\ marker' <= versions
    BY DEF MarkerInv, PolicyTypeOK, VersionsGrow
  <2>2. ASSUME NEW a \in Actors
        PROVE  /\ polActor'[a].got.ver <= versions
               /\ polActor'[a].got.ver = 0 => polActor'[a].got.pol = NoPolicy
    BY <2>1 DEF VersionsGrow
  <2> QED BY <2>1, <2>2 DEF VersionsGrow
<1>3. PolicyMarkerTruthful'
  BY DEF MarkerInv, PolicyMarkerTruthful
<1>4. ASSUME NEW a \in Actors PROVE CopyFollows(a)' /\ DeleteFollows(a)'
  BY DEF MarkerInv, CopyFollows, DeleteFollows
<1> QED BY <1>1, <1>2, <1>3, <1>4 DEF MarkerInv

\* Only the actor that holds the lock is at one of its steps.
LEMMA AloneUnderLock ==
  ASSUME MarkerInv, NEW a \in Actors, NEW b \in Actors, b # a, polActor[a].at \in UnderLock
  PROVE  polActor[b].at \notin UnderLock
BY DEF MarkerInv, LockHeld

LEMMA BeginInv ==
  ASSUME MarkerInv,
         \/ CheckNodePolicyChanges \/ NodePolicyInitalSetup \/ DeleteNodePolicy
         \/ \E d \in Deployments : UpdateNodePolicy(d) \/ PatchNodePolicy(d)
  PROVE  MarkerInv'
<1>1. PICK a \in Actors, op \in PolicyOps \ {"idle"}, d \in Deployments \cup {"none"} : PolicyBegin(a, op, d)
  BY DEF CheckNodePolicyChanges, NodePolicyInitalSetup, DeleteNodePolicy, UpdateNodePolicy, PatchNodePolicy, Actors,
         PolicyOps
<1>2. PICK step \in {"lock", "default", "put"} :
        polActor' = [polActor EXCEPT ![a] = [IdlePolicy EXCEPT !.op = op, !.dep = d, !.at = step]]
  <2>1. op \in {"check", "setup", "update", "patch", "delete"}
    BY DEF PolicyOps
  <2> QED BY <1>1, <2>1 DEF PolicyBegin
<1>3. UNCHANGED <<xpol, versions, lpol, marker, polLock, markerLeft>>
  BY <1>1 DEF PolicyBegin, AtExchange
<1>4. /\ polActor' \in [Actors -> PolicyWork]
      /\ polActor'[a].at = step /\ polActor'[a].got.ver = 0 /\ polActor'[a].got.pol = NoPolicy
      /\ \A b \in Actors \ {a} : polActor'[b] = polActor[b]
  <2> DEFINE none == [pol |-> NoPolicy, ver |-> 0]
             r == [IdlePolicy EXCEPT !.op = op, !.dep = d, !.at = step]
  <2>1. none \in Versioned /\ none.ver = 0 /\ none.pol = NoPolicy
    BY NoPolicyType
  <2>2. IdlePolicy = [op |-> "idle", at |-> "idle", dep |-> "none", got |-> none, code |-> {}]
    BY DEF IdlePolicy
  <2> HIDE DEF none
  <2>3. IdlePolicy \in PolicyWork
    BY NoPolicyType
  <2>4. r \in PolicyWork /\ r.at = step /\ r.got = none
    BY <2>1, <2>2, <2>3 DEF PolicyWork, PolicySteps
  <2>5. polActor \in [Actors -> PolicyWork]
    BY DEF MarkerInv, PolicyTypeOK
  <2>6. polActor' = [polActor EXCEPT ![a] = r]
    BY <1>2
  <2> HIDE DEF r
  <2> QED BY <2>1, <2>4, <2>5, <2>6
<1>5. LockHeld'
  BY <1>3, <1>4 DEF MarkerInv, LockHeld, UnderLock
<1> QED BY <1>3, <1>4, <1>5, WentOn DEF MarkerInv, PolicyTypeOK

\* Actor a moves on to another step and keeps what it read.
Moves(a, step) ==
  /\ polActor' \in [Actors -> PolicyWork]
  /\ polActor'[a].at = step /\ polActor'[a].got = polActor[a].got
  /\ \A b \in Actors \ {a} : polActor'[b] = polActor[b]

LEMMA MovesOn ==
  ASSUME MarkerInv, NEW a \in Actors, NEW step \in PolicySteps, NEW op \in PolicyOps,
         NEW code \in SUBSET {"changed", "privileged", "deleted"},
         \/ polActor' = [polActor EXCEPT ![a].at = step]
         \/ polActor' = [polActor EXCEPT ![a].at = step, ![a].op = op]
         \/ polActor' = [polActor EXCEPT ![a].at = step, ![a].code = code]
  PROVE  Moves(a, step)
<1>1. polActor \in [Actors -> PolicyWork]
  BY DEF MarkerInv, PolicyTypeOK
<1>2. polActor[a] \in PolicyWork
  BY <1>1
<1>3. CASE polActor' = [polActor EXCEPT ![a].at = step]
  BY <1>1, <1>2, <1>3 DEF PolicyWork, Moves
<1>4. CASE polActor' = [polActor EXCEPT ![a].at = step, ![a].op = op]
  BY <1>1, <1>2, <1>4 DEF PolicyWork, Moves
<1>5. CASE polActor' = [polActor EXCEPT ![a].at = step, ![a].code = code]
  BY <1>1, <1>2, <1>5 DEF PolicyWork, Moves
<1> QED BY <1>3, <1>4, <1>5

LEMMA Finishes ==
  ASSUME MarkerInv, NEW a \in Actors, Finish(a)
  PROVE  /\ polActor' \in [Actors -> PolicyWork]
         /\ polActor'[a].at = "idle" /\ polActor'[a].got.ver = 0 /\ polActor'[a].got.pol = NoPolicy
         /\ \A b \in Actors \ {a} : polActor'[b] = polActor[b]
<1>1. polActor \in [Actors -> PolicyWork]
  BY DEF MarkerInv, PolicyTypeOK
<1>2. IdlePolicy \in PolicyWork /\ IdlePolicy.at = "idle" /\ IdlePolicy.got.ver = 0 /\ IdlePolicy.got.pol = NoPolicy
  BY NoPolicyType DEF IdlePolicy
<1> QED BY <1>1, <1>2 DEF Finish

LEMMA DefaultInv ==
  ASSUME MarkerInv, NEW a \in Actors, SetDefaultNodePolicy(a)
  PROVE  MarkerInv'
<1>1. /\ polActor[a].at = "default" /\ marker' = 0
      /\ UNCHANGED <<lpol, polLock, markerLeft, xpol, versions>> /\ To(a, "put")
  BY DEF SetDefaultNodePolicy, DeleteNodePolicyLastUpdated, AtDatabase, At
<1>2. Moves(a, "put")
  BY <1>1, MovesOn DEF To, PolicySteps, PolicyOps
<1>3. LockHeld'
  BY <1>1, <1>2 DEF MarkerInv, LockHeld, UnderLock, Moves
<1> QED BY <1>1, <1>2, <1>3, WentOn DEF MarkerInv, PolicyTypeOK, Moves

LEMMA PutInv ==
  ASSUME MarkerInv, NEW a \in Actors, PutPolicy(a)
  PROVE  MarkerInv'
<1>1. polActor[a].at = "put" /\ UNCHANGED <<lpol, marker, polLock, markerLeft>>
  BY DEF PutPolicy, At, AtExchange
<1>2. CASE Finish(a) /\ UNCHANGED <<xpol, versions>>
  <2>1. LockHeld'
    BY <1>1, <1>2, Finishes DEF MarkerInv, LockHeld, UnderLock
  <2> QED BY <1>1, <1>2, <2>1, Finishes, WentOn DEF MarkerInv, PolicyTypeOK
<1>3. CASE /\ PutExchangePolicy([dep |-> polActor[a].dep, builtins |-> TRUE])
           /\ polActor' = [polActor EXCEPT ![a].at = "lock", ![a].op = "update"]
  <2>1. [dep |-> polActor[a].dep, builtins |-> TRUE] \in Policy
    BY DEF MarkerInv, PolicyTypeOK, PolicyWork, Policy
  <2>2. Moves(a, "lock")
    BY <1>3, MovesOn DEF PolicySteps, PolicyOps
  <2> QED BY <1>1, <1>3, <2>1, <2>2, ExchangeWritten DEF Moves
<1> QED BY <1>2, <1>3 DEF PutPolicy

LEMMA LockInv ==
  ASSUME MarkerInv, NEW a \in Actors, Lock(a)
  PROVE  MarkerInv'
<1>1. /\ polActor[a].at = "lock" /\ polLock = "free" /\ polLock' = a
      /\ UNCHANGED <<lpol, marker, markerLeft, xpol, versions>>
  BY DEF Lock, At, AtDatabase
<1>2. PICK step \in {"delete", "get"} : Moves(a, step)
  <2>1. PICK step \in {"delete", "get"} : To(a, step)
    BY DEF Lock
  <2> QED BY <2>1, MovesOn DEF To, PolicySteps, PolicyOps
<1>3. "free" \notin Actors
  BY DEF Actors
<1>4. LockHeld'
  BY <1>1, <1>2, <1>3 DEF MarkerInv, LockHeld, Moves
<1> QED BY <1>1, <1>2, <1>4, WentOn DEF MarkerInv, PolicyTypeOK, Moves

\* Actor a has read the exchange's policy and is about to save it.
LEMMA HasRead ==
  ASSUME MarkerInv, NEW a \in Actors, polActor[a].at \in UnderLock,
         polActor' = [polActor EXCEPT ![a].at = "save", ![a].got = xpol],
         UNCHANGED <<xpol, versions, lpol, marker, polLock, markerLeft>>
  PROVE  MarkerInv'
<1>1. polActor \in [Actors -> PolicyWork] /\ polActor[a] \in PolicyWork /\ xpol \in Versioned
  BY DEF MarkerInv, PolicyTypeOK
<1>2. /\ polActor' \in [Actors -> PolicyWork]
      /\ polActor'[a].at = "save" /\ polActor'[a].got = xpol
      /\ \A b \in Actors \ {a} : polActor'[b] = polActor[b]
  BY <1>1 DEF PolicyWork, PolicySteps
<1>3. PolicyTypeOK'
  BY <1>2 DEF MarkerInv, PolicyTypeOK
<1>4. LockHeld'
  BY <1>2 DEF MarkerInv, LockHeld
<1>5. VersionsGrow'
  BY <1>2 DEF MarkerInv, VersionsGrow
<1>6. PolicyMarkerTruthful' /\ PolicyMarkerTruthful
  BY DEF MarkerInv, PolicyMarkerTruthful
<1>7. CopyFollows(a)' /\ DeleteFollows(a)'
  BY <1>2, <1>6 DEF CopyFollows, DeleteFollows, PolicyMarkerTruthful
<1>8. ASSUME NEW b \in Actors \ {a} PROVE CopyFollows(b)' /\ DeleteFollows(b)'
  BY <1>2 DEF MarkerInv, CopyFollows, DeleteFollows
<1> QED BY <1>3, <1>4, <1>5, <1>6, <1>7, <1>8 DEF MarkerInv

LEMMA GetProcessedInv ==
  ASSUME MarkerInv, NEW a \in Actors, GetProcessed(a)
  PROVE  MarkerInv'
<1>1. polActor[a].at = "get" /\ polActor[a].at \in UnderLock /\ UNCHANGED <<lpol, marker, polLock, markerLeft>>
  BY DEF GetProcessed, At, AtExchange, UnderLock
<1>2. CASE polActor' = [polActor EXCEPT ![a].at = "save", ![a].got = xpol] /\ UNCHANGED <<xpol, versions>>
  BY <1>1, <1>2, HasRead
<1>3. CASE PutExchangePolicy([xpol.pol EXCEPT !.builtins = TRUE]) /\ To(a, "reget")
  <2>1. [xpol.pol EXCEPT !.builtins = TRUE] \in Policy
    BY DEF MarkerInv, PolicyTypeOK, Versioned, Policy
  <2>2. Moves(a, "reget")
    BY <1>3, MovesOn DEF To, PolicySteps, PolicyOps
  <2> QED BY <1>1, <1>3, <2>1, <2>2, ExchangeWritten DEF Moves
<1> QED BY <1>2, <1>3 DEF GetProcessed

LEMMA GetAgainInv ==
  ASSUME MarkerInv, NEW a \in Actors, GetAgain(a)
  PROVE  MarkerInv'
BY HasRead DEF GetAgain, At, AtExchange, UnderLock

\* What nobody else at a step under the lock can be hurt by: the local copy, the marker
\* and the step of the actor that holds it.
LEMMA OthersUnhurt ==
  ASSUME MarkerInv, NEW a \in Actors, polActor[a].at \in UnderLock, NEW step \in PolicySteps, Moves(a, step),
         NEW b \in Actors \ {a}
  PROVE  CopyFollows(b)' /\ DeleteFollows(b)'
<1>1. polActor'[b].at \notin UnderLock
  BY AloneUnderLock DEF Moves
<1> QED BY <1>1 DEF CopyFollows, DeleteFollows, UnderLock

LEMMA Afterwards ==
  ASSUME MarkerInv, NEW a \in Actors, AfterCopy(a)
  PROVE  \E step \in {"put", "announce"} : Moves(a, step)
<1>1. CASE polActor[a].op = "patch"
  <2>1. PICK code \in SUBSET {"changed", "privileged", "deleted"} :
          polActor' = [polActor EXCEPT ![a].at = "put", ![a].code = code]
    BY <1>1 DEF AfterCopy
  <2>2. Moves(a, "put")
    BY <2>1, MovesOn DEF PolicySteps, PolicyOps
  <2> QED BY <2>2
<1>2. CASE polActor[a].op # "patch"
  <2>1. polActor' = [polActor EXCEPT ![a].at = "announce"]
    BY <1>2 DEF AfterCopy
  <2>2. Moves(a, "announce")
    BY <2>1, MovesOn DEF PolicySteps, PolicyOps
  <2> QED BY <2>2
<1> QED BY <1>1, <1>2

LEMMA UnchangedInv ==
  ASSUME MarkerInv, NEW a \in Actors, SyncUnchanged(a)
  PROVE  MarkerInv'
<1>1. /\ polActor[a].at = "save" /\ polActor[a].at \in UnderLock /\ polLock' = "free"
      /\ UNCHANGED <<lpol, marker, markerLeft, xpol, versions>> /\ AfterCopy(a)
  BY DEF SyncUnchanged, At, AtDatabase, UnderLock
<1>2. PICK step \in {"put", "announce"} : Moves(a, step)
  BY <1>1, Afterwards
<1>3. LockHeld'
  <2>1. \A b \in Actors \ {a} : polActor'[b].at \notin UnderLock
    BY <1>1, <1>2, AloneUnderLock DEF Moves
  <2> QED BY <1>2, <2>1 DEF LockHeld, UnderLock, Moves
<1> QED BY <1>1, <1>2, <1>3, WentOn DEF MarkerInv, PolicyTypeOK, Moves

LEMMA SaveInv ==
  ASSUME MarkerInv, NEW a \in Actors, SyncSave(a)
  PROVE  MarkerInv'
<1> DEFINE got == polActor[a].got
<1>1. /\ polActor[a].at = "save" /\ polActor[a].at \in UnderLock /\ markerLeft' = FALSE
      /\ UNCHANGED <<marker, polLock, xpol, versions>>
  BY DEF SyncSave, At, AtDatabase, UnderLock
<1>2. got \in Versioned /\ got.pol \in Policy /\ marker \in Nat
  BY DEF MarkerInv, PolicyTypeOK, PolicyWork, Versioned
<1>3. lpol' = got.pol /\ Moves(a, "mark")
  <2>1. CASE got.pol = NoPolicy
    <3>1. lpol' = NoPolicy
      BY <2>1 DEF SyncSave, DeleteLocalNodePolicy
    <3>2. PICK code \in SUBSET {"changed", "privileged", "deleted"} :
            polActor' = [polActor EXCEPT ![a].at = "mark", ![a].code = code]
      BY <2>1 DEF SyncSave
    <3> QED BY <2>1, <3>1, <3>2, MovesOn DEF PolicySteps, PolicyOps
  <2>2. CASE got.pol # NoPolicy
    <3>1. lpol' = got.pol
      BY <2>2 DEF SyncSave, SaveNodePolicy
    <3>2. PICK code \in SUBSET {"changed", "privileged", "deleted"} :
            polActor' = [polActor EXCEPT ![a].at = "mark", ![a].code = code]
      BY <2>2 DEF SyncSave, CompareWith
    <3> QED BY <3>1, <3>2, MovesOn DEF PolicySteps, PolicyOps
  <2> QED BY <2>1, <2>2
<1>4. PolicyTypeOK'
  BY <1>1, <1>2, <1>3 DEF MarkerInv, PolicyTypeOK, Moves
<1>5. LockHeld'
  BY <1>1, <1>3 DEF MarkerInv, LockHeld, Moves
<1>6. VersionsGrow'
  BY <1>1, <1>3 DEF MarkerInv, VersionsGrow, Moves
<1>7. /\ xpol.ver = got.ver /\ got.ver # 0 => xpol.pol = got.pol
      /\ marker # 0 /\ xpol.ver = marker => got.ver = marker
  BY <1>1 DEF MarkerInv, CopyFollows
<1>8. PolicyMarkerTruthful'
  BY <1>1, <1>3, <1>7 DEF PolicyMarkerTruthful
<1>9. CopyFollows(a)' /\ DeleteFollows(a)'
  BY <1>1, <1>3, <1>7 DEF CopyFollows, DeleteFollows, Moves
<1>10. \A b \in Actors \ {a} : CopyFollows(b)' /\ DeleteFollows(b)'
  BY <1>1, <1>3, OthersUnhurt DEF PolicySteps
<1> QED BY <1>4, <1>5, <1>6, <1>8, <1>9, <1>10 DEF MarkerInv

LEMMA MarkInv ==
  ASSUME MarkerInv, NEW a \in Actors, SyncMark(a)
  PROVE  MarkerInv'
<1> DEFINE got == polActor[a].got
<1>1. /\ polActor[a].at = "mark" /\ polActor[a].at \in UnderLock /\ polLock' = "free"
      /\ UNCHANGED <<lpol, markerLeft, xpol, versions>> /\ AfterCopy(a)
  BY DEF SyncMark, At, AtDatabase, UnderLock
<1>2. got \in Versioned /\ got.ver \in Nat
  BY DEF MarkerInv, PolicyTypeOK, PolicyWork, Versioned
<1>3. PICK step \in {"put", "announce"} : Moves(a, step)
  BY <1>1, Afterwards
<1>4. marker' \in {0, got.ver}
  BY DEF SyncMark, DeleteNodePolicyLastUpdated, SaveNodePolicyLastUpdated
<1>5. PolicyTypeOK'
  BY <1>1, <1>2, <1>3, <1>4 DEF MarkerInv, PolicyTypeOK, Moves
<1>6. LockHeld'
  <2>1. \A b \in Actors \ {a} : polActor'[b].at \notin UnderLock
    BY <1>1, <1>3, AloneUnderLock DEF Moves
  <2> QED BY <1>3, <2>1 DEF LockHeld, UnderLock, Moves
<1>7. VersionsGrow'
  <2>1. VersionsGrow /\ marker' <= versions
    BY <1>4 DEF MarkerInv, PolicyTypeOK, VersionsGrow
  <2> QED BY <1>1, <1>3, <2>1 DEF VersionsGrow, Moves
<1>8. /\ xpol.ver = got.ver /\ got.ver # 0 => xpol.pol = got.pol
      /\ ~markerLeft => lpol = got.pol
  BY <1>1 DEF MarkerInv, CopyFollows
<1>9. PolicyMarkerTruthful'
  BY <1>1, <1>4, <1>8 DEF PolicyMarkerTruthful
<1>10. CopyFollows(a)' /\ DeleteFollows(a)'
  BY <1>3 DEF CopyFollows, DeleteFollows, Moves
<1>11. \A b \in Actors \ {a} : CopyFollows(b)' /\ DeleteFollows(b)'
  BY <1>1, <1>3, OthersUnhurt DEF PolicySteps
<1> QED BY <1>5, <1>6, <1>7, <1>9, <1>10, <1>11 DEF MarkerInv

LEMMA DeleteExchangeInv ==
  ASSUME MarkerInv, NEW a \in Actors, DeletePolicyExchange(a)
  PROVE  MarkerInv'
<1>1. polActor[a].at = "delete" /\ UNCHANGED <<lpol, marker, polLock, markerLeft, versions>> /\ To(a, "deleteCopy")
  BY DEF DeletePolicyExchange, At, AtExchange
<1>2. Moves(a, "deleteCopy")
  BY <1>1, MovesOn DEF To, PolicySteps, PolicyOps
<1>3. CASE xpol.pol = NoPolicy
  <2>1. UNCHANGED xpol
    BY <1>3 DEF DeletePolicyExchange
  <2>2. LockHeld'
    BY <1>1, <1>2 DEF MarkerInv, LockHeld, UnderLock, Moves
  <2> QED BY <1>1, <1>2, <1>3, <2>1, <2>2, WentOn DEF MarkerInv, PolicyTypeOK, Moves
<1>4. CASE xpol.pol # NoPolicy
  BY <1>1, <1>2, <1>4, ExchangeDeleted DEF DeletePolicyExchange, Moves
<1> QED BY <1>3, <1>4

LEMMA DeleteCopyInv ==
  ASSUME MarkerInv, NEW a \in Actors, DeletePolicyCopy(a)
  PROVE  MarkerInv'
<1>1. /\ polActor[a].at = "deleteCopy" /\ polActor[a].at \in UnderLock /\ lpol' = NoPolicy /\ To(a, "deleteMarker")
      /\ UNCHANGED <<marker, polLock, markerLeft, xpol, versions>>
  BY DEF DeletePolicyCopy, At, AtDatabase, UnderLock, DeleteLocalNodePolicy
<1>2. Moves(a, "deleteMarker")
  BY <1>1, MovesOn DEF To, PolicySteps, PolicyOps
<1>3. PolicyTypeOK'
  BY <1>1, <1>2, NoPolicyType DEF MarkerInv, PolicyTypeOK, Moves
<1>4. LockHeld'
  BY <1>1, <1>2 DEF MarkerInv, LockHeld, Moves
<1>5. VersionsGrow'
  BY <1>1, <1>2 DEF MarkerInv, VersionsGrow, Moves
<1>6. marker # 0 /\ xpol.ver = marker => xpol.pol = NoPolicy
  BY <1>1 DEF MarkerInv, DeleteFollows
<1>7. PolicyMarkerTruthful'
  BY <1>1, <1>6 DEF PolicyMarkerTruthful
<1>8. CopyFollows(a)' /\ DeleteFollows(a)'
  BY <1>1, <1>2, <1>6 DEF CopyFollows, DeleteFollows, Moves
<1>9. \A b \in Actors \ {a} : CopyFollows(b)' /\ DeleteFollows(b)'
  BY <1>1, <1>2, OthersUnhurt DEF PolicySteps
<1> QED BY <1>3, <1>4, <1>5, <1>7, <1>8, <1>9 DEF MarkerInv

LEMMA DeleteMarkerInv ==
  ASSUME MarkerInv, NEW a \in Actors, DeletePolicyMarker(a)
  PROVE  MarkerInv'
<1>1. /\ polActor[a].at = "deleteMarker" /\ polActor[a].at \in UnderLock /\ marker' = 0 /\ polLock' = "free"
      /\ UNCHANGED <<lpol, markerLeft, xpol, versions>>
      /\ polActor' = [polActor EXCEPT ![a].at = "announce", ![a].code = {"deleted"}]
  BY DEF DeletePolicyMarker, At, AtDatabase, UnderLock, DeleteNodePolicyLastUpdated
<1>2. Moves(a, "announce")
  BY <1>1, MovesOn DEF PolicySteps, PolicyOps
<1>3. LockHeld'
  <2>1. \A b \in Actors \ {a} : polActor'[b].at \notin UnderLock
    BY <1>1, <1>2, AloneUnderLock DEF Moves
  <2> QED BY <1>2, <2>1 DEF LockHeld, UnderLock, Moves
<1> QED BY <1>1, <1>2, <1>3, WentOn DEF MarkerInv, PolicyTypeOK, Moves

LEMMA AnnounceInv ==
  ASSUME MarkerInv, NEW a \in Actors, AnnouncePolicy(a)
  PROVE  MarkerInv'
<1>1. polActor[a].at = "announce" /\ Finish(a) /\ UNCHANGED <<xpol, versions, lpol, marker, polLock, markerLeft>>
  BY DEF AnnouncePolicy, At
<1>2. LockHeld'
  BY <1>1, Finishes DEF MarkerInv, LockHeld, UnderLock
<1> QED BY <1>1, <1>2, Finishes, WentOn DEF MarkerInv, PolicyTypeOK

\* An unregistration deletes the copy: a marker that is there, or about to be saved, is left.
LEMMA UnregisterCopyInv ==
  ASSUME MarkerInv, UnregisterCopy
  PROVE  MarkerInv'
<1>1. /\ lpol' = NoPolicy /\ markerLeft' = (markerLeft \/ marker # 0 \/ \E a \in Actors : At(a, "mark"))
      /\ UNCHANGED <<xpol, versions, marker, polLock, polActor>>
  BY DEF UnregisterCopy, DeleteLocalNodePolicy
<1>2. PolicyTypeOK'
  BY <1>1, NoPolicyType DEF MarkerInv, PolicyTypeOK
<1>3. LockHeld' /\ VersionsGrow'
  BY <1>1 DEF MarkerInv, LockHeld, VersionsGrow
<1>4. PolicyMarkerTruthful'
  BY <1>1 DEF PolicyMarkerTruthful
<1>5. ASSUME NEW a \in Actors PROVE CopyFollows(a)' /\ DeleteFollows(a)'
  BY <1>1 DEF MarkerInv, CopyFollows, DeleteFollows, At
<1> QED BY <1>2, <1>3, <1>4, <1>5 DEF MarkerInv

LEMMA UnregisterMarkerInv ==
  ASSUME MarkerInv, UnregisterMarker
  PROVE  MarkerInv'
<1>1. /\ marker' = 0 /\ markerLeft' = (markerLeft /\ \E a \in Actors : At(a, "mark"))
      /\ UNCHANGED <<xpol, versions, lpol, polLock, polActor>>
  BY DEF UnregisterMarker, DeleteNodePolicyLastUpdated
<1>2. PolicyTypeOK'
  BY <1>1 DEF MarkerInv, PolicyTypeOK
<1>3. LockHeld' /\ VersionsGrow'
  <2>1. 0 <= versions
    BY DEF MarkerInv, PolicyTypeOK
  <2> QED BY <1>1, <2>1 DEF MarkerInv, LockHeld, VersionsGrow
<1>4. PolicyMarkerTruthful'
  BY <1>1 DEF PolicyMarkerTruthful
<1>5. ASSUME NEW a \in Actors PROVE CopyFollows(a)' /\ DeleteFollows(a)'
  BY <1>1 DEF MarkerInv, CopyFollows, DeleteFollows, At
<1> QED BY <1>2, <1>3, <1>4, <1>5 DEF MarkerInv

LEMMA AdminInv ==
  ASSUME MarkerInv, AdminDelete \/ \E d \in Deployments : AdminPolicy(d)
  PROVE  MarkerInv'
<1>1. CASE AdminDelete
  BY <1>1, ExchangeDeleted DEF AdminDelete, AtExchange, MarkerInv, PolicyTypeOK
<1>2. ASSUME NEW d \in Deployments, AdminPolicy(d) PROVE MarkerInv'
  <2>1. [dep |-> d, builtins |-> FALSE] \in Policy
    BY DEF Policy
  <2> QED BY <1>2, <2>1, ExchangeWritten DEF AdminPolicy, AtExchange, MarkerInv, PolicyTypeOK
<1> QED BY <1>1, <1>2

LEMMA RestartInv ==
  ASSUME MarkerInv, SyncRestart
  PROVE  MarkerInv'
<1>1. /\ polLock' = "free" /\ UNCHANGED <<xpol, lpol, marker, markerLeft, versions>>
      /\ polActor' = [a \in Actors |-> IdlePolicy]
  BY DEF SyncRestart
<1>2. IdlePolicy \in PolicyWork /\ IdlePolicy.at = "idle" /\ IdlePolicy.got.ver = 0 /\ IdlePolicy.got.pol = NoPolicy
  BY NoPolicyType DEF IdlePolicy
<1>3. polActor' \in [Actors -> PolicyWork] /\ \A a \in Actors : polActor'[a] = IdlePolicy
  BY <1>1, <1>2
<1>4. LockHeld'
  BY <1>2, <1>3 DEF LockHeld, UnderLock
<1> QED BY <1>1, <1>2, <1>3, <1>4, WentOn

LEMMA PolicyUntouched ==
  ASSUME MarkerInv, UNCHANGED <<xpol, versions, lpol, marker, polLock, polActor, markerLeft>>
  PROVE  MarkerInv'
BY WentOn DEF MarkerInv, PolicyTypeOK, LockHeld

LEMMA MarkerInvStep == MarkerInv /\ [SyncNext]_syncVars => MarkerInv'
<1> SUFFICES ASSUME MarkerInv, [SyncNext]_syncVars PROVE MarkerInv'
  OBVIOUS
<1>1. CASE UNCHANGED syncVars \/ SyncInputStep \/ HandleNodePolicyUpdated \/ UnregisterFails
  BY <1>1, PolicyUntouched DEF syncVars, policyVars, SyncInputStep, HandleNodePolicyUpdated, UnregisterFails
<1>2. CASE SyncRestart
  BY <1>2, RestartInv
<1>3. CASE PolicyNext
  BY <1>1, <1>3, BeginInv, DefaultInv, PutInv, LockInv, GetProcessedInv, GetAgainInv, UnchangedInv, SaveInv, MarkInv, AnnounceInv,
     DeleteExchangeInv, DeleteCopyInv, DeleteMarkerInv, AdminInv, UnregisterCopyInv, UnregisterMarkerInv DEF PolicyNext
<1> QED BY <1>1, <1>2, <1>3 DEF SyncNext, SyncPolicyStep

\* The marker of the node policy is truthful in every state: where it names the exchange's
\* policy the local copy is that policy, for any number of writes, requests, unregistrations and
\* restarts, but for a marker that outlived the unregistration that deleted the copy.
THEOREM PolicyMarkerIsTruthful == SyncSpec => []PolicyMarkerTruthful
<1>1. SyncInit => MarkerInv
  <2> SUFFICES ASSUME SyncInit PROVE MarkerInv
    OBVIOUS
  <2>1. /\ xpol \in Versioned /\ xpol.ver = 0 /\ xpol.pol = NoPolicy /\ lpol \in Policy /\ marker = 0
        /\ versions = 0 /\ markerLeft = FALSE /\ polLock = "free" /\ polActor = [a \in Actors |-> IdlePolicy]
    BY NoPolicyType DEF SyncInit
  <2>2. IdlePolicy \in PolicyWork /\ IdlePolicy.at = "idle" /\ IdlePolicy.got.ver = 0 /\ IdlePolicy.got.pol = NoPolicy
    BY NoPolicyType DEF IdlePolicy
  <2>3. polActor \in [Actors -> PolicyWork] /\ \A a \in Actors : polActor[a] = IdlePolicy
    BY <2>1, <2>2
  <2>4. PolicyTypeOK
    BY <2>1, <2>3 DEF PolicyTypeOK
  <2>6. LockHeld /\ VersionsGrow /\ PolicyMarkerTruthful
    BY <2>1, <2>2, <2>3 DEF LockHeld, VersionsGrow, PolicyMarkerTruthful, UnderLock
  <2>5. \A a \in Actors : CopyFollows(a) /\ DeleteFollows(a)
    BY <2>2, <2>3 DEF CopyFollows, DeleteFollows
  <2> QED BY <2>4, <2>5, <2>6 DEF MarkerInv
<1>2. MarkerInv => PolicyMarkerTruthful
  BY DEF MarkerInv
<1> QED BY <1>1, <1>2, MarkerInvStep, PTL DEF SyncSpec

-----------------------------------------------------------------------------
(* The secrets of the services: file and record.                            *)

SecretRecord == [value : Nat, ags : SUBSET SecretDeals, created : Nat, updated : Nat]
SecretMessage == [ag : SecretDeals, name : SecretNames, value : Nat]
UpdateWork == [on : {TRUE}, todo : SUBSET Instances, file : SUBSET Instances]

SecretsTypeOK ==
  /\ dealState \in [SecretDeals -> {"none", "made", "ended", "gone"}]
  /\ phase \in [Instances -> {"new", "planned", "up", "over"}]
  /\ agentStops \in Nat /\ secretValue \in Nat /\ inbox \in Seq(SecretMessage)
  /\ writing = NotWriting \/ writing \in UpdateWork
  /\ writing.on => inbox # <<>>
  /\ \A a \in SecretDeals : agSecrets[a] # NoSecrets =>
       \A i \in Instances : \A n \in DOMAIN agSecrets[a][i] : agSecrets[a][i][n] \in Nat
  /\ agSecrets = [a \in SecretDeals |-> agSecrets[a]]
  /\ secretRec = [i \in Instances |-> secretRec[i]] /\ secretFile = [i \in Instances |-> secretFile[i]]
  /\ \A i \in Instances : \A n \in DOMAIN secretRec[i] : secretRec[i][n] \in SecretRecord

\* A clean-up under way is for an agreement that ended; but for the instances updated since,
\* its copy has every secret that is recorded, with the value that is recorded.
RemovalOK ==
  removing.on =>
    /\ removing = [on |-> TRUE, ag |-> removing.ag, copy |-> removing.copy, updated |-> removing.updated,
                   todo |-> removing.todo]
    /\ removing.ag \in SecretDeals /\ dealState[removing.ag] = "ended"
    /\ removing.copy = [i \in Instances |-> removing.copy[i]]
    /\ \A i \in Instances : \A n \in DOMAIN removing.copy[i] : removing.copy[i][n] \in SecretRecord
    /\ \A i \in Instances, n \in SecretNames : <<i, n>> \in removing.todo =>
         n \in DOMAIN removing.copy[i] /\ phase[i] \notin {"new", "planned"}
    /\ \A i \in Instances \ removing.updated : \A n \in DOMAIN secretRec[i] :
         n \in DOMAIN removing.copy[i] /\ removing.copy[i][n].value = secretRec[i][n].value

SomeEnded == \E a \in SecretDeals : dealState[a] \in {"ended", "gone"}

\* Nothing is recorded, and nothing updated, before the instance is up.
NothingBeforeStart ==
  \A i \in Instances : phase[i] \in {"new", "planned"} =>
    DOMAIN secretRec[i] = {} /\ (writing.on => i \notin writing.todo \cup writing.file)

\* Between record and file the record holds what the message says.
RecordWritten ==
  writing.on => \A i \in writing.file \ strayed :
    \/ secretFile[i] = NoSecrets
    \/ /\ Head(inbox).name \in DOMAIN secretRec[i]
       /\ secretRec[i][Head(inbox).name].value = Head(inbox).value
       /\ Head(inbox).ag \in secretRec[i][Head(inbox).name].ags \/ SomeEnded

\* The file of i differs from the record because of the message that is processed now, or
\* will be again after a restart: then i is still to be written.
AwaitsFile(i, n) ==
  /\ inbox # <<>> /\ Head(inbox).name = n /\ Head(inbox).value = secretRec[i][n].value
  /\ writing.on => i \in writing.todo \cup writing.file
  /\ \/ agentStops = 0 /\ writing.on /\ i \in writing.file
     \/ agentStops > 0 /\ Head(inbox).ag \in secretRec[i][n].ags

FileOK(i, n) ==
  i \notin strayed =>
  /\ n \in DOMAIN secretRec[i]
  /\ \/ secretFile[i][n] = secretRec[i][n].value
     \/ agentStops > 0 /\ SomeEnded
     \/ AwaitsFile(i, n)

SecretsInv ==
  /\ SecretsTypeOK /\ NothingBeforeStart /\ RecordWritten /\ RemovalOK
  /\ \A i \in Instances : \A n \in DOMAIN secretFile[i] : FileOK(i, n)

LEMMA NoSecretsEmpty == DOMAIN NoSecrets = {}
BY DEF NoSecrets

LEMMA WorkType ==
  ASSUME SecretsInv, writing.on
  PROVE  writing \in UpdateWork /\ writing.todo \subseteq Instances /\ writing.file \subseteq Instances
<1>1. writing # NotWriting
  BY DEF NotWriting
<1> QED BY <1>1 DEF SecretsInv, SecretsTypeOK, UpdateWork

\* An instance whose record and file are as they were, and for which neither the message nor
\* the update under way has changed, is as it was.
LEMMA SameInstance ==
  ASSUME SecretsInv, NEW i \in Instances, secretRec'[i] = secretRec[i], secretFile'[i] = secretFile[i],
         UNCHANGED <<agentStops, writing>>, strayed \subseteq strayed', SomeEnded => SomeEnded',
         inbox # <<>> => inbox' # <<>> /\ Head(inbox') = Head(inbox)
  PROVE  \A n \in DOMAIN secretFile'[i] : FileOK(i, n)'
BY DEF SecretsInv, FileOK, AwaitsFile

LEMMA EndedStays ==
  ASSUME SecretsInv, UNCHANGED dealState
  PROVE  SomeEnded => SomeEnded'
BY DEF SomeEnded

\* A clean-up goes on while agreements are made or end.
LEMMA RemovalStays ==
  ASSUME SecretsInv, UNCHANGED <<secretRec, removing>>,
         \A a \in SecretDeals : dealState[a] = "ended" => dealState'[a] = "ended",
         \A i \in Instances : phase'[i] \in {"new", "planned"} => phase[i] \in {"new", "planned"}
  PROVE  RemovalOK'
<1>1. RemovalOK
  BY DEF SecretsInv
<1> QED BY <1>1 DEF RemovalOK

\* The steps that touch neither record nor file, nor the update.
LEMMA SecretsUntouched ==
  ASSUME SecretsInv, SecretsTypeOK', UNCHANGED <<secretRec, secretFile, agentStops, writing, removing, strayed>>,
         \A a \in SecretDeals : dealState[a] = "ended" => dealState'[a] = "ended",
         SomeEnded => SomeEnded', \A i \in Instances : phase'[i] \in {"new", "planned"} => phase[i] \in {"new", "planned"},
         inbox # <<>> => inbox' # <<>> /\ Head(inbox') = Head(inbox)
  PROVE  SecretsInv'
<1>1. NothingBeforeStart'
  BY DEF SecretsInv, NothingBeforeStart
<1>2. RecordWritten'
  BY DEF SecretsInv, SecretsTypeOK, RecordWritten
<1>3. \A i \in Instances : \A n \in DOMAIN secretFile'[i] : FileOK(i, n)'
  BY SameInstance
<1>4. RemovalOK'
  BY RemovalStays
<1> QED BY <1>1, <1>2, <1>3, <1>4 DEF SecretsInv

LEMMA DealInv ==
  ASSUME SecretsInv, NEW a \in SecretDeals, AcceptProposal(a) \/ DeleteAgreementSecrets(a)
  PROVE  SecretsInv'
<1>1. /\ UNCHANGED <<secretRec, secretFile, phase, inbox, writing, removing, strayed, secretValue, agentStops>>
      /\ dealState[a] \in {"none", "made"}
      /\ \E s \in {"made", "ended"} : dealState' = [dealState EXCEPT ![a] = s]
  BY DEF AcceptProposal, DeleteAgreementSecrets
<1>2. /\ \A b \in SecretDeals : agSecrets'[b] # NoSecrets =>
           \A i \in Instances : \A n \in DOMAIN agSecrets'[b][i] : agSecrets'[b][i][n] \in Nat
      /\ agSecrets' = [b \in SecretDeals |-> agSecrets'[b]]
  <2> DEFINE proposed == [i \in Instances |-> [n \in Provides[a][i] |-> secretValue]]
  <2>1. \/ agSecrets' = [agSecrets EXCEPT ![a] = proposed]
        \/ agSecrets' = [agSecrets EXCEPT ![a] = NoSecrets]
    BY DEF AcceptProposal, DeleteAgreementSecrets
  <2>2. \A i \in Instances : \A n \in DOMAIN proposed[i] : proposed[i][n] \in Nat
    BY DEF SecretsInv, SecretsTypeOK
  <2> HIDE DEF proposed
  <2>3. /\ agSecrets = [b \in SecretDeals |-> agSecrets[b]]
        /\ \A b \in SecretDeals : agSecrets[b] # NoSecrets =>
             \A i \in Instances : \A n \in DOMAIN agSecrets[b][i] : agSecrets[b][i][n] \in Nat
    BY DEF SecretsInv, SecretsTypeOK
  <2>4. /\ agSecrets' = [b \in SecretDeals |-> agSecrets'[b]] /\ agSecrets'[a] \in {proposed, NoSecrets}
        /\ \A b \in SecretDeals \ {a} : agSecrets'[b] = agSecrets[b]
    BY <2>1, <2>3
  <2> QED BY <2>2, <2>3, <2>4
<1>3. SecretsTypeOK'
  BY <1>1, <1>2 DEF SecretsInv, SecretsTypeOK
<1>4. SomeEnded => SomeEnded'
  BY <1>1 DEF SecretsInv, SecretsTypeOK, SomeEnded
<1>5. \A b \in SecretDeals : dealState[b] = "ended" => dealState'[b] = "ended"
  BY <1>1 DEF SecretsInv, SecretsTypeOK
<1> QED BY <1>1, <1>3, <1>4, <1>5, SecretsUntouched

LEMMA PlanInv ==
  ASSUME SecretsInv, NEW a \in SecretDeals, NEW i \in Instances, PlanInstance(a, i)
  PROVE  SecretsInv'
<1>1. SecretsTypeOK'
  BY DEF PlanInstance, secretStore, SecretsInv, SecretsTypeOK
<1> QED BY <1>1, SecretsUntouched DEF PlanInstance, secretStore, SecretsInv, SecretsTypeOK, SomeEnded

LEMMA SendInv ==
  ASSUME SecretsInv, NEW a \in SecretDeals, NEW n \in SecretNames, SendUpdate(a, n)
  PROVE  SecretsInv'
<1> DEFINE m == [ag |-> a, name |-> n, value |-> secretValue + 1]
<1>1. /\ UNCHANGED <<dealState, agSecrets, secretRec, secretFile, phase, writing, removing, strayed, agentStops>>
      /\ inbox' = Append(inbox, m) /\ secretValue' = secretValue + 1
  BY DEF SendUpdate, secretStore
<1>2. m \in SecretMessage /\ inbox \in Seq(SecretMessage)
  BY DEF SecretsInv, SecretsTypeOK, SecretMessage
<1> HIDE DEF m
<1>3. inbox' \in Seq(SecretMessage) /\ inbox' # <<>> /\ (inbox # <<>> => Head(inbox') = Head(inbox))
  BY <1>1, <1>2
<1>4. SecretsTypeOK'
  BY <1>1, <1>3 DEF SecretsInv, SecretsTypeOK
<1> QED BY <1>1, <1>3, <1>4, EndedStays, SecretsUntouched

LEMMA ServiceInv ==
  ASSUME SecretsInv, UNCHANGED <<dealState, secretStore, phase, inbox, writing, removing, strayed, secretValue, agentStops>>
  PROVE  SecretsInv'
<1>1. SecretsTypeOK'
  BY DEF secretStore, SecretsInv, SecretsTypeOK
<1> QED BY <1>1, EndedStays, SecretsUntouched DEF secretStore

LEMMA ShareInv ==
  ASSUME SecretsInv, NEW a \in SecretDeals, NEW i \in Instances, ShareInstance(a, i)
  PROVE  SecretsInv'
<1> DEFINE joined == [n \in DOMAIN secretRec[i] |->
                        [secretRec[i][n] EXCEPT !.ags = secretRec[i][n].ags \cup {a}]]
<1>1. /\ UNCHANGED <<dealState, agSecrets, secretFile, phase, inbox, writing, removing, strayed, secretValue, agentStops>>
      /\ secretRec' = [secretRec EXCEPT ![i] = joined]
  BY DEF ShareInstance
<1>2. /\ DOMAIN joined = DOMAIN secretRec[i]
      /\ \A n \in DOMAIN joined : /\ joined[n] \in SecretRecord /\ joined[n].value = secretRec[i][n].value
                                  /\ secretRec[i][n].ags \subseteq joined[n].ags
  <2>1. ASSUME NEW n \in DOMAIN secretRec[i]
        PROVE  /\ joined[n] \in SecretRecord /\ joined[n].value = secretRec[i][n].value
               /\ secretRec[i][n].ags \subseteq joined[n].ags
    <3>1. secretRec[i][n] \in SecretRecord
      BY DEF SecretsInv, SecretsTypeOK
    <3>2. joined[n] = [secretRec[i][n] EXCEPT !.ags = secretRec[i][n].ags \cup {a}]
      BY <2>1
    <3> HIDE DEF joined
    <3> QED BY <3>1, <3>2 DEF SecretRecord
  <2> QED BY <2>1
<1> HIDE DEF joined
<1>3. /\ secretRec' = [j \in Instances |-> secretRec'[j]] /\ secretRec'[i] = joined
      /\ \A j \in Instances \ {i} : secretRec'[j] = secretRec[j]
  BY <1>1 DEF SecretsInv, SecretsTypeOK
<1>4. SecretsTypeOK'
  BY <1>1, <1>2, <1>3 DEF SecretsInv, SecretsTypeOK
<1>5. NothingBeforeStart'
  BY <1>1, <1>2, <1>3 DEF SecretsInv, NothingBeforeStart
<1>6. SomeEnded => SomeEnded'
  BY <1>1, EndedStays
<1>7. RecordWritten'
  <2>1. RecordWritten /\ (writing.on => writing.file \subseteq Instances)
    BY WorkType DEF SecretsInv
  <2> QED BY <1>1, <1>2, <1>3, <1>6, <2>1 DEF RecordWritten
<1>8. ASSUME NEW j \in Instances, NEW n \in DOMAIN secretFile'[j] PROVE FileOK(j, n)'
  <2>1. FileOK(j, n) /\ secretFile'[j][n] = secretFile[j][n]
    BY <1>1, <1>8 DEF SecretsInv
  <2>2. CASE j = i
    BY <1>1, <1>2, <1>3, <1>6, <2>1, <2>2 DEF FileOK, AwaitsFile
  <2>3. CASE j # i
    BY <1>1, <1>3, <1>6, <2>1, <2>3 DEF FileOK, AwaitsFile
  <2> QED BY <2>2, <2>3
<1>9. RemovalOK'
  <2>1. RemovalOK
    BY DEF SecretsInv
  <2> QED BY <1>1, <1>2, <1>3, <2>1 DEF RemovalOK
<1> QED BY <1>4, <1>5, <1>7, <1>8, <1>9 DEF SecretsInv

\* A new instance: its files are written from its record.
LEMMA StartInv ==
  ASSUME SecretsInv, NEW a \in SecretDeals, NEW i \in Instances, StartInstance(a, i)
  PROVE  SecretsInv'
<1> DEFINE saved == SaveFromAgreement(a, i)
           files == [n \in DOMAIN saved |-> saved[n].value]
<1>1. /\ ~removing.on /\ UNCHANGED <<dealState, agSecrets, inbox, writing, removing, strayed, secretValue, agentStops>>
      /\ phase[i] = "planned" /\ phase' = [phase EXCEPT ![i] = "up"]
      /\ secretRec' = [secretRec EXCEPT ![i] = saved] /\ secretFile' = [secretFile EXCEPT ![i] = files]
  BY DEF StartInstance
<1>2. DOMAIN secretRec[i] = {} /\ (writing.on => i \notin writing.todo \cup writing.file)
  BY <1>1 DEF SecretsInv, NothingBeforeStart
<1>3. \A n \in DOMAIN saved : saved[n] \in SecretRecord
  <2>1. CASE agSecrets[a] = NoSecrets
    BY <1>2, <2>1 DEF SaveFromAgreement
  <2>2. CASE agSecrets[a] # NoSecrets
    <3>1. saved = [n \in DOMAIN agSecrets[a][i] |->
                     [value |-> agSecrets[a][i][n], ags |-> {a}, created |-> secretValue, updated |-> secretValue]]
      BY <1>2, <2>2 DEF SaveFromAgreement
    <3>2. secretValue \in Nat /\ \A n \in DOMAIN agSecrets[a][i] : agSecrets[a][i][n] \in Nat
      BY <2>2 DEF SecretsInv, SecretsTypeOK
    <3> HIDE DEF saved
    <3> QED BY <3>1, <3>2 DEF SecretRecord
  <2> QED BY <2>1, <2>2
<1>4. DOMAIN files = DOMAIN saved /\ \A n \in DOMAIN files : files[n] = saved[n].value
  OBVIOUS
<1> HIDE DEF saved, files
<1>5. /\ secretRec' = [j \in Instances |-> secretRec'[j]] /\ secretRec'[i] = saved
      /\ \A j \in Instances \ {i} : secretRec'[j] = secretRec[j]
  BY <1>1 DEF SecretsInv, SecretsTypeOK
<1>6. /\ secretFile' = [j \in Instances |-> secretFile'[j]] /\ secretFile'[i] = files
      /\ \A j \in Instances \ {i} : secretFile'[j] = secretFile[j]
  BY <1>1 DEF SecretsInv, SecretsTypeOK
<1>7. /\ phase' \in [Instances -> {"new", "planned", "up", "over"}] /\ phase'[i] = "up"
      /\ \A j \in Instances \ {i} : phase'[j] = phase[j]
  BY <1>1 DEF SecretsInv, SecretsTypeOK
<1>8. SecretsTypeOK'
  <2>1. \A j \in Instances : \A n \in DOMAIN secretRec'[j] : secretRec'[j][n] \in SecretRecord
    BY <1>3, <1>5 DEF SecretsInv, SecretsTypeOK
  <2> QED BY <1>1, <1>5, <1>6, <1>7, <2>1 DEF SecretsInv, SecretsTypeOK
<1>9. NothingBeforeStart'
  BY <1>1, <1>5, <1>7 DEF SecretsInv, NothingBeforeStart
<1>10. SomeEnded => SomeEnded'
  BY <1>1, EndedStays
<1>11. RecordWritten'
  <2>1. RecordWritten /\ (writing.on => writing.file \subseteq Instances \ {i})
    BY <1>2, WorkType DEF SecretsInv
  <2> QED BY <1>1, <1>5, <1>6, <1>10, <2>1 DEF RecordWritten
<1>12. ASSUME NEW j \in Instances, NEW n \in DOMAIN secretFile'[j] PROVE FileOK(j, n)'
  <2>1. CASE j = i
    BY <1>4, <1>5, <1>6, <1>12, <2>1 DEF FileOK
  <2>2. CASE j # i
    BY <1>1, <1>5, <1>6, <1>10, <1>12, <2>2, SameInstance
  <2> QED BY <2>1, <2>2
<1>13. RemovalOK'
  BY <1>1 DEF RemovalOK
<1> QED BY <1>8, <1>9, <1>11, <1>12, <1>13 DEF SecretsInv

\* A clean-up begins with a copy of what is recorded.
LEMMA BeginRemoveInv ==
  ASSUME SecretsInv, NEW a \in SecretDeals, BeginRemove(a)
  PROVE  SecretsInv'
<1>1. /\ UNCHANGED <<dealState, agSecrets, secretRec, secretFile, inbox, writing, strayed, secretValue, agentStops>>
      /\ dealState[a] = "ended"
      /\ removing' = [on |-> TRUE, ag |-> a, copy |-> secretRec, updated |-> {},
                      todo |-> {p \in Instances \X SecretNames :
                                  p[2] \in DOMAIN secretRec[p[1]] /\ a \in secretRec[p[1]][p[2]].ags}]
  BY DEF BeginRemove, secretStore
<1>2. /\ phase' \in [Instances -> {"new", "planned", "up", "over"}]
      /\ \A i \in Instances : phase'[i] \in {phase[i], "over"}
  BY DEF BeginRemove, SecretsInv, SecretsTypeOK
<1>3. SecretsTypeOK'
  BY <1>1, <1>2 DEF SecretsInv, SecretsTypeOK
<1>4. NothingBeforeStart'
  BY <1>1, <1>2 DEF SecretsInv, NothingBeforeStart
<1>5. SomeEnded => SomeEnded'
  BY <1>1, EndedStays
<1>6. RecordWritten'
  BY <1>1, <1>5 DEF SecretsInv, RecordWritten
<1>7. RemovalOK'
  <2>1. /\ secretRec = [i \in Instances |-> secretRec[i]]
        /\ \A i \in Instances : \A n \in DOMAIN secretRec[i] : secretRec[i][n] \in SecretRecord
    BY DEF SecretsInv, SecretsTypeOK
  <2>2. /\ removing' = [on |-> TRUE, ag |-> removing'.ag, copy |-> removing'.copy, updated |-> removing'.updated,
                        todo |-> removing'.todo]
        /\ removing'.ag = a /\ removing'.copy = secretRec /\ removing'.updated = {}
        /\ \A i \in Instances, n \in SecretNames : <<i, n>> \in removing'.todo => n \in DOMAIN secretRec[i]
    BY <1>1
  <2>3. \A i \in Instances : DOMAIN secretRec[i] # {} => phase'[i] \notin {"new", "planned"}
    BY <1>2 DEF SecretsInv, NothingBeforeStart
  <2> QED BY <1>1, <2>1, <2>2, <2>3 DEF RemovalOK
<1>8. ASSUME NEW j \in Instances, NEW n \in DOMAIN secretFile'[j] PROVE FileOK(j, n)'
  BY <1>1, <1>5, <1>8, SameInstance
<1> QED BY <1>3, <1>4, <1>6, <1>7, <1>8 DEF SecretsInv

\* A secret of one agreement only is deleted: its instance has no files, or is astray.
LEMMA DeleteSecretInv ==
  ASSUME SecretsInv, NEW i \in Instances, NEW n \in SecretNames, DeleteSecret(i, n)
  PROVE  SecretsInv'
<1> DEFINE rest == [x \in DOMAIN secretRec[i] \ {n} |-> secretRec[i][x]]
<1>1. /\ UNCHANGED <<dealState, agSecrets, phase, inbox, writing, secretValue, agentStops>>
      /\ removing.on /\ <<i, n>> \in removing.todo
      /\ removing' = [removing EXCEPT !.todo = @ \ {<<i, n>>}]
      /\ secretRec' = [secretRec EXCEPT ![i] = rest]
      /\ \/ secretFile' = [secretFile EXCEPT ![i] = NoSecrets] /\ strayed' = strayed
         \/ strayed' = strayed \cup {i} /\ secretFile' = secretFile
  BY DEF DeleteSecret
<1>2. RemovalOK /\ phase[i] \notin {"new", "planned"} /\ SomeEnded /\ SomeEnded'
  BY <1>1 DEF SecretsInv, RemovalOK, SomeEnded
<1>3. /\ DOMAIN rest \subseteq DOMAIN secretRec[i] /\ \A x \in DOMAIN rest : rest[x] = secretRec[i][x]
  OBVIOUS
<1> HIDE DEF rest
<1>4. /\ secretRec' = [j \in Instances |-> secretRec'[j]] /\ secretRec'[i] = rest
      /\ \A j \in Instances \ {i} : secretRec'[j] = secretRec[j]
  BY <1>1 DEF SecretsInv, SecretsTypeOK
<1>5. /\ secretFile' = [j \in Instances |-> secretFile'[j]]
      /\ \A j \in Instances \ {i} : secretFile'[j] = secretFile[j]
      /\ secretFile'[i] = NoSecrets \/ i \in strayed'
      /\ strayed \subseteq strayed'
  BY <1>1 DEF SecretsInv, SecretsTypeOK
<1>6. SecretsTypeOK'
  <2>1. \A j \in Instances : \A x \in DOMAIN secretRec'[j] : secretRec'[j][x] \in SecretRecord
    BY <1>3, <1>4 DEF SecretsInv, SecretsTypeOK
  <2> QED BY <1>1, <1>4, <1>5, <2>1 DEF SecretsInv, SecretsTypeOK
<1>7. NothingBeforeStart'
  BY <1>1, <1>2, <1>4 DEF SecretsInv, NothingBeforeStart
<1>8. RecordWritten'
  <2>1. RecordWritten /\ (writing.on => writing.file \subseteq Instances)
    BY WorkType DEF SecretsInv
  <2> QED BY <1>1, <1>2, <1>4, <1>5, <2>1 DEF RecordWritten
<1>9. RemovalOK'
  <2>1. /\ removing' = [on |-> TRUE, ag |-> removing'.ag, copy |-> removing'.copy, updated |-> removing'.updated,
                        todo |-> removing'.todo]
        /\ removing'.ag = removing.ag /\ removing'.copy = removing.copy /\ removing'.updated = removing.updated
        /\ removing'.todo \subseteq removing.todo
    BY <1>1, <1>2 DEF RemovalOK
  <2>2. \A j \in Instances : \A x \in DOMAIN secretRec'[j] : x \in DOMAIN secretRec[j] /\ secretRec'[j][x] = secretRec[j][x]
    BY <1>3, <1>4
  <2> QED BY <1>1, <1>2, <2>1, <2>2 DEF RemovalOK
<1>10. ASSUME NEW j \in Instances, NEW x \in DOMAIN secretFile'[j] PROVE FileOK(j, x)'
  <2>1. CASE j = i
    BY <1>5, <1>10, <2>1, NoSecretsEmpty DEF FileOK
  <2>2. CASE j # i
    BY <1>1, <1>2, <1>4, <1>5, <1>10, <2>2, SameInstance
  <2> QED BY <2>1, <2>2
<1> QED BY <1>6, <1>7, <1>8, <1>9, <1>10 DEF SecretsInv

\* A copy is saved: unless the instance was updated since, the values stay.
LEMMA SaveOldCopyInv ==
  ASSUME SecretsInv, NEW i \in Instances, NEW n \in SecretNames, SaveOldCopy(i, n)
  PROVE  SecretsInv'
<1> DEFINE left == [removing.copy EXCEPT ![i][n].ags = removing.copy[i][n].ags \ {removing.ag}]
<1>1. /\ UNCHANGED <<dealState, agSecrets, secretFile, phase, inbox, writing, secretValue, agentStops>>
      /\ removing.on /\ <<i, n>> \in removing.todo
      /\ removing' = [removing EXCEPT !.todo = @ \ {<<i, n>>}, !.copy = left]
      /\ secretRec' = [secretRec EXCEPT ![i] = left[i]]
      /\ strayed' = IF i \in removing.updated THEN strayed \cup {i} ELSE strayed
  BY DEF SaveOldCopy
<1>2. RemovalOK /\ phase[i] \notin {"new", "planned"} /\ SomeEnded /\ SomeEnded' /\ n \in DOMAIN removing.copy[i]
  BY <1>1 DEF SecretsInv, RemovalOK, SomeEnded
<1>3. /\ left = [j \in Instances |-> left[j]] /\ \A j \in Instances \ {i} : left[j] = removing.copy[j]
      /\ DOMAIN left[i] = DOMAIN removing.copy[i]
      /\ \A x \in DOMAIN left[i] : left[i][x] \in SecretRecord /\ left[i][x].value = removing.copy[i][x].value
  <2> DEFINE c == removing.copy
             e == [c[i][n] EXCEPT !.ags = c[i][n].ags \ {removing.ag}]
             one == [c[i] EXCEPT ![n] = e]
  <2>1. /\ c = [j \in Instances |-> c[j]] /\ c[i][n] \in SecretRecord
        /\ \A x \in DOMAIN c[i] : c[i][x] \in SecretRecord
    BY <1>1, <1>2 DEF RemovalOK
  <2>2. e \in SecretRecord /\ e.value = c[i][n].value
    <3> DEFINE old == c[i][n]
    <3>1. old \in SecretRecord /\ e = [old EXCEPT !.ags = old.ags \ {removing.ag}]
      BY <2>1
    <3> HIDE DEF old, e
    <3>2. e \in SecretRecord /\ e.value = old.value
      BY <3>1 DEF SecretRecord
    <3> QED BY <3>2 DEF old
  <2>3. left = [c EXCEPT ![i] = one]
    OBVIOUS
  <2> HIDE DEF left, e
  <2>4. DOMAIN one = DOMAIN c[i] /\ one[n] = e /\ \A x \in DOMAIN c[i] \ {n} : one[x] = c[i][x]
    BY <1>2
  <2> HIDE DEF one
  <2>5. left = [j \in Instances |-> left[j]] /\ left[i] = one /\ \A j \in Instances \ {i} : left[j] = c[j]
    BY <2>1, <2>3
  <2> QED BY <2>1, <2>2, <2>4, <2>5
<1> HIDE DEF left
<1>4. /\ secretRec' = [j \in Instances |-> secretRec'[j]] /\ secretRec'[i] = left[i]
      /\ \A j \in Instances \ {i} : secretRec'[j] = secretRec[j]
  BY <1>1 DEF SecretsInv, SecretsTypeOK
<1>5. /\ strayed \subseteq strayed'
      /\ i \notin strayed' => \A x \in DOMAIN secretRec[i] :
           x \in DOMAIN secretRec'[i] /\ secretRec'[i][x].value = secretRec[i][x].value
  <2>1. CASE i \in removing.updated
    BY <1>1, <2>1
  <2>2. CASE i \notin removing.updated
    <3>1. \A x \in DOMAIN secretRec[i] : x \in DOMAIN removing.copy[i] /\ removing.copy[i][x].value = secretRec[i][x].value
      BY <1>1, <1>2, <2>2 DEF RemovalOK
    <3> QED BY <1>1, <1>3, <1>4, <2>2, <3>1
  <2> QED BY <2>1, <2>2
<1>6. SecretsTypeOK'
  <2>1. \A j \in Instances : \A x \in DOMAIN secretRec'[j] : secretRec'[j][x] \in SecretRecord
    BY <1>3, <1>4 DEF SecretsInv, SecretsTypeOK
  <2> QED BY <1>1, <1>4, <2>1 DEF SecretsInv, SecretsTypeOK
<1>7. NothingBeforeStart'
  BY <1>1, <1>2, <1>4 DEF SecretsInv, NothingBeforeStart
<1>8. RecordWritten'
  <2> SUFFICES ASSUME writing.on, NEW j \in writing.file, j \notin strayed', secretFile[j] # NoSecrets
               PROVE  /\ Head(inbox).name \in DOMAIN secretRec'[j]
                      /\ secretRec'[j][Head(inbox).name].value = Head(inbox).value
    BY <1>1, <1>2 DEF RecordWritten
  <2>1. /\ j \in Instances /\ Head(inbox).name \in DOMAIN secretRec[j]
        /\ secretRec[j][Head(inbox).name].value = Head(inbox).value
    BY <1>5, WorkType DEF SecretsInv, RecordWritten
  <2>2. CASE j = i
    BY <1>5, <2>1, <2>2
  <2>3. CASE j # i
    BY <1>4, <2>1, <2>3
  <2> QED BY <2>2, <2>3
<1>9. RemovalOK'
  <2>1. /\ removing' = [on |-> TRUE, ag |-> removing'.ag, copy |-> removing'.copy, updated |-> removing'.updated,
                        todo |-> removing'.todo]
        /\ removing'.ag = removing.ag /\ removing'.copy = left /\ removing'.updated = removing.updated
        /\ removing'.todo \subseteq removing.todo
    BY <1>1, <1>2 DEF RemovalOK
  <2>2. ASSUME NEW j \in Instances
        PROVE  /\ DOMAIN left[j] = DOMAIN removing.copy[j]
               /\ \A x \in DOMAIN left[j] : left[j][x] \in SecretRecord
               /\ j \notin removing.updated => \A x \in DOMAIN secretRec'[j] :
                    x \in DOMAIN left[j] /\ left[j][x].value = secretRec'[j][x].value
    <3>1. CASE j = i
      BY <1>3, <1>4, <3>1
    <3>2. CASE j # i
      BY <1>1, <1>2, <1>3, <1>4, <3>2 DEF RemovalOK
    <3> QED BY <3>1, <3>2
  <2> QED BY <1>1, <1>2, <1>3, <2>1, <2>2 DEF RemovalOK
<1>10. ASSUME NEW j \in Instances, NEW x \in DOMAIN secretFile'[j] PROVE FileOK(j, x)'
  <2>1. CASE j = i
    <3> SUFFICES ASSUME i \notin strayed' PROVE FileOK(i, x)'
      BY <2>1 DEF FileOK
    <3>1. /\ x \in DOMAIN secretRec[i] /\ x \in DOMAIN secretRec'[i]
          /\ secretRec'[i][x].value = secretRec[i][x].value
          /\ \/ secretFile[i][x] = secretRec[i][x].value
             \/ agentStops > 0 /\ SomeEnded
             \/ AwaitsFile(i, x)
      BY <1>1, <1>5, <1>10, <2>1 DEF SecretsInv, FileOK
    <3>2. agentStops \in Nat
      BY DEF SecretsInv, SecretsTypeOK
    <3> QED BY <1>1, <1>2, <3>1, <3>2 DEF FileOK, AwaitsFile
  <2>2. CASE j # i
    BY <1>1, <1>2, <1>4, <1>5, <1>10, <2>2, SameInstance
  <2> QED BY <2>1, <2>2
<1> QED BY <1>6, <1>7, <1>8, <1>9, <1>10 DEF SecretsInv

LEMMA EndRemoveInv ==
  ASSUME SecretsInv, EndRemove
  PROVE  SecretsInv'
<1>1. /\ UNCHANGED <<agSecrets, secretRec, secretFile, phase, inbox, writing, strayed, secretValue, agentStops>>
      /\ removing.on /\ removing' = NotRemoving /\ dealState' = [dealState EXCEPT ![removing.ag] = "gone"]
  BY DEF EndRemove, secretStore
<1>2. removing.ag \in SecretDeals
  BY <1>1 DEF SecretsInv, RemovalOK
<1>3. dealState' \in [SecretDeals -> {"none", "made", "ended", "gone"}] /\ SomeEnded'
  BY <1>1, <1>2 DEF SecretsInv, SecretsTypeOK, SomeEnded
<1>4. SecretsTypeOK'
  BY <1>1, <1>3 DEF SecretsInv, SecretsTypeOK
<1>5. NothingBeforeStart' /\ RecordWritten'
  BY <1>1, <1>3 DEF SecretsInv, NothingBeforeStart, RecordWritten
<1>6. RemovalOK'
  BY <1>1 DEF RemovalOK, NotRemoving
<1>7. ASSUME NEW j \in Instances, NEW n \in DOMAIN secretFile'[j] PROVE FileOK(j, n)'
  BY <1>1, <1>3, <1>7, SameInstance
<1> QED BY <1>4, <1>5, <1>6, <1>7 DEF SecretsInv

\* The list of instances is read: those whose file is behind are on it.
LEMMA BeginUpdateInv ==
  ASSUME SecretsInv, BeginUpdate
  PROVE  SecretsInv'
<1>1. /\ ~writing.on /\ inbox # <<>>
      /\ UNCHANGED <<dealState, agSecrets, secretRec, secretFile, phase, inbox, removing, strayed, secretValue, agentStops>>
      /\ writing' = [on |-> TRUE, todo |-> Matching(Head(inbox)), file |-> {}]
  BY DEF BeginUpdate, secretStore
<1>2. writing' \in UpdateWork /\ writing'.on /\ writing'.todo = Matching(Head(inbox)) /\ writing'.file = {}
  BY <1>1 DEF UpdateWork, Matching
<1>3. SecretsTypeOK'
  BY <1>1, <1>2 DEF SecretsInv, SecretsTypeOK
<1>4. NothingBeforeStart'
  BY <1>1, <1>2 DEF SecretsInv, NothingBeforeStart, Matching
<1>5. RecordWritten'
  BY <1>2 DEF RecordWritten
<1>6. SomeEnded => SomeEnded'
  BY <1>1, EndedStays
<1>7. ASSUME NEW j \in Instances, NEW n \in DOMAIN secretFile'[j] PROVE FileOK(j, n)'
  <2>1. FileOK(j, n)
    BY <1>1, <1>7 DEF SecretsInv
  <2> QED BY <1>1, <1>2, <1>6, <2>1 DEF FileOK, AwaitsFile, Matching
<1>8. RemovalOK'
  BY <1>1, RemovalStays
<1> QED BY <1>3, <1>4, <1>5, <1>7, <1>8 DEF SecretsInv

LEMMA UpdateRecordInv ==
  ASSUME SecretsInv, UpdateRecord
  PROVE  SecretsInv'
<1> DEFINE m == Head(inbox)
<1>1. PICK i \in writing.todo :
        /\ secretRec' = [secretRec EXCEPT ![i] = SaveSecret(secretRec[i], m.name, m.value, {m.ag}, secretValue)]
        /\ writing' = [writing EXCEPT !.todo = @ \ {i}, !.file = {i}]
        /\ removing' = IF removing.on THEN [removing EXCEPT !.updated = @ \cup {i}] ELSE removing
  BY DEF UpdateRecord
<1>2. /\ writing.on /\ writing.file = {}
      /\ UNCHANGED <<dealState, agSecrets, secretFile, phase, inbox, strayed, secretValue, agentStops>>
  BY DEF UpdateRecord
<1>3. writing \in UpdateWork /\ i \in Instances
  BY <1>2, WorkType
<1>4. /\ writing' \in UpdateWork /\ writing'.on /\ writing'.todo = writing.todo \ {i} /\ writing'.file = {i}
  BY <1>1, <1>3 DEF UpdateWork
<1>5. m \in SecretMessage /\ inbox # <<>> /\ secretValue \in Nat
  BY <1>2 DEF SecretsInv, SecretsTypeOK
<1> DEFINE new == SaveSecret(secretRec[i], m.name, m.value, {m.ag}, secretValue)
<1>6. /\ DOMAIN new = DOMAIN secretRec[i] \cup {m.name}
      /\ new[m.name] \in SecretRecord /\ new[m.name].value = m.value /\ m.ag \in new[m.name].ags
      /\ \A n \in DOMAIN secretRec[i] \ {m.name} : new[n] = secretRec[i][n]
  <2> DEFINE r == IF m.name \in DOMAIN secretRec[i]
                  THEN [secretRec[i][m.name] EXCEPT !.ags = @ \cup {m.ag}, !.value = m.value,
                          !.updated = IF secretRec[i][m.name].value # m.value THEN secretValue ELSE @]
                  ELSE [value |-> m.value, ags |-> {m.ag}, created |-> secretValue, updated |-> secretValue]
  <2>1. new = With(secretRec[i], m.name, r)
    BY DEF SaveSecret
  <2>2. r \in SecretRecord /\ r.value = m.value /\ m.ag \in r.ags
    <3>1. m.ag \in SecretDeals /\ m.value \in Nat
      BY <1>5 DEF SecretMessage
    <3>2. CASE m.name \in DOMAIN secretRec[i]
      <4>1. secretRec[i][m.name] \in SecretRecord
        BY <1>3, <3>2 DEF SecretsInv, SecretsTypeOK
      <4> HIDE DEF m
      <4> QED BY <1>5, <3>1, <3>2, <4>1 DEF SecretRecord
    <3>3. CASE m.name \notin DOMAIN secretRec[i]
      BY <1>5, <3>1, <3>3 DEF SecretRecord
    <3> QED BY <3>2, <3>3
  <2> HIDE DEF r, new, m
  <2> QED BY <2>1, <2>2 DEF With
<1>7. /\ secretRec' = [j \in Instances |-> secretRec'[j]] /\ secretRec'[i] = new
      /\ \A j \in Instances \ {i} : secretRec'[j] = secretRec[j]
  <2> HIDE DEF new
  <2>1. secretRec' = [secretRec EXCEPT ![i] = new]
    BY <1>1 DEF new
  <2> QED BY <1>3, <2>1 DEF SecretsInv, SecretsTypeOK
<1> HIDE DEF new
<1>8. SecretsTypeOK'
  <2>1. \A j \in Instances : \A n \in DOMAIN secretRec'[j] : secretRec'[j][n] \in SecretRecord
    <3> HIDE DEF m
    <3> QED BY <1>6, <1>7 DEF SecretsInv, SecretsTypeOK
  <2> QED BY <1>2, <1>4, <1>5, <1>7, <2>1 DEF SecretsInv, SecretsTypeOK
<1>9. NothingBeforeStart'
  <2>1. phase[i] \notin {"new", "planned"}
    BY <1>1, <1>2, <1>3 DEF SecretsInv, NothingBeforeStart
  <2> QED BY <1>2, <1>3, <1>4, <1>7, <2>1 DEF SecretsInv, NothingBeforeStart
<1>10. RecordWritten'
  BY <1>2, <1>4, <1>6, <1>7 DEF RecordWritten
<1>11. SomeEnded => SomeEnded'
  BY <1>2, EndedStays
<1>12. ASSUME NEW j \in Instances, NEW n \in DOMAIN secretFile'[j] PROVE FileOK(j, n)'
  <2>1. FileOK(j, n) /\ secretFile'[j] = secretFile[j] /\ inbox' = inbox /\ agentStops \in Nat
    BY <1>2, <1>12 DEF SecretsInv, SecretsTypeOK
  <2>2. CASE j # i
    BY <1>2, <1>4, <1>7, <1>11, <2>1, <2>2 DEF FileOK, AwaitsFile
  <2>3. CASE j = i /\ n # m.name
    BY <1>2, <1>6, <1>7, <1>11, <2>1, <2>3 DEF FileOK, AwaitsFile
  <2>4. CASE j = i /\ n = m.name
    BY <1>2, <1>4, <1>5, <1>6, <1>7, <2>1, <2>4 DEF FileOK, AwaitsFile
  <2> QED BY <2>2, <2>3, <2>4
<1>13. RemovalOK'
  <2> SUFFICES ASSUME removing'.on PROVE RemovalOK'
    BY DEF RemovalOK
  <2>1. removing.on /\ RemovalOK /\ removing' = [removing EXCEPT !.updated = @ \cup {i}]
    BY <1>1 DEF SecretsInv
  <2>2. /\ removing' = [on |-> TRUE, ag |-> removing'.ag, copy |-> removing'.copy, updated |-> removing'.updated,
                        todo |-> removing'.todo]
        /\ removing'.ag = removing.ag /\ removing'.copy = removing.copy /\ removing'.todo = removing.todo
        /\ removing'.updated = removing.updated \cup {i}
    BY <2>1 DEF RemovalOK
  <2>3. \A j \in Instances \ removing'.updated : secretRec'[j] = secretRec[j] /\ j \in Instances \ removing.updated
    BY <1>7, <2>2
  <2> QED BY <1>2, <2>1, <2>2, <2>3 DEF RemovalOK
<1> QED BY <1>8, <1>9, <1>10, <1>12, <1>13 DEF SecretsInv

LEMMA WriteFileInv ==
  ASSUME SecretsInv, WriteFile
  PROVE  SecretsInv'
<1> DEFINE m == Head(inbox)
<1>1. /\ writing.on /\ writing' = [writing EXCEPT !.file = {}]
      /\ UNCHANGED <<dealState, agSecrets, secretRec, phase, inbox, removing, strayed, secretValue, agentStops>>
      /\ \A i \in writing.file : secretFile[i] # NoSecrets
      /\ secretFile' = [i \in Instances |->
           IF i \in writing.file THEN With(secretFile[i], m.name, m.value) ELSE secretFile[i]]
  BY DEF WriteFile
<1>2. writing \in UpdateWork
  BY <1>1, WorkType
<1>3. writing' \in UpdateWork /\ writing'.on /\ writing'.todo = writing.todo /\ writing'.file = {}
  BY <1>1, <1>2 DEF UpdateWork
<1>4. SecretsTypeOK'
  BY <1>1, <1>3 DEF SecretsInv, SecretsTypeOK
<1>5. NothingBeforeStart'
  BY <1>1, <1>3 DEF SecretsInv, NothingBeforeStart
<1>6. RecordWritten'
  BY <1>3 DEF RecordWritten
<1>7. SomeEnded => SomeEnded'
  BY <1>1, EndedStays
<1>8. ASSUME NEW j \in Instances, NEW n \in DOMAIN secretFile'[j] PROVE FileOK(j, n)'
  <2>1. CASE j \notin writing.file
    <3>1. secretFile'[j] = secretFile[j]
      BY <1>1, <2>1
    <3>2. FileOK(j, n)
      BY <1>8, <3>1 DEF SecretsInv
    <3> QED BY <1>1, <1>3, <1>7, <2>1, <3>1, <3>2 DEF FileOK, AwaitsFile
  <2>2. CASE j \in strayed
    BY <1>1, <2>2 DEF FileOK
  <2>3. CASE j \in writing.file /\ j \notin strayed
    <3>1. secretFile'[j] = With(secretFile[j], m.name, m.value) /\ secretFile[j] # NoSecrets
      BY <1>1, <2>3
    <3>2. m.name \in DOMAIN secretRec[j] /\ secretRec[j][m.name].value = m.value
      BY <1>1, <2>3, <3>1 DEF SecretsInv, RecordWritten
    <3>3. CASE n = m.name
      BY <1>1, <3>1, <3>2, <3>3 DEF FileOK, With
    <3>4. CASE n # m.name
      <4>1. n \in DOMAIN secretFile[j] /\ secretFile'[j][n] = secretFile[j][n]
        BY <1>8, <3>1, <3>4 DEF With
      <4>2. FileOK(j, n)
        BY <4>1 DEF SecretsInv
      <4> QED BY <1>1, <1>7, <3>4, <4>1, <4>2 DEF FileOK, AwaitsFile
    <3> QED BY <3>3, <3>4
  <2> QED BY <2>1, <2>2, <2>3
<1>9. RemovalOK'
  BY <1>1, RemovalStays
<1> QED BY <1>4, <1>5, <1>6, <1>8, <1>9 DEF SecretsInv

\* An update that fails leaves the instances it did not finish astray.
LEMMA UpdateFailsInv ==
  ASSUME SecretsInv, UpdateFails
  PROVE  SecretsInv'
<1>1. /\ writing.on /\ writing' = NotWriting /\ inbox' = Tail(inbox)
      /\ strayed' = strayed \cup writing.todo \cup writing.file
      /\ UNCHANGED <<dealState, agSecrets, secretRec, secretFile, phase, removing, secretValue, agentStops>>
  BY DEF UpdateFails, secretStore
<1>2. ~writing'.on /\ inbox' \in Seq(SecretMessage)
  BY <1>1 DEF NotWriting, SecretsInv, SecretsTypeOK
<1>3. SecretsTypeOK'
  BY <1>1, <1>2 DEF SecretsInv, SecretsTypeOK
<1>4. NothingBeforeStart' /\ RecordWritten' /\ RemovalOK'
  BY <1>1, <1>2, RemovalStays DEF SecretsInv, NothingBeforeStart, RecordWritten
<1>5. SomeEnded => SomeEnded'
  BY <1>1, EndedStays
<1>6. ASSUME NEW j \in Instances, NEW n \in DOMAIN secretFile'[j] PROVE FileOK(j, n)'
  <2>1. FileOK(j, n) /\ (j \notin strayed' => j \notin strayed /\ ~AwaitsFile(j, n))
    BY <1>1, <1>6 DEF SecretsInv, AwaitsFile
  <2> QED BY <1>1, <1>5, <2>1 DEF FileOK
<1> QED BY <1>3, <1>4, <1>6 DEF SecretsInv

\* At the end of an update nothing is left to write.
LEMMA EndUpdateInv ==
  ASSUME SecretsInv, EndUpdate
  PROVE  SecretsInv'
<1>1. /\ writing.on /\ writing.todo = {} /\ writing.file = {} /\ writing' = NotWriting /\ inbox' = Tail(inbox)
      /\ UNCHANGED <<dealState, agSecrets, secretRec, secretFile, phase, removing, strayed, secretValue, agentStops>>
  BY DEF EndUpdate, secretStore
<1>2. ~writing'.on /\ inbox' \in Seq(SecretMessage)
  BY <1>1 DEF NotWriting, SecretsInv, SecretsTypeOK
<1>3. SecretsTypeOK'
  BY <1>1, <1>2 DEF SecretsInv, SecretsTypeOK
<1>4. NothingBeforeStart' /\ RecordWritten' /\ RemovalOK'
  BY <1>1, <1>2, RemovalStays DEF SecretsInv, NothingBeforeStart, RecordWritten
<1>5. SomeEnded => SomeEnded'
  BY <1>1, EndedStays
<1>6. ASSUME NEW j \in Instances, NEW n \in DOMAIN secretFile'[j] PROVE FileOK(j, n)'
  <2>1. FileOK(j, n) /\ ~AwaitsFile(j, n)
    BY <1>1, <1>6 DEF SecretsInv, AwaitsFile
  <2> QED BY <1>1, <1>5, <2>1 DEF FileOK
<1> QED BY <1>3, <1>4, <1>6 DEF SecretsInv

\* A restart between record and file: the message is still there, and its agreement still
\* listed unless one has ended.
LEMMA StopInv ==
  ASSUME SecretsInv, StopAgent
  PROVE  SecretsInv'
<1>1. /\ agentStops' = agentStops + 1 /\ writing' = NotWriting /\ removing' = NotRemoving
      /\ UNCHANGED <<dealState, agSecrets, secretRec, secretFile, phase, inbox, strayed, secretValue>>
  BY DEF StopAgent, secretStore
<1>2. ~writing'.on /\ agentStops \in Nat /\ agentStops' \in Nat /\ agentStops' > 0
  BY <1>1 DEF NotWriting, SecretsInv, SecretsTypeOK
<1>3. SecretsTypeOK'
  BY <1>1, <1>2 DEF SecretsInv, SecretsTypeOK
<1>4. NothingBeforeStart' /\ RecordWritten' /\ RemovalOK'
  BY <1>1, <1>2 DEF NotRemoving, RemovalOK, SecretsInv, NothingBeforeStart, RecordWritten
<1>5. SomeEnded => SomeEnded'
  BY <1>1, EndedStays
<1>6. ASSUME NEW j \in Instances, NEW n \in DOMAIN secretFile'[j] PROVE FileOK(j, n)'
  <2>1. FileOK(j, n) /\ secretFile'[j] = secretFile[j] /\ secretRec'[j] = secretRec[j] /\ secretFile[j] # NoSecrets
    BY <1>1, <1>6, NoSecretsEmpty DEF SecretsInv
  <2>2. CASE secretFile[j][n] = secretRec[j][n].value \/ SomeEnded
    BY <1>1, <1>2, <1>5, <2>1, <2>2 DEF FileOK
  <2>4. CASE j \in strayed
    BY <1>1, <2>4 DEF FileOK
  <2>3. CASE j \notin strayed /\ AwaitsFile(j, n) /\ ~SomeEnded
    <3>1. Head(inbox).ag \in secretRec[j][n].ags
      BY <2>1, <2>3 DEF AwaitsFile, SecretsInv, RecordWritten
    <3> QED BY <1>1, <1>2, <2>1, <2>3, <3>1 DEF FileOK, AwaitsFile
  <2> QED BY <2>1, <2>2, <2>3, <2>4 DEF FileOK
<1> QED BY <1>3, <1>4, <1>6 DEF SecretsInv

LEMMA SecretsInvStep == SecretsInv /\ [AgentSecretsNext]_agentSecretVars => SecretsInv'
<1> SUFFICES ASSUME SecretsInv, [AgentSecretsNext]_agentSecretVars PROVE SecretsInv'
  OBVIOUS
<1>1. CASE UNCHANGED agentSecretVars
  BY <1>1, ServiceInv DEF agentSecretVars
<1>2. CASE \/ \E i \in Instances : PollSecrets(i)
           \/ \E i \in Instances, n \in SecretNames : GetSecret(i, n) \/ ConfirmSecret(i, n)
  BY <1>2, ServiceInv DEF PollSecrets, GetSecret, ConfirmSecret
<1> QED BY <1>1, <1>2, DealInv, BeginRemoveInv, DeleteSecretInv, SaveOldCopyInv, EndRemoveInv, PlanInv, StartInv, ShareInv, SendInv, BeginUpdateInv, UpdateRecordInv,
           WriteFileInv, UpdateFailsInv, EndUpdateInv, StopInv DEF AgentSecretsNext

\* The files the containers see follow the records, whatever the instances and
\* agreements, and however updates, restarts and cancellations interleave: a file that
\* differs from the record has its message still in the queue, or belongs to a gap that the
\* property names.
THEOREM FilesFollowRecords == AgentSecretsSpec => []FileFollowsRecord
<1>1. AgentSecretsInit => SecretsInv
  <2> SUFFICES ASSUME AgentSecretsInit PROVE SecretsInv
    OBVIOUS
  <2>1. /\ \A i \in Instances : secretRec[i] = NoSecrets /\ secretFile[i] = NoSecrets
        /\ ~writing.on /\ ~removing.on /\ inbox = <<>> /\ secretValue = 1 /\ agentStops = 0
        /\ \A a \in SecretDeals : agSecrets[a] = NoSecrets
    BY DEF AgentSecretsInit, NotWriting, NotRemoving
  <2>2. SecretsTypeOK
    BY <2>1, NoSecretsEmpty DEF AgentSecretsInit, SecretsTypeOK
  <2>3. NothingBeforeStart /\ RecordWritten /\ RemovalOK /\ \A i \in Instances : \A n \in DOMAIN secretFile[i] : FileOK(i, n)
    BY <2>1, NoSecretsEmpty DEF NothingBeforeStart, RecordWritten, RemovalOK
  <2> QED BY <2>2, <2>3 DEF SecretsInv
<1>2. SecretsInv => FileFollowsRecord
  BY DEF SecretsInv, FileFollowsRecord, FileOK, AwaitsFile, SomeEnded
<1> QED BY <1>1, <1>2, SecretsInvStep, PTL DEF AgentSecretsSpec

-----------------------------------------------------------------------------
(* Unregistration.                                                           *)

Commands == {"shutdown", "pattern", "rereg"}

ConfigShape ==
  /\ db = [device |-> db.device, tables |-> db.tables] /\ db.tables \subseteq Tables
  /\ request = [r \in Requests |-> [op |-> request[r].op, copy |-> request[r].copy, pattern |-> request[r].pattern,
                                    todo |-> request[r].todo]]
  /\ \A r \in Requests : request[r].todo \in Seq(Tables)
  /\ shutdown = [step |-> shutdown.step, copy |-> shutdown.copy, pattern |-> shutdown.pattern]
  /\ shutdown.step \in Nat /\ (shutdown.pattern = NoPattern => shutdown.step \leq 14)
  /\ govQueue \in Seq(Commands)

\* What the unregistration deleted stays away.
TablesGone == \A t \in Tables : Deleted(t) => t \notin db.tables
DeviceGone == Deleted("device") => db.device = NoDevice
\* No registration is under way beside a shutdown, or after it.
NoneCreates == ShuttingDown \/ complete = "clean" => \A r \in Requests : request[r].op # "create"

ConfigInv == ConfigShape /\ (~crossed => TablesGone /\ DeviceGone /\ NoneCreates)

LEMMA StepNames ==
  /\ UnregisterSteps[1] = "clear" /\ UnregisterSteps[2] = "agreements" /\ UnregisterSteps[3] = "exchange"
  /\ UnregisterSteps[4] = "services" /\ UnregisterSteps[5] = "attributes" /\ UnregisterSteps[6] = "policyFiles"
  /\ UnregisterSteps[7] = "device" /\ UnregisterSteps[8] = "nodePolicy" /\ UnregisterSteps[9] = "policyTime"
  /\ UnregisterSteps[10] = "userInput" /\ UnregisterSteps[11] = "inputHash" /\ UnregisterSteps[12] = "changeState"
  /\ UnregisterSteps[13] = "volumes" /\ UnregisterSteps[14] = "announce"
BY DEF UnregisterSteps

\* A step leaves deleted what was, and adds at most its own table.
LEMMA StepDeletes ==
  ASSUME ConfigShape, NEW name, ShutdownStep(name), name # "announce", complete' = complete
  PROVE  /\ \A t : Deleted(t)' => Deleted(t) \/ t = name
         /\ shutdown' = [step |-> shutdown.step + 1, copy |-> shutdown.copy, pattern |-> shutdown.pattern]
         /\ shutdown.pattern = NoPattern => shutdown.step + 1 \leq 14
<1>1. shutdown' = [step |-> shutdown.step + 1, copy |-> shutdown.copy, pattern |-> shutdown.pattern]
  BY DEF ShutdownStep, ConfigShape
<1>2. shutdown'.step = shutdown.step + 1 /\ shutdown'.pattern = shutdown.pattern /\ shutdown.step \in Nat
  BY <1>1 DEF ConfigShape
<1>3. shutdown.pattern = NoPattern => UnregisterSteps[shutdown.step] = name
  BY DEF ShutdownStep, ShutdownSteps
<1>4. shutdown.pattern = NoPattern => shutdown.step + 1 \leq 14
  BY <1>2, <1>3, StepNames DEF ConfigShape
<1>5. ASSUME NEW t, Deleted(t)', complete # "clean" PROVE Deleted(t) \/ t = name
  <2>1. PICK i \in 1 .. shutdown.step : UnregisterSteps[i] = t
    BY <1>2, <1>5 DEF Deleted
  <2>2. shutdown.pattern = NoPattern
    BY <1>2, <1>5 DEF Deleted
  <2>3. CASE i = shutdown.step
    BY <1>3, <2>1, <2>2, <2>3
  <2>4. CASE i \in 1 .. (shutdown.step - 1)
    BY <2>1, <2>2, <2>4 DEF Deleted
  <2> QED BY <1>2, <2>1, <2>3, <2>4
<1>6. ASSUME NEW t, complete = "clean" PROVE Deleted(t)
  BY <1>6 DEF Deleted
<1> QED BY <1>1, <1>4, <1>5, <1>6

\* A shutdown asked for or under way, and what is deleted, is the same after a step of a request or a writer.
LEMMA SameShutdown ==
  ASSUME UNCHANGED <<shutdown, govQueue, complete>>
  PROVE  (ShuttingDown' <=> ShuttingDown) /\ \A t : Deleted(t)' <=> Deleted(t)
BY DEF ShuttingDown, Deleted

\* A request begins.
LEMMA RequestBegins ==
  ASSUME ConfigInv, NEW r \in Requests,
         \/ \E p \in Patterns \cup {NoPattern} : CreateHorizonDevice(r, p)
         \/ UpdateHorizonDevice(r) \/ UpdateConfigstate(r) \/ DeleteHorizonDevice(r)
  PROVE  ConfigInv'
<1> DEFINE Begun(op, copy, p, todo) ==
             /\ request' = [request EXCEPT ![r] = [op |-> op, copy |-> copy, pattern |-> p, todo |-> todo]]
             /\ todo \in Seq(Tables)
             /\ op = "create" => complete = "no" /\ ~unconfiguring /\ crossed' = (crossed \/ Unannounced)
             /\ op # "create" => crossed' = crossed
<1>1. PICK op, copy, p, todo : Begun(op, copy, p, todo)
  <2>1. <<>> \in Seq(Tables) /\ <<"attributes", "policyFiles">> \in Seq(Tables)
    BY DEF Tables
  <2>2. ASSUME NEW q \in Patterns \cup {NoPattern}, CreateHorizonDevice(r, q)
        PROVE  Begun("create", NoDevice, IF exch.pattern # NoPattern THEN exch.pattern ELSE q, <<>>)
    BY <2>1, <2>2 DEF CreateHorizonDevice, Begin
  <2>3. ASSUME UpdateHorizonDevice(r) PROVE Begun("patch", FindExchangeDevice, NoPattern, <<>>)
    BY <2>1, <2>3 DEF UpdateHorizonDevice, Begin
  <2>4. ASSUME UpdateConfigstate(r)
        PROVE  Begun("configure", FindExchangeDevice, NoPattern, <<"attributes", "policyFiles">>)
    BY <2>1, <2>4 DEF UpdateConfigstate, Begin
  <2>5. ASSUME DeleteHorizonDevice(r) PROVE Begun("delete", FindExchangeDevice, NoPattern, <<>>)
    BY <2>1, <2>5 DEF DeleteHorizonDevice, Begin
  <2> HIDE DEF Begun
  <2> QED BY <2>2, <2>3, <2>4, <2>5, Zenon
<1>2. UNCHANGED <<db, shutdown, govQueue, complete>>
  BY DEF CreateHorizonDevice, UpdateHorizonDevice, UpdateConfigstate, DeleteHorizonDevice, beginVars, requestVars
<1>3. /\ request' = [q \in Requests |-> IF q = r THEN [op |-> op, copy |-> copy, pattern |-> p, todo |-> todo] ELSE request[q]]
      /\ \A q \in Requests : request'[q].op = IF q = r THEN op ELSE request[q].op
  BY <1>1 DEF ConfigInv, ConfigShape
<1>4. ConfigShape'
  <2>1. \A q \in Requests : request'[q].todo \in Seq(Tables)
    BY <1>1, <1>3 DEF ConfigInv, ConfigShape
  <2>2. request' = [q \in Requests |-> [op |-> request'[q].op, copy |-> request'[q].copy, pattern |-> request'[q].pattern,
                                    todo |-> request'[q].todo]]
    BY <1>3 DEF ConfigInv, ConfigShape
  <2> QED BY <1>2, <2>1, <2>2 DEF ConfigInv, ConfigShape
<1>5. ~crossed' => ~crossed /\ (op = "create" => ~ShuttingDown /\ complete # "clean")
  BY <1>1 DEF Unannounced
<1> QED BY <1>2, <1>3, <1>4, <1>5, SameShutdown DEF ConfigInv, TablesGone, DeviceGone, NoneCreates

\* A step of a request that changes at most the request itself.
LEMMA RequestGoesOn ==
  ASSUME ConfigInv, NEW r \in Requests, NEW op, NEW copy, NEW p, NEW todo \in Seq(Tables), op # "create",
         request' = [request EXCEPT ![r] = [op |-> op, copy |-> copy, pattern |-> p, todo |-> todo]]
  PROVE  /\ request' = [q \in Requests |-> [op |-> request'[q].op, copy |-> request'[q].copy,
                                            pattern |-> request'[q].pattern, todo |-> request'[q].todo]]
         /\ \A q \in Requests : request'[q].todo \in Seq(Tables)
         /\ \A q \in Requests : request'[q].op = "create" => request[q].op = "create"
BY DEF ConfigInv, ConfigShape

\* A write of the device record leaves it away when it is, and the tables alone.
LEMMA DeviceWritten ==
  ASSUME ConfigInv, NEW d, db' = UpdateExchangeDevice(d)
  PROVE  /\ db' = [device |-> db'.device, tables |-> db'.tables] /\ db'.tables = db.tables
         /\ db.device = NoDevice => db'.device = NoDevice
BY DEF ConfigInv, ConfigShape, UpdateExchangeDevice

LEMMA RequestEnds ==
  ASSUME ConfigInv, NEW r \in Requests,
         CreateSave(r) \/ RequestSaves(r) \/ CreateAnnounce(r) \/ UpdateSave(r) \/ RequestRefused(r)
           \/ ConfigstateSave(r) \/ DeleteSave(r)
  PROVE  ConfigInv'
<1>1. UNCHANGED <<shutdown, complete>>
  BY DEF CreateSave, RequestSaves, CreateAnnounce, UpdateSave, RequestRefused, ConfigstateSave, DeleteSave, requestVars
<1>2. <<>> \in Seq(Tables)
  OBVIOUS
<1>3. ASSUME End(r)
      PROVE  /\ request' = [q \in Requests |-> [op |-> request'[q].op, copy |-> request'[q].copy,
                                            pattern |-> request'[q].pattern, todo |-> request'[q].todo]]
             /\ \A q \in Requests : request'[q].todo \in Seq(Tables)
             /\ \A q \in Requests : request'[q].op = "create" => request[q].op = "create"
  BY <1>2, <1>3, RequestGoesOn, Zenon DEF End, IdleRequest
<1>4. CASE CreateSave(r)
  <2> DEFINE todo == <<"nodePolicy", "policyTime">> \o (IF exch.userInput THEN <<"userInput", "inputHash">> ELSE <<>>)
  <2>1. todo \in Seq(Tables)
    <3>1. /\ <<"nodePolicy", "policyTime">> \in Seq(Tables) /\ <<"userInput", "inputHash">> \in Seq(Tables)
      BY DEF Tables
    <3>2. \A s1, s2 \in Seq(Tables) : s1 \o s2 \in Seq(Tables)
      OBVIOUS
    <3> QED BY <1>2, <3>1, <3>2
  <2>2. /\ request' = [request EXCEPT ![r] = [op |-> "setup", copy |-> NoDevice, pattern |-> request[r].pattern, todo |-> todo]]
        /\ UNCHANGED <<govQueue, crossed>>
    BY <1>4 DEF CreateSave, Begin
  <2> HIDE DEF todo
  <2>3. db' = [db EXCEPT !.device = [state |-> "configuring", pattern |-> request[r].pattern, token |-> r]]
    BY <1>4 DEF CreateSave, SaveNewExchangeDevice
  <2>4. db' = [device |-> db'.device, tables |-> db'.tables] /\ db'.tables = db.tables
    BY <2>3 DEF ConfigInv, ConfigShape
  <2>5. ~crossed => ~ShuttingDown /\ complete # "clean"
    BY <1>4 DEF CreateSave, ConfigInv, NoneCreates
  <2>6. ~crossed => ~Deleted("device")
    BY <2>5 DEF ShuttingDown, Deleted, ConfigInv, ConfigShape
  <2>7. ConfigShape'
    BY <1>1, <2>1, <2>2, <2>4, RequestGoesOn DEF ConfigInv, ConfigShape
  <2> QED BY <1>1, <2>2, <2>4, <2>5, <2>6, <2>7, SameShutdown DEF ConfigInv, TablesGone, DeviceGone, NoneCreates
<1>5. CASE RequestSaves(r)
  <2> DEFINE t == Head(request[r].todo)
             rest == Tail(request[r].todo)
  <2>1. request[r].todo \in Seq(Tables) /\ request[r].todo # <<>>
    BY <1>5 DEF RequestSaves, ConfigInv, ConfigShape
  <2>2. t \in Tables /\ rest \in Seq(Tables)
    BY <2>1
  <2>3. db' = [db EXCEPT !.tables = @ \cup {t}] /\ crossed' = (crossed \/ Deleted(t)) /\ UNCHANGED govQueue
    BY <1>5 DEF RequestSaves, SaveTable, Late
  <2>4. request' = [request EXCEPT ![r].todo = rest]
    BY <1>5 DEF RequestSaves
  <2> HIDE DEF t, rest
  <2>5. /\ db' = [device |-> db'.device, tables |-> db'.tables] /\ db'.tables = db.tables \cup {t} /\ db'.device = db.device
    BY <2>3 DEF ConfigInv, ConfigShape
  <2>6. /\ request' = [q \in Requests |-> [op |-> request'[q].op, copy |-> request'[q].copy,
                                            pattern |-> request'[q].pattern, todo |-> request'[q].todo]]
        /\ \A q \in Requests : request'[q].todo \in Seq(Tables)
        /\ \A q \in Requests : request'[q].op = request[q].op
    <3>1. \A q \in Requests : request'[q] = IF q = r THEN [op |-> request[r].op, copy |-> request[r].copy,
                                                           pattern |-> request[r].pattern, todo |-> rest] ELSE request[q]
      BY <2>4 DEF ConfigInv, ConfigShape
    <3>2. request' = [q \in Requests |-> request'[q]]
      BY <2>4 DEF ConfigInv, ConfigShape
    <3>3. \A q \in Requests : request[q] = [op |-> request[q].op, copy |-> request[q].copy,
                                            pattern |-> request[q].pattern, todo |-> request[q].todo]
      BY DEF ConfigInv, ConfigShape
    <3>4. \A q \in Requests : request[q].todo \in Seq(Tables)
      BY DEF ConfigInv, ConfigShape
    <3>5. \A q \in Requests : request'[q] = [op |-> request'[q].op, copy |-> request'[q].copy,
                                             pattern |-> request'[q].pattern, todo |-> request'[q].todo]
      BY <3>1, <3>3
    <3>6. \A q \in Requests : request'[q].todo \in Seq(Tables) /\ request'[q].op = request[q].op
      BY <2>2, <3>1, <3>4
    <3> QED BY <3>2, <3>5, <3>6
  <2>7. ConfigShape'
    BY <1>1, <2>2, <2>3, <2>5, <2>6 DEF ConfigInv, ConfigShape
  <2> QED BY <1>1, <2>3, <2>5, <2>6, <2>7, SameShutdown DEF ConfigInv, TablesGone, DeviceGone, NoneCreates
<1>6. CASE UpdateSave(r) \/ ConfigstateSave(r) \/ RequestRefused(r)
  <2>1. End(r) /\ UNCHANGED <<govQueue, crossed>>
    BY <1>6 DEF UpdateSave, ConfigstateSave, RequestRefused
  <2>2. /\ db' = [device |-> db'.device, tables |-> db'.tables] /\ db'.tables = db.tables
        /\ db.device = NoDevice => db'.device = NoDevice
    <3>1. CASE RequestRefused(r)
      BY <3>1 DEF RequestRefused, ConfigInv, ConfigShape
    <3>2. CASE UpdateSave(r)
      BY <3>2, DeviceWritten DEF UpdateSave, SetExchangeDeviceToken
    <3>3. CASE ConfigstateSave(r)
      BY <3>3, DeviceWritten DEF ConfigstateSave, SetConfigstate
    <3> QED BY <1>6, <3>1, <3>2, <3>3
  <2>3. ConfigShape'
    BY <1>1, <1>3, <2>1, <2>2 DEF ConfigInv, ConfigShape
  <2> QED BY <1>1, <1>3, <2>1, <2>2, <2>3, SameShutdown DEF ConfigInv, TablesGone, DeviceGone, NoneCreates
<1>7. CASE CreateAnnounce(r)
  <2>1. End(r) /\ UNCHANGED <<db, crossed>> /\ govQueue' \in {govQueue, Append(govQueue, "rereg")}
    BY <1>7 DEF CreateAnnounce
  <2>2. govQueue' \in Seq(Commands) /\ (ShuttingDown' => ShuttingDown)
    <3>1. govQueue \in Seq(Commands) /\ "rereg" \in Commands
      BY DEF ConfigInv, ConfigShape, Commands
    <3>2. \A i \in DOMAIN govQueue' : govQueue'[i] = "shutdown" => i \in DOMAIN govQueue /\ govQueue[i] = "shutdown"
      BY <2>1, <3>1
    <3> QED BY <1>1, <2>1, <3>1, <3>2 DEF ShuttingDown
  <2>3. \A t : Deleted(t)' <=> Deleted(t)
    BY <1>1 DEF Deleted
  <2>4. ConfigShape'
    BY <1>1, <1>3, <2>1, <2>2 DEF ConfigInv, ConfigShape
  <2> QED BY <1>1, <1>3, <2>1, <2>2, <2>3, <2>4 DEF ConfigInv, TablesGone, DeviceGone, NoneCreates
<1>8. CASE DeleteSave(r)
  <2>1. End(r)
    BY <1>8 DEF DeleteSave
  <2>2. CASE db.device = NoDevice
    <3>1. UNCHANGED <<db, govQueue, crossed>>
      BY <1>8, <2>2 DEF DeleteSave
    <3>2. ConfigShape'
      BY <1>1, <1>3, <2>1, <3>1 DEF ConfigInv, ConfigShape
    <3> QED BY <1>1, <1>3, <2>1, <3>1, <3>2, SameShutdown DEF ConfigInv, TablesGone, DeviceGone, NoneCreates
  <2>3. CASE db.device # NoDevice
    <3>1. db' = SetConfigstate(request[r].copy, "unconfiguring") /\ govQueue' = Append(govQueue, "shutdown") /\ Asked
      BY <1>8, <2>3 DEF DeleteSave
    <3>2. /\ db' = [device |-> db'.device, tables |-> db'.tables] /\ db'.tables = db.tables
          /\ db.device = NoDevice => db'.device = NoDevice
      BY <3>1, DeviceWritten DEF SetConfigstate
    <3>3. govQueue' \in Seq(Commands)
      BY <3>1 DEF ConfigInv, ConfigShape, Commands
    <3>4. ConfigShape'
      BY <1>1, <1>3, <2>1, <3>2, <3>3 DEF ConfigInv, ConfigShape
    <3>5. \A t : Deleted(t)' <=> Deleted(t)
      BY <1>1 DEF Deleted
    <3>6. ~crossed' => ~crossed /\ \A q \in Requests : request'[q].op # "create"
      BY <1>3, <2>1, <3>1 DEF Asked
    <3> QED BY <1>1, <3>2, <3>4, <3>5, <3>6 DEF ConfigInv, TablesGone, DeviceGone, NoneCreates
  <2> QED BY <2>2, <2>3
<1> QED BY <1>4, <1>5, <1>6, <1>7, <1>8

\* The other writers, and the feed's refused poll.
LEMMA WriterInv ==
  ASSUME ConfigInv,
         (\E ts \in Written : WriterReads(ts)) \/ (\E t \in Tables : WriterSaves(t)) \/ HeartbeatRefused
  PROVE  ConfigInv'
<1>1. UNCHANGED <<request, shutdown, complete>>
  BY DEF WriterReads, WriterSaves, HeartbeatRefused, writerVars
<1>2. \A t : Deleted(t)' <=> Deleted(t)
  BY <1>1 DEF Deleted
<1>3. ASSUME NEW ts \in Written, WriterReads(ts) PROVE ConfigInv'
  <2>1. UNCHANGED <<db, govQueue, crossed>>
    BY <1>3 DEF WriterReads
  <2> QED BY <1>1, <2>1, SameShutdown DEF ConfigInv, ConfigShape, TablesGone, DeviceGone, NoneCreates
<1>4. ASSUME NEW t \in Tables, WriterSaves(t) PROVE ConfigInv'
  <2>1. db' = [db EXCEPT !.tables = @ \cup {t}] /\ crossed' = (crossed \/ Deleted(t)) /\ UNCHANGED govQueue
    BY <1>4 DEF WriterSaves, SaveTable, Late
  <2>2. /\ db' = [device |-> db'.device, tables |-> db'.tables] /\ db'.tables = db.tables \cup {t} /\ db'.device = db.device
    BY <2>1 DEF ConfigInv, ConfigShape
  <2>3. ConfigShape'
    BY <1>1, <2>1, <2>2 DEF ConfigInv, ConfigShape
  <2> QED BY <1>1, <2>1, <2>2, <2>3, SameShutdown DEF ConfigInv, TablesGone, DeviceGone, NoneCreates
<1>5. CASE HeartbeatRefused
  <2>1. govQueue' = Append(govQueue, "shutdown") /\ Asked /\ UNCHANGED db
    BY <1>5 DEF HeartbeatRefused
  <2>2. govQueue' \in Seq(Commands)
    BY <2>1 DEF ConfigInv, ConfigShape, Commands
  <2>3. ConfigShape'
    BY <1>1, <2>1, <2>2 DEF ConfigInv, ConfigShape
  <2>4. ~crossed' => ~crossed /\ \A q \in Requests : request'[q].op # "create"
    BY <1>1, <2>1 DEF Asked
  <2> QED BY <1>1, <1>2, <2>1, <2>3, <2>4 DEF ConfigInv, TablesGone, DeviceGone, NoneCreates
<1> QED BY <1>3, <1>4, <1>5

\* The shutdown: what the announcement at its end promises is collected step by step.
LEMMA ShutdownInv ==
  ASSUME ConfigInv, ExchangeStep \/ AgreementStep \/ LocalStep
  PROVE  ConfigInv'
<1>1. complete' = complete /\ UNCHANGED <<request, govQueue, crossed>>
  BY DEF ExchangeStep, AgreementStep, LocalStep, ShutdownStep, shutdownVars
<1>2. \E name : /\ ShutdownStep(name) /\ name # "announce"
                /\ \/ name \notin Tables \cup {"device"} /\ UNCHANGED db
                   \/ name \in Tables /\ DeleteTable(name)
                   \/ name = "device" /\ DeleteExchangeDevice
                   \/ name \notin Tables \cup {"device"} /\ \E d : db' = UpdateExchangeDevice(d)
  <2>1. /\ \A t \in Tables : t # "announce" /\ t # "device"
        /\ {"clear", "exchange", "pattern", "agreements", "services", "state", "update", "volumes"} \cap (Tables \cup {"device"}) = {}
    BY DEF Tables
  <2>2. CASE ExchangeStep
    BY <2>1, <2>2 DEF ExchangeStep
  <2>3. CASE AgreementStep
    BY <2>1, <2>3 DEF AgreementStep
  <2>4. CASE LocalStep
    BY <2>1, <2>4 DEF LocalStep, UpdateHorizonDeviceState, UpdateHorizonDevicePattern, SetConfigstate, SetPattern
  <2> QED BY <2>2, <2>3, <2>4
<1>3. PICK name : /\ ShutdownStep(name) /\ name # "announce"
                /\ \/ name \notin Tables \cup {"device"} /\ UNCHANGED db
                   \/ name \in Tables /\ DeleteTable(name)
                   \/ name = "device" /\ DeleteExchangeDevice
                   \/ name \notin Tables \cup {"device"} /\ \E d : db' = UpdateExchangeDevice(d)
  BY <1>2
<1>4. /\ \A t : Deleted(t)' => Deleted(t) \/ t = name
      /\ shutdown' = [step |-> shutdown.step + 1, copy |-> shutdown.copy, pattern |-> shutdown.pattern]
      /\ shutdown.pattern = NoPattern => shutdown.step + 1 \leq 14
  BY <1>1, <1>3, StepDeletes DEF ConfigInv
<1>5. /\ db' = [device |-> db'.device, tables |-> db'.tables] /\ db'.tables \subseteq db.tables
      /\ (db.device = NoDevice \/ name = "device") => db'.device = NoDevice
      /\ name \in Tables => name \notin db'.tables
  <2>0. "device" \notin Tables
    BY DEF Tables
  <2>1. CASE name \notin Tables \cup {"device"} /\ UNCHANGED db
    BY <2>1 DEF ConfigInv, ConfigShape
  <2>2. CASE name \in Tables /\ DeleteTable(name)
    BY <2>0, <2>2 DEF ConfigInv, ConfigShape, DeleteTable
  <2>3. CASE name = "device" /\ DeleteExchangeDevice
    BY <2>0, <2>3 DEF ConfigInv, ConfigShape, DeleteExchangeDevice
  <2>4. CASE name \notin Tables \cup {"device"} /\ \E d : db' = UpdateExchangeDevice(d)
    BY <2>4, DeviceWritten
  <2> QED BY <1>3, <2>1, <2>2, <2>3, <2>4
<1>6. ConfigShape'
  BY <1>1, <1>4, <1>5 DEF ConfigInv, ConfigShape
<1>7. ShuttingDown
  BY <1>3 DEF ShutdownStep, ShuttingDown
<1>8. ~crossed => TablesGone' /\ DeviceGone'
  BY <1>4, <1>5 DEF ConfigInv, TablesGone, DeviceGone
<1> QED BY <1>1, <1>6, <1>7, <1>8 DEF ConfigInv, NoneCreates

LEMMA ConfigAnnounceInv ==
  ASSUME ConfigInv, AnnounceStep
  PROVE  ConfigInv'
<1>1. /\ ShutdownSteps[shutdown.step] = "announce" /\ shutdown.step > 0
      /\ shutdown' = [shutdown EXCEPT !.step = 0] /\ UNCHANGED <<request, govQueue, crossed, db>>
      /\ complete' = IF shutdown.pattern = NoPattern THEN "clean" ELSE "pattern"
  BY DEF AnnounceStep, ShutdownStep, shutdownVars
<1>2. shutdown' = [step |-> 0, copy |-> shutdown.copy, pattern |-> shutdown.pattern]
  BY <1>1 DEF ConfigInv, ConfigShape
<1>3. ConfigShape'
  <2>1. shutdown'.step = 0 /\ shutdown' = [step |-> shutdown'.step, copy |-> shutdown'.copy, pattern |-> shutdown'.pattern]
    BY <1>2
  <2> QED BY <1>1, <2>1 DEF ConfigInv, ConfigShape
<1>4. ShuttingDown
  BY <1>1 DEF ShuttingDown
<1>5. CASE shutdown.pattern = NoPattern
  <2>1. shutdown.step = 14
    <3>1. shutdown.step \in 1 .. 14 /\ UnregisterSteps[shutdown.step] = "announce"
      BY <1>1, <1>5 DEF ConfigInv, ConfigShape, ShutdownSteps
    <3> QED BY <3>1, StepNames
  <2>2. \A i \in 1 .. 13 : Deleted(UnregisterSteps[i])
    BY <1>5, <2>1 DEF Deleted
  <2>3. \A t \in Tables \cup {"device"} : Deleted(t)
    BY <2>2, StepNames DEF Tables
  <2> QED BY <1>1, <1>3, <1>4, <2>3 DEF ConfigInv, TablesGone, DeviceGone, NoneCreates
<1>6. CASE shutdown.pattern # NoPattern
  <2>1. complete' = "pattern" /\ \A t : ~Deleted(t)'
    BY <1>1, <1>2, <1>6 DEF Deleted
  <2> QED BY <1>1, <1>3, <1>4, <2>1 DEF ConfigInv, TablesGone, DeviceGone, NoneCreates
<1> QED BY <1>5, <1>6

LEMMA ErrorInv ==
  ASSUME ConfigInv, CompletedWithError
  PROVE  ConfigInv'
<1>1. /\ shutdown' = [shutdown EXCEPT !.step = 0] /\ UNCHANGED <<request, govQueue, crossed, db>> /\ shutdown.step > 0
      /\ complete' \in {complete, "error"}
  BY DEF CompletedWithError, shutdownVars
<1>2. shutdown' = [step |-> 0, copy |-> shutdown.copy, pattern |-> shutdown.pattern]
  BY <1>1 DEF ConfigInv, ConfigShape
<1>3. ConfigShape'
  BY <1>1, <1>2 DEF ConfigInv, ConfigShape
<1>4. ShuttingDown
  BY <1>1 DEF ShuttingDown
<1>5. \A t : Deleted(t)' => Deleted(t)
  BY <1>1, <1>2 DEF Deleted
<1> QED BY <1>1, <1>3, <1>4, <1>5 DEF ConfigInv, TablesGone, DeviceGone, NoneCreates

LEMMA QueueTail ==
  ASSUME govQueue \in Seq(Commands), govQueue # <<>>
  PROVE  /\ Tail(govQueue) \in Seq(Commands)
         /\ \A i \in DOMAIN Tail(govQueue) : i + 1 \in DOMAIN govQueue /\ Tail(govQueue)[i] = govQueue[i + 1]
OBVIOUS

\* Governance.
LEMMA GovernanceInv ==
  ASSUME ConfigInv,
         \/ NodeShutdownBegin \/ (\E valid \in BOOLEAN : PatternChanged(valid))
         \/ ChangeNodePattern \/ ChangeNodePatternSet \/ ChangeNodePatternFiles
         \/ (\E ok \in BOOLEAN : ChangeNodePatternConfigure(ok))
  PROVE  ConfigInv'
<1>1. UNCHANGED request
  BY DEF NodeShutdownBegin, PatternChanged, ChangeNodePattern, ChangeNodePatternSet, ChangeNodePatternFiles,
         ChangeNodePatternConfigure, govVars
<1>2. CASE NodeShutdownBegin
  <2>1. /\ govQueue # <<>> /\ Head(govQueue) = "shutdown" /\ govQueue' = Tail(govQueue) /\ UNCHANGED <<db, crossed>>
        /\ \/ complete' = "error" /\ UNCHANGED shutdown
           \/ complete' = complete /\ shutdown' = [step |-> 1, copy |-> db.device, pattern |-> savedPattern]
        /\ shutdown.step = 0
    BY <1>2 DEF NodeShutdownBegin
  <2>2. ShuttingDown
    BY <2>1 DEF ShuttingDown, ConfigInv, ConfigShape
  <2>3. shutdown'.step \in {0, 1} /\ \A t : Deleted(t)' => Deleted(t)
    BY <2>1 DEF Deleted
  <2>4. ConfigShape'
    BY <1>1, <2>1, QueueTail DEF ConfigInv, ConfigShape
  <2> QED BY <1>1, <2>1, <2>2, <2>3, <2>4 DEF ConfigInv, TablesGone, DeviceGone, NoneCreates
<1>3. ASSUME UNCHANGED <<shutdown, complete, crossed>>,
             \/ govQueue' = govQueue
             \/ govQueue # <<>> /\ govQueue' = Tail(govQueue),
             /\ db' = [device |-> db'.device, tables |-> db'.tables] /\ db'.tables = db.tables
             /\ db.device = NoDevice => db'.device = NoDevice
      PROVE  ConfigInv'
  <2>1. ShuttingDown' => ShuttingDown
    BY <1>3, QueueTail DEF ShuttingDown, ConfigInv, ConfigShape
  <2>2. \A t : Deleted(t)' <=> Deleted(t)
    BY <1>3 DEF Deleted
  <2>3. ConfigShape'
    BY <1>1, <1>3, QueueTail DEF ConfigInv, ConfigShape
  <2> QED BY <1>1, <1>3, <2>1, <2>2, <2>3 DEF ConfigInv, TablesGone, DeviceGone, NoneCreates
<1>4. UNCHANGED db => /\ db' = [device |-> db'.device, tables |-> db'.tables] /\ db'.tables = db.tables
                      /\ db.device = NoDevice => db'.device = NoDevice
  BY DEF ConfigInv, ConfigShape
<1>5. ASSUME NEW valid \in BOOLEAN, PatternChanged(valid) PROVE ConfigInv'
  <2>1. govQueue # <<>> /\ UNCHANGED <<shutdown, complete>>
    BY <1>5 DEF PatternChanged
  <2>2. CASE ~valid \/ db.device.state = "unconfiguring"
    <3>1. govQueue' = Tail(govQueue) /\ UNCHANGED <<db, crossed>>
      BY <1>5, <2>2 DEF PatternChanged
    <3> QED BY <1>3, <1>4, <2>1, <3>1
  <2>3. CASE valid /\ db.device.state # "unconfiguring"
    <3>1. /\ db' = SetConfigstate(db.device, "unconfiguring")
          /\ govQueue' = Append(Tail(govQueue), "shutdown") /\ Asked
      BY <1>5, <2>3 DEF PatternChanged
    <3>2. /\ db' = [device |-> db'.device, tables |-> db'.tables] /\ db'.tables = db.tables
          /\ db.device = NoDevice => db'.device = NoDevice
      BY <3>1, DeviceWritten DEF SetConfigstate
    <3>3. govQueue' \in Seq(Commands)
      BY <2>1, <3>1, QueueTail DEF ConfigInv, ConfigShape, Commands
    <3>4. ConfigShape'
      BY <1>1, <2>1, <3>2, <3>3 DEF ConfigInv, ConfigShape
    <3>5. \A t : Deleted(t)' <=> Deleted(t)
      BY <2>1 DEF Deleted
    <3>6. ~crossed' => ~crossed /\ \A q \in Requests : request'[q].op # "create"
      BY <1>1, <3>1 DEF Asked
    <3> QED BY <3>2, <3>4, <3>5, <3>6 DEF ConfigInv, TablesGone, DeviceGone, NoneCreates
  <2> QED BY <2>2, <2>3
<1>6. CASE ChangeNodePattern
  <2>1. /\ UNCHANGED <<shutdown, complete, crossed, db>> /\ govQueue # <<>> /\ govQueue' = Tail(govQueue)
    BY <1>6 DEF ChangeNodePattern
  <2> QED BY <1>3, <1>4, <2>1
<1>7. CASE ChangeNodePatternSet
  <2>1. /\ UNCHANGED <<shutdown, complete, crossed, govQueue>> /\ \E d : db' = UpdateExchangeDevice(d)
    BY <1>7 DEF ChangeNodePatternSet, SetPattern
  <2> QED BY <1>3, <2>1, DeviceWritten
<1>8. ASSUME NEW ok \in BOOLEAN, ChangeNodePatternConfigure(ok) PROVE ConfigInv'
  <2>1. /\ UNCHANGED <<shutdown, complete, crossed, govQueue>> /\ (UNCHANGED db \/ \E d : db' = UpdateExchangeDevice(d))
    BY <1>8 DEF ChangeNodePatternConfigure, SetConfigstate
  <2> QED BY <1>3, <1>4, <2>1, DeviceWritten
<1>9. CASE ChangeNodePatternFiles
  <2>1. /\ db' = [db EXCEPT !.tables = @ \cup {"policyFiles"}] /\ crossed' = (crossed \/ Deleted("policyFiles"))
        /\ UNCHANGED <<govQueue, shutdown, complete>>
    BY <1>9 DEF ChangeNodePatternFiles, SaveTable, Late
  <2>2. /\ db' = [device |-> db'.device, tables |-> db'.tables] /\ db'.tables = db.tables \cup {"policyFiles"}
        /\ db'.device = db.device /\ "policyFiles" \in Tables
    BY <2>1 DEF ConfigInv, ConfigShape, Tables
  <2>3. ConfigShape'
    BY <1>1, <2>1, <2>2 DEF ConfigInv, ConfigShape
  <2> QED BY <1>1, <2>1, <2>2, <2>3, SameShutdown DEF ConfigInv, TablesGone, DeviceGone, NoneCreates
<1> QED BY <1>2, <1>5, <1>6, <1>7, <1>8, <1>9

\* A new process has nothing under way.
LEMMA ConfigRestartInv ==
  ASSUME ConfigInv, Restart
  PROVE  ConfigInv'
<1>1. /\ request' = [r \in Requests |-> IdleRequest] /\ complete' = "no" /\ UNCHANGED db /\ crossed' = FALSE
      /\ govQueue' \in {<<"rereg">>, <<>>} /\ shutdown' = IdleShutdown
  BY DEF Restart
<1>2. govQueue' \in Seq(Commands) /\ \A i \in DOMAIN govQueue' : govQueue'[i] # "shutdown"
  <2>1. <<"rereg">> \in Seq(Commands) /\ <<>> \in Seq(Commands)
    BY DEF Commands
  <2>2. \A i \in DOMAIN <<"rereg">> : <<"rereg">>[i] = "rereg"
    OBVIOUS
  <2>3. \A i \in DOMAIN <<>> : <<>>[i] # "shutdown"
    OBVIOUS
  <2> QED BY <1>1, <2>1, <2>2, <2>3
<1>3. shutdown' = [step |-> 0, copy |-> NoDevice, pattern |-> NoPattern]
  BY <1>1 DEF IdleShutdown
<1>4. \A r \in Requests : request'[r] = [op |-> "idle", copy |-> NoDevice, pattern |-> NoPattern, todo |-> <<>>]
  BY <1>1 DEF IdleRequest
<1>5. ConfigShape'
  <2>1. shutdown'.step = 0 /\ shutdown' = [step |-> shutdown'.step, copy |-> shutdown'.copy, pattern |-> shutdown'.pattern]
    BY <1>3
  <2>2. request' = [r \in Requests |-> request'[r]] /\ <<>> \in Seq(Tables)
    BY <1>1
  <2>3. /\ request' = [r \in Requests |-> [op |-> request'[r].op, copy |-> request'[r].copy, pattern |-> request'[r].pattern,
                                    todo |-> request'[r].todo]]
        /\ \A r \in Requests : request'[r].todo \in Seq(Tables)
    <3>1. \A r \in Requests : /\ request'[r].todo \in Seq(Tables)
                              /\ request'[r] = [op |-> request'[r].op, copy |-> request'[r].copy,
                                                pattern |-> request'[r].pattern, todo |-> request'[r].todo]
      <4> TAKE r \in Requests
      <4>1. request'[r] = [op |-> "idle", copy |-> NoDevice, pattern |-> NoPattern, todo |-> <<>>]
        BY <1>4
      <4>2. request'[r].todo = <<>>
        BY <4>1
      <4>3. request'[r] = [op |-> request'[r].op, copy |-> request'[r].copy, pattern |-> request'[r].pattern,
                           todo |-> request'[r].todo]
        BY <4>1
      <4> QED BY <2>2, <4>2, <4>3
    <3> QED BY <2>2, <3>1
  <2> QED BY <1>1, <1>2, <2>1, <2>3 DEF ConfigInv, ConfigShape
<1>6. (\A t : ~Deleted(t)') /\ ~ShuttingDown'
  BY <1>1, <1>2, <1>3 DEF Deleted, ShuttingDown
<1> QED BY <1>1, <1>5, <1>6 DEF ConfigInv, TablesGone, DeviceGone, NoneCreates

\* When an unregistration announces its end without an error the database is empty, for any
\* number of requests at a time and any sequence of registrations, changes of the pattern,
\* crashes, failed calls and failed steps, unless a writer crossed the shutdown.
THEOREM UnregistrationCleans == ConfigSpec => []UnregisteredIsClean
<1>1. ConfigInit => ConfigInv
  <2> SUFFICES ASSUME ConfigInit PROVE ConfigInv
    OBVIOUS
  <2>1. /\ db = [device |-> NoDevice, tables |-> {}] /\ govQueue = <<>> /\ complete = "no"
        /\ shutdown = [step |-> 0, copy |-> NoDevice, pattern |-> NoPattern]
        /\ request = [r \in Requests |-> [op |-> "idle", copy |-> NoDevice, pattern |-> NoPattern, todo |-> <<>>]]
    BY DEF ConfigInit, EmptyDatabase, IdleShutdown, IdleRequest
  <2>2. ConfigShape
    <3>1. <<>> \in Seq(Tables) /\ <<>> \in Seq(Commands)
      OBVIOUS
    <3>2. /\ db = [device |-> db.device, tables |-> db.tables] /\ db.tables = {}
          /\ shutdown.step = 0 /\ shutdown = [step |-> shutdown.step, copy |-> shutdown.copy, pattern |-> shutdown.pattern]
      BY <2>1
    <3>3. /\ request = [r \in Requests |-> [op |-> request[r].op, copy |-> request[r].copy, pattern |-> request[r].pattern,
                                    todo |-> request[r].todo]]
          /\ \A r \in Requests : request[r].todo \in Seq(Tables)
      BY <2>1, <3>1
    <3> QED BY <2>1, <3>1, <3>2, <3>3 DEF ConfigShape
  <2>3. (\A t : ~Deleted(t)) /\ ~ShuttingDown
    BY <2>1 DEF Deleted, ShuttingDown
  <2> QED BY <2>1, <2>2, <2>3 DEF ConfigInv, TablesGone, DeviceGone, NoneCreates
<1>2. ConfigInv /\ [ConfigNext]_configVars => ConfigInv'
  <2> SUFFICES ASSUME ConfigInv, [ConfigNext]_configVars PROVE ConfigInv'
    OBVIOUS
  <2>1. ASSUME NEW r \in Requests, Request(r) PROVE ConfigInv'
    BY <2>1, RequestBegins, RequestEnds DEF Request
  <2>2. CASE \/ UNCHANGED configVars
             \/ (\E p \in Patterns : ExchangePatternChange(p))
    <3>1. UNCHANGED <<db, request, shutdown, govQueue, complete, crossed>>
      BY <2>2 DEF configVars, ExchangePatternChange
    <3> QED BY <3>1, SameShutdown DEF ConfigInv, ConfigShape, TablesGone, DeviceGone, NoneCreates
  <2>3. CASE CheckNodePatternChanges
    <3>1. UNCHANGED <<db, request, shutdown, complete, crossed>> /\ govQueue' = Append(govQueue, "pattern")
      BY <2>3 DEF CheckNodePatternChanges
    <3>2. govQueue' \in Seq(Commands) /\ (ShuttingDown' => ShuttingDown)
      <4>1. govQueue \in Seq(Commands) /\ "pattern" \in Commands
        BY DEF ConfigInv, ConfigShape, Commands
      <4>2. \A i \in DOMAIN govQueue' : govQueue'[i] = "shutdown" => i \in DOMAIN govQueue /\ govQueue[i] = "shutdown"
        BY <3>1, <4>1
      <4> QED BY <3>1, <4>1, <4>2 DEF ShuttingDown
    <3>3. \A t : Deleted(t)' <=> Deleted(t)
      BY <3>1 DEF Deleted
    <3>4. ConfigShape'
      BY <3>1, <3>2 DEF ConfigInv, ConfigShape
    <3> QED BY <3>1, <3>2, <3>3, <3>4 DEF ConfigInv, TablesGone, DeviceGone, NoneCreates
  <2> QED BY <2>1, <2>2, <2>3, WriterInv, ShutdownInv, ConfigAnnounceInv, ErrorInv, GovernanceInv, ConfigRestartInv DEF ConfigNext
<1>3. ConfigInv => UnregisteredIsClean
  <2> SUFFICES ASSUME ConfigInv, complete = "clean", ~crossed PROVE db = EmptyDatabase
    BY DEF UnregisteredIsClean
  <2>1. \A t : Deleted(t)
    BY DEF Deleted
  <2>2. db.device = NoDevice /\ db.tables = {} /\ db = [device |-> db.device, tables |-> db.tables]
    BY <2>1 DEF ConfigInv, ConfigShape, TablesGone, DeviceGone
  <2> QED BY <2>2 DEF EmptyDatabase
<1> QED BY <1>1, <1>2, <1>3, PTL DEF ConfigSpec
=============================================================================
