----------------------------- MODULE ChangeFeed -----------------------------
(***************************************************************************)
(* The agent's link to the exchange.  The changes worker polls the change  *)
(* feed, which doubles as the node's heartbeat, announces the kinds of     *)
(* change it saw on the bus, remembers in the database how far it read,    *)
(* and adapts its polling interval.  The message worker fetches the node's *)
(* messages whenever it is told that there may be some.  Every call of the *)
(* exchange, and every write of the database, may fail.                    *)
(***************************************************************************)
EXTENDS Integers, Sequences, FiniteSets

CONSTANTS ChangeTypes,    \* kinds of change; "org" and "other" are not announced
          Configs,        \* heartbeat intervals a node or an organization may ask for; 0 is none
          FirstMin, FirstMax, FirstIncrement, DynamicPoll,  \* the agent's configuration
          MaxRecords,     \* changes the exchange returns at once
          MaxFeedChanges, MaxFeedStops    \* bounds

ASSUME FeedAssumption ==
  /\ {"message", "node", "org"} \subseteq ChangeTypes
  /\ Configs \subseteq [min : Nat, max : Nat, increment : Nat]
  /\ FirstMax \in Nat /\ FirstMin \in 1 .. FirstMax /\ FirstIncrement \in Nat /\ DynamicPoll \in BOOLEAN
  /\ MaxRecords \in Nat \ {0}

VARIABLES log,         \* exchange: the kinds of change, in order
          mailbox,     \* exchange: messages for the node, <<can be read, "new" or "seen">>
          nodeCfg, orgCfg, \* exchange: the intervals asked for
          hasToken,    \* does the agent know its token
          changeId,    \* the next change to ask for; 0 is none
          savedId,     \* the same, in the database
          onBus,       \* announced to the message worker and not yet seen by it
          fetching,    \* a command of the message worker, deferred ones included
          beat,        \* a heartbeat succeeded since the agent started
          heartBeatFailed,
          poll,        \* see FirstPoll
          agreementReached,
          dropped,     \* since the messages were last fetched, a notice about them was lost
          feedStops

exchVars == <<log, mailbox, nodeCfg, orgCfg>>
posVars == <<changeId, savedId, onBus, dropped>>
feedVars == <<log, mailbox, nodeCfg, orgCfg, hasToken, changeId, savedId, onBus, fetching, beat,
              heartBeatFailed, poll, agreementReached, dropped, feedStops>>

\* createSupportedResourceTypes: what the workers of the agent want to hear of.
Supported == ChangeTypes \ {"org", "other"}
NoConfig == [min |-> 0, max |-> 0, increment |-> 0]
\* restored: the interval to return to after an outage, or 0; quiet: polls without news;
\* torn: the node's intervals were taken and the organization's could not be read.
FirstPoll == [interval |-> FirstMin, min |-> FirstMin, max |-> FirstMax, increment |-> FirstIncrement,
              restored |-> 0, quiet |-> 0, torn |-> FALSE]
FeedInit ==
  /\ log = <<>> /\ mailbox = {} /\ nodeCfg = NoConfig /\ orgCfg = NoConfig
  /\ hasToken = FALSE /\ changeId = 0 /\ savedId = 0 /\ onBus = {} /\ fetching = FALSE
  /\ beat = FALSE /\ heartBeatFailed = FALSE /\ poll = FirstPoll /\ agreementReached = FALSE
  /\ dropped = FALSE /\ feedStops = 0

-----------------------------------------------------------------------------
(* The exchange, and the workers that have dealt with a message. *)
LogChange(t) ==
  /\ Len(log) < MaxFeedChanges /\ log' = Append(log, t)
  /\ UNCHANGED <<hasToken, posVars, fetching, beat, heartBeatFailed, poll, agreementReached, feedStops>>
SendMessage(good) ==
  LogChange("message") /\ mailbox' = mailbox \cup {<<good, "new">>} /\ UNCHANGED <<nodeCfg, orgCfg>>
EditNodeConfig == \E c \in Configs : LogChange("node") /\ nodeCfg' = c /\ UNCHANGED <<mailbox, orgCfg>>
EditOrgConfig == \E c \in Configs : LogChange("org") /\ orgCfg' = c /\ UNCHANGED <<mailbox, nodeCfg>>
OtherChange(t) ==
  t \notin {"message", "node", "org"} /\ LogChange(t) /\ UNCHANGED <<mailbox, nodeCfg, orgCfg>>
RemoveMessage ==
  /\ mailbox' = mailbox \ {<<TRUE, "seen">>} /\ mailbox' # mailbox
  /\ UNCHANGED <<log, nodeCfg, orgCfg, hasToken, posVars, fetching, beat, heartBeatFailed, poll,
                 agreementReached, feedStops>>

-----------------------------------------------------------------------------
(* The polling interval: updatePollingInterval, one operator per update type. *)
PollReset(p) == [p EXCEPT !.interval = p.min, !.quiet = 0]
PollAlert(p) ==
  LET mid == (p.min + p.max) \div 2
  IN  [p EXCEPT !.interval = IF p.interval > mid THEN mid ELSE p.interval, !.quiet = 0]
PollNoChanges(p) ==
  IF p.interval >= p.max THEN p
  ELSE IF p.quiet + 1 < p.max \div p.interval THEN [p EXCEPT !.quiet = @ + 1]
  ELSE [p EXCEPT !.quiet = 0,
                 !.interval = IF @ + p.increment > p.max THEN p.max ELSE @ + p.increment]
PollNewConfig(p) == IF p.interval > p.max THEN [p EXCEPT !.interval = p.max] ELSE p
PollHeartbeatFailed(p) ==
  [p EXCEPT !.restored = IF @ = 0 THEN p.interval ELSE @, !.interval = p.min, !.quiet = 0]
PollHeartbeatRestored(p) ==
  IF p.restored = 0 THEN p ELSE [p EXCEPT !.interval = p.restored, !.restored = 0]

\* What the node asks for, else the organization, else what was in force.
Prefer(a, b) == IF a # 0 THEN a ELSE b
TakeFrom(c, p) == [p EXCEPT !.min = Prefer(c.min, @), !.max = Prefer(c.max, @),
                            !.increment = Prefer(c.increment, @)]
NodeOverOrg == [min |-> Prefer(nodeCfg.min, orgCfg.min), max |-> Prefer(nodeCfg.max, orgCfg.max),
                increment |-> Prefer(nodeCfg.increment, orgCfg.increment)]

\* getHeartbeatIntervals: the node cannot be read; it is read and the organization is
\* not; both are, and when something changed a maximum below the minimum is raised.
HeartbeatIntervals(p) ==
  LET half == TakeFrom(nodeCfg, p)
      full == TakeFrom(NodeOverOrg, p)
  IN  {[updated |-> FALSE, poll |-> p],
       [updated |-> FALSE, poll |-> [half EXCEPT !.torn = @ \/ half # p]],
       [updated |-> full # p,
        poll |-> IF full = p THEN p
                 ELSE [full EXCEPT !.max = IF @ < full.min THEN full.min ELSE @, !.torn = FALSE]]}

NewConfig(p) == {IF h.updated THEN PollNewConfig(h.poll) ELSE h.poll : h \in HeartbeatIntervals(p)}
\* The intervals are read once for each change of the node or an organization.  Whatever
\* fails, further readings lead nowhere that two do not.
Configured(p, changes) ==
  IF changes = 0 THEN {p}
  ELSE IF changes = 1 THEN NewConfig(p)
  ELSE UNION {NewConfig(q) : q \in NewConfig(p)}

-----------------------------------------------------------------------------
(* The changes worker.  A place is how far it has read and what it announced. *)
Here == [id |-> changeId, saved |-> savedId, bus |-> onBus, dropped |-> dropped]
\* Of what is announced the message worker only listens to messages and the heartbeat's return.
Heard == {"message", "restored"}
GoTo(s) == changeId' = s.id /\ savedId' = s.saved /\ onBus' = s.bus \cap Heard /\ dropped' = s.dropped

\* SaveExchangeChangeState: a failed write changes nothing.
SavePosition(s, id) == {[s EXCEPT !.saved = id], s}

\* getChangeId: start at the newest change, save the position and announce everything.
\* When the exchange refuses, nothing changes; when the database does, the position is
\* taken and nothing is announced.
GetChangeId(s) ==
  {[ok |-> FALSE, at |-> s], [ok |-> FALSE, at |-> [s EXCEPT !.id = Len(log), !.dropped = TRUE]],
   [ok |-> TRUE, at |-> [s EXCEPT !.id = Len(log), !.saved = Len(log), !.bus = @ \cup Supported]]}

\* handleHeartbeatStateAndError for a poll that fails.  A node the exchange no longer
\* knows is unconfigured; otherwise, once the grace period since the last heartbeat is
\* over (it is when there was none), the failure is announced.
FailedPoll(p, s) ==
  \/ /\ GoTo([s EXCEPT !.bus = @ \cup {"unconfigure"}]) /\ poll' = p
     /\ UNCHANGED <<beat, heartBeatFailed>>
  \/ \E late \in BOOLEAN :
       /\ ~beat => late
       /\ poll' = PollHeartbeatFailed(p) /\ UNCHANGED beat
       /\ heartBeatFailed' = (heartBeatFailed \/ late)
       /\ GoTo([s EXCEPT !.bus = IF late /\ ~heartBeatFailed THEN @ \cup {"failed"} ELSE @])

\* GetExchangeChanges: the changes from position i on, a limited number at once.
From(i) == {log[j] : j \in {k \in DOMAIN log : k >= i}}
Batch(i) == {k \in DOMAIN log : k >= i /\ k < i + MaxRecords}
AfterBatch(i) == IF Len(log) < i + MaxRecords THEN Len(log) + 1 ELSE i + MaxRecords

\* findAndProcessChanges after an answer.  The heartbeat is restored first; then every
\* change is looked at, what it is about is announced and the position is saved; without
\* news the interval may grow, but without an agreement not during an initial period.
SuccessfulPoll(p, s) ==
  LET batch == Batch(s.id)
      told == {log[j] : j \in batch} \cap Supported
      next == [s EXCEPT !.id = IF batch = {} THEN @ ELSE AfterBatch(s.id),
                        !.bus = @ \cup told \cup (IF heartBeatFailed THEN {"restored"} ELSE {})]
  IN  /\ beat' = TRUE /\ heartBeatFailed' = FALSE
      /\ \E saved \in IF batch = {} THEN {next} ELSE SavePosition(next, next.id) : GoTo(saved)
      /\ \E q \in Configured(PollHeartbeatRestored(p),
                             Cardinality({j \in batch : log[j] \in {"node", "org"}})) :
         \E buffering \in BOOLEAN :
           poll' = IF told = {} /\ DynamicPoll /\ (agreementReached \/ ~buffering)
                   THEN PollNoChanges(q) ELSE q

\* findAndProcessChanges; without a position it gets one first.
FindAndProcessChanges(p) ==
  \/ changeId # 0 /\ (FailedPoll(p, Here) \/ SuccessfulPoll(p, Here))
  \/ /\ changeId = 0
     /\ \E o \in GetChangeId(Here) :
          \/ o.ok /\ o.at.id # 0 /\ (FailedPoll(p, o.at) \/ SuccessfulPoll(p, o.at))
          \/ ~(o.ok /\ o.at.id # 0) /\ GoTo(o.at) /\ poll' = p /\ UNCHANGED <<beat, heartBeatFailed>>

\* NoWorkHandler.
NoWork ==
  /\ hasToken /\ FindAndProcessChanges(poll)
  /\ UNCHANGED <<exchVars, hasToken, fetching, agreementReached, feedStops>>

\* UpdateIntervalCommand: the interval is reset for a proposal that was accepted or a new
\* node policy, and shortened for new user input or an agreement that ended.  When the
\* worker has not polled for an interval, it does so at once.
UpdateInterval == \E p \in {PollReset(poll), PollAlert(poll)} :
  /\ \/ poll' = p /\ UNCHANGED <<posVars, beat, heartBeatFailed>>
     \/ hasToken /\ FindAndProcessChanges(p)
  /\ UNCHANGED <<exchVars, hasToken, fetching, agreementReached, feedStops>>

\* AgreementCommand.
AgreementMade ==
  /\ hasToken /\ ~agreementReached /\ agreementReached' = TRUE
  /\ UNCHANGED <<exchVars, hasToken, posVars, fetching, beat, heartBeatFailed, poll, feedStops>>

\* handleDeviceRegistration.
Register ==
  /\ ~hasToken /\ hasToken' = TRUE
  /\ \E h \in HeartbeatIntervals(poll) : poll' = PollReset(h.poll)
  /\ \E o \in GetChangeId(Here) : GoTo(o.at)
  /\ UNCHANGED <<exchVars, fetching, beat, heartBeatFailed, agreementReached, feedStops>>

\* What stops when the agent does: announcements and commands are gone, the need to get a
\* position too, and with them what the agent knew of messages, unless it reads of them
\* again from position id.
Forgotten(id) == (fetching \/ onBus # {} \/ changeId = 0) /\ "message" \notin From(id)
Stop(id, saved) == [id |-> id, saved |-> saved, bus |-> {}, dropped |-> dropped \/ Forgotten(id)]
StopWorkers ==
  /\ feedStops < MaxFeedStops /\ feedStops' = feedStops + 1
  /\ fetching' = FALSE /\ beat' = FALSE /\ heartBeatFailed' = FALSE

\* NewChangesWorker and Initialize: the worker continues from the saved position if the
\* database can be read; without one it gets the newest.  An agreement in the database
\* counts.
RestartAgent ==
  /\ StopWorkers
  /\ \E id \in {savedId, 0} :
     \E o \in IF id = 0 /\ hasToken THEN GetChangeId(Stop(id, savedId))
              ELSE {[ok |-> TRUE, at |-> Stop(id, savedId)]} : GoTo(o.at)
  /\ \E h \in HeartbeatIntervals(FirstPoll) : poll' = IF hasToken THEN PollReset(h.poll) ELSE FirstPoll
  /\ agreementReached' \in BOOLEAN
  /\ UNCHANGED <<exchVars, hasToken>>

\* Both workers end when the node is unconfigured, and the agent starts again.
\* DeleteExchangeChangeState is not reached when an earlier step of the shutdown fails.
Unconfigure ==
  /\ hasToken /\ hasToken' = FALSE /\ StopWorkers
  /\ \E id \in {0, savedId} : GoTo(Stop(id, id))
  /\ poll' = FirstPoll /\ agreementReached' = FALSE
  /\ UNCHANGED exchVars

-----------------------------------------------------------------------------
(* The message worker. *)

\* NewEvent: a message change, or the return of the heartbeat, is a command.
TakeEvent ==
  /\ onBus # {} /\ onBus' = {}
  /\ fetching' = TRUE
  /\ UNCHANGED <<exchVars, hasToken, changeId, savedId, dropped, beat, heartBeatFailed, poll,
                 agreementReached, feedStops>>

\* handleMessages: messages that can be read are handed out, again if they were before,
\* and stay in the exchange for the worker that deals with them; the others are deleted,
\* which may fail.
LeftInMailbox(deleted) == {<<m[1], "seen">> : m \in {n \in mailbox : n[1] \/ ~deleted}}

\* Mutant: the command is finished whether or not the exchange could be read.
HandleMessagesOnce ==
  /\ fetching /\ fetching' = FALSE
  /\ \/ \E deleted \in BOOLEAN : mailbox' = LeftInMailbox(deleted)
     \/ UNCHANGED mailbox
  /\ UNCHANGED <<log, nodeCfg, orgCfg, hasToken, posVars, beat, heartBeatFailed, poll,
                 agreementReached, feedStops>>

\* A command that cannot reach the exchange is deferred and tried again.
HandleMessages ==
  /\ fetching /\ fetching' = FALSE /\ dropped' = FALSE
  /\ \E deleted \in BOOLEAN : mailbox' = LeftInMailbox(deleted)
  /\ UNCHANGED <<log, nodeCfg, orgCfg, hasToken, changeId, savedId, onBus, beat, heartBeatFailed,
                 poll, agreementReached, feedStops>>

FeedNext ==
  \/ \E good \in BOOLEAN : SendMessage(good)
  \/ EditNodeConfig \/ EditOrgConfig \/ \E t \in ChangeTypes : OtherChange(t)
  \/ RemoveMessage \/ Register \/ NoWork \/ UpdateInterval \/ AgreementMade
  \/ RestartAgent \/ Unconfigure \/ TakeEvent \/ HandleMessages

FeedSpec == FeedInit /\ [][FeedNext]_feedVars

-----------------------------------------------------------------------------
Unseen == \E good \in BOOLEAN : <<good, "new">> \in mailbox

\* Somebody will still look at the mailbox: a change to be read, a notice on the bus
\* or a command says so.
MessagesAwaited == "message" \in From(changeId) \/ onBus # {} \/ fetching

\* A message for the node is never overlooked, whatever calls fail, unless since the
\* last look a notice was lost: the agent stopped between saving its position and
\* fetching, or could not save the newest position when it took it
\* (findAndProcessChanges, getChangeId, postProcessChanges, handleMessages).
NoMessageOverlooked == Unseen /\ ~dropped => MessagesAwaited

\* The interval never exceeds the maximum in force, and the maximum is not below the
\* minimum, unless the organization could not be read in the middle of taking new
\* values (updatePollingInterval, getHeartbeatIntervals).
IntervalWithinMaximum ==
  ~poll.torn => poll.min <= poll.max /\ poll.interval <= poll.max /\ poll.interval > 0
=============================================================================
