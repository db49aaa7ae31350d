------------------------- MODULE AgreementProtocol -------------------------
(***************************************************************************)
(* The Basic agreement protocol between one agbot (the consumer) and one   *)
(* edge node (the producer) for one deployment policy.                     *)
(*                                                                         *)
(* Each element of Ags is the id of one attempt to make an agreement.  The *)
(* two sides share no state: they exchange messages through mailboxes kept *)
(* by the exchange, and each also records its view of an agreement there.  *)
(* A message stays in its mailbox until the receiver deletes it or its TTL *)
(* runs out, so it can be lost, handled twice, and handled out of order    *)
(* (the agbot has a pool of workers, the agent defers commands).           *)
(*                                                                         *)
(* agbot: agreementbot/agreementworker.go, basic_agreement_worker.go,      *)
(*        governance.go, agreementbot.go                                   *)
(* agent: agreement/agreement.go, producer/*.go, governance/governance.go, *)
(*        governance/node.go, container/container.go                       *)
(***************************************************************************)
EXTENDS Naturals, FiniteSets

CONSTANTS
  Ags,            \* agreement ids
  NoMsg,          \* "no message"
  VerLimit,       \* governance.go: FailedVerAttempts > 5 cancels; 5 in the code
  MaxLoss,        \* messages the exchange may drop, and exchange calls that may fail
  MaxDup,         \* deletions of a handled message that may fail
  MaxAgbotCrash,  \* agbot restarts
  MaxAgentCrash,  \* agent restarts
  MaxChoice       \* cancels and verifications asked for by users, policies, searches and heartbeats

ASSUME BoundsAssumption ==
  /\ VerLimit \in Nat
  /\ MaxLoss \in Nat /\ MaxDup \in Nat
  /\ MaxAgbotCrash \in Nat /\ MaxAgentCrash \in Nat /\ MaxChoice \in Nat

VARIABLES
  \* ---- the agbot
  ab,          \* its database: one record per agreement id
  initiating,  \* ids with an INITIATE item; its worker holds the lock of an attempt
  posting,     \* ids whose worker dropped the lock and has yet to finalize
  cancelQ,     \* ids with a CANCEL item in the work queue
  \* ---- the exchange
  net,         \* messages in the mailboxes
  exNode,      \* ids recorded as agreements of the node
  \* ---- the agent
  ea,          \* its database: one EstablishedAgreement per agreement id
  deciding,    \* the proposal answered and not yet persisted
  declining,   \* the negative ack whose cancel has been announced, not yet made
  terminating, \* ids with an externalTermination goroutine
  gcmds,       \* commands waiting for the governance worker
  cont,        \* commands waiting for image fetch and the container worker
  running,     \* ids that have workload containers
  \* ---- the environment
  spent        \* how often each kind of bounded event has happened

agbotVars == <<ab, initiating, posting, cancelQ>>
agentVars == <<ea, deciding, declining, terminating, gcmds, cont, running, exNode>>
vars == <<agbotVars, net, agentVars, spent>>

-----------------------------------------------------------------------------
(***************************************************************************)
(* Types.                                                                  *)
(***************************************************************************)

\* The agbot record by the times that are set: attempt (inception), proposed
\* (creation), replied (counter party address), finalized.  "deleted" is an id
\* whose record has been removed.
AbStages == {"none", "attempt", "proposed", "replied", "finalized", "deleted"}
AbRecord == [stage : AbStages, timedout : BOOLEAN, archived : BOOLEAN]

\* The agent record: pending (created), accepted, finalized.
EaStages == {"none", "pending", "accepted", "finalized"}
EaRecord == [stage : EaStages, terminated : BOOLEAN, forced : BOOLEAN,
             notExecuted : BOOLEAN,  \* TerminatedReason = CANCEL_NOT_EXECUTED_TIMEOUT
             started : BOOLEAN, protoTerm : BOOLEAN, wlTerm : BOOLEAN,
             archived : BOOLEAN, ver : 0..(VerLimit + 1)]

ToNode  == {"proposal", "replyAck", "abCancel", "abVerify", "abVerifyReply"}
ToAgbot == {"reply", "eaCancel", "eaVerify", "eaVerifyReply"}
Message == [type : ToNode \cup ToAgbot, ag : Ags, ok : BOOLEAN, copy : 0..1]

ASSUME NoMsgAssumption == NoMsg \notin Message

GovCommand  == {"execBegun", "cleanup", "protoTerminated", "wlDestroyed",
                "cancelDeferred", "verify"} \X Ags
ContCommand == {"configure", "shutdown"} \X Ags

NoAbRecord == [stage |-> "none", timedout |-> FALSE, archived |-> FALSE]
NoEaRecord == [stage |-> "none", terminated |-> FALSE, forced |-> FALSE,
               notExecuted |-> FALSE, started |-> FALSE, protoTerm |-> FALSE,
               wlTerm |-> FALSE, archived |-> FALSE, ver |-> 0]

Spending == [loss : 0..MaxLoss, dup : 0..MaxDup, agbot : 0..MaxAgbotCrash,
             agent : 0..MaxAgentCrash, choice : 0..MaxChoice]
NothingSpent == [loss |-> 0, dup |-> 0, agbot |-> 0, agent |-> 0, choice |-> 0]

AgbotTypeOK ==
  /\ ab \in [Ags -> AbRecord]
  /\ initiating \subseteq Ags /\ posting \subseteq Ags /\ cancelQ \subseteq Ags

AgentTypeOK ==
  /\ ea \in [Ags -> EaRecord]
  /\ deciding = NoMsg \/ (deciding \in Message /\ deciding.type = "proposal")
  /\ declining = NoMsg \/ (declining \in Message /\ declining.type = "replyAck" /\ ~declining.ok)
  /\ gcmds \subseteq GovCommand /\ cont \subseteq ContCommand
  /\ exNode \subseteq Ags /\ terminating \subseteq Ags /\ running \subseteq Ags

\* The type invariant.  The message a worker has taken is one it takes: a proposal
\* for the agreement worker, a negative ack for the governance worker.
TypeOK == AgbotTypeOK /\ net \subseteq Message /\ AgentTypeOK /\ spent \in Spending

Init ==
  /\ ab = [a \in Ags |-> NoAbRecord]
  /\ initiating = {} /\ posting = {} /\ cancelQ = {}
  /\ net = {} /\ exNode = {}
  /\ ea = [a \in Ags |-> NoEaRecord]
  /\ deciding = NoMsg /\ declining = NoMsg /\ terminating = {}
  /\ gcmds = {} /\ cont = {} /\ running = {}
  /\ spent = NothingSpent

-----------------------------------------------------------------------------
(***************************************************************************)
(* The exchange.                                                           *)
(***************************************************************************)

Msg(type, a, ok) == [type |-> type, ag |-> a, ok |-> ok, copy |-> 0]

Spend(kind) == spent' = [spent EXCEPT ![kind] = @ + 1]

\* A call to the exchange or the database fails, inside an action of either side.
CallFails == spent.loss < MaxLoss /\ Spend("loss")

\* A handler sends the messages in out and deletes m.
Consume(m, out) == net' = (net \ {m}) \cup out

\* The TTL of a message runs out, or a send failed and was only logged.
LoseMessage(m) ==
  /\ m \in net
  /\ CallFails
  /\ net' = net \ {m}
  /\ UNCHANGED <<agbotVars, agentVars>>

\* Something happens that nothing in the protocol forces: a user's request, a
\* changed policy, a search result, a failing container.
Choice == spent.choice < MaxChoice /\ Spend("choice")

\* An error deleting a handled message is only logged, so the message is read
\* and handled once more.
DuplicateMessage(m) ==
  /\ m \in net /\ m.copy = 0
  /\ spent.dup < MaxDup /\ Spend("dup")
  /\ net' = net \cup {[m EXCEPT !.copy = 1]}
  /\ UNCHANGED <<agbotVars, agentVars>>

-----------------------------------------------------------------------------
(***************************************************************************)
(* The agbot.  Handlers of one agreement id exclude each other through the *)
(* id's lock, which InitiateNewAgreement holds from before the record is   *)
(* created until the proposal has been sent and persisted.                 *)
(***************************************************************************)

\* The id is in the agbot's database.
Known(a) == ab[a].stage \notin {"none", "deleted"}

\* Unarchived and not timed out: what the search and the governance look at.
AbActive(a) == Known(a) /\ ~ab[a].archived /\ ~ab[a].timedout

Locked(a) == a \in initiating /\ Known(a)

\* searchNodesAndMakeAgreements queues an attempt when its snapshot of the
\* database shows none under way.  Nothing looks again when the item is worked
\* on, so two searches can queue two attempts for the same node and policy.
Search(a) ==
  /\ ab[a].stage = "none" /\ a \notin initiating
  /\ \A b \in Ags : ~AbActive(b)
  /\ initiating' = initiating \cup {a}
  /\ UNCHANGED <<ab, posting, cancelQ, net, agentVars, spent>>

\* alreadyMakingAgreementWith: the node was returned although there is a
\* finalized agreement with it, so the agbot asks the node about it.
SearchFindsAgreement(a) ==
  /\ AbActive(a) /\ ab[a].stage = "finalized"
  /\ Choice
  /\ net' = net \cup {Msg("abVerify", a, TRUE)}
  /\ UNCHANGED <<agbotVars, agentVars>>

\* InitiateNewAgreement: the node turns out not to match.
AbandonInitiate(a) ==
  /\ a \in initiating /\ ab[a].stage = "none"
  /\ initiating' = initiating \ {a}
  /\ UNCHANGED <<ab, posting, cancelQ, net, agentVars, spent>>

\* InitiateNewAgreement up to the proposal: AgreementAttempt, InitiateAgreement.
\* When the proposal cannot be sent the record is deleted.
InitiateNewAgreement(a) ==
  /\ a \in initiating /\ ab[a].stage = "none"
  /\ \/ /\ ab' = [ab EXCEPT ![a].stage = "attempt"]
        /\ net' = net \cup {Msg("proposal", a, TRUE)}
        /\ UNCHANGED <<initiating, spent>>
     \/ /\ CallFails
        /\ ab' = [ab EXCEPT ![a].stage = "deleted"]
        /\ initiating' = initiating \ {a}
        /\ UNCHANGED net
  /\ UNCHANGED <<posting, cancelQ, agentVars>>

\* PersistAgreement: the creation time and the proposal are stored.  When that
\* fails the error is logged and the record stays an attempt.
PersistAgreement(a) ==
  /\ Locked(a)
  /\ initiating' = initiating \ {a}
  /\ \/ /\ ab' = [ab EXCEPT ![a].stage = "proposed"]
        /\ UNCHANGED spent
     \/ CallFails /\ UNCHANGED ab
  /\ UNCHANGED <<posting, cancelQ, net, agentVars>>

\* The cancel message of CancelAgreement.  An attempt has no policy yet, so
\* TerminateAgreement gives up before it sends one.
CancelMessages(a) ==
  IF ab[a].stage = "attempt" THEN {} ELSE {Msg("abCancel", a, TRUE)}

\* CancelAgreement of a known, unarchived agreement: timed out, the node told,
\* archived.  The caller sends the message.
CancelAgreement(a) ==
  ab' = [ab EXCEPT ![a].timedout = TRUE, ![a].archived = TRUE]

\* HandleAgreementReply, a positive reply.
HandleAcceptance(m) ==
  LET a == m.ag
      ack(ok) == {Msg("replyAck", a, ok)}
  IN
  /\ m \in net /\ m.type = "reply" /\ m.ok
  /\ Known(a) /\ ~Locked(a)        \* a reply for an unknown id is left alone
  /\ \/ \* Archived, or no proposal was stored: negative ack.
        /\ ab[a].archived \/ ab[a].stage = "attempt"
        /\ Consume(m, ack(FALSE))
        /\ UNCHANGED <<ab, posting, spent>>
     \/ \* AlreadyReceivedReply: no ack at all.
        /\ ~ab[a].archived /\ ab[a].stage \in {"replied", "finalized"}
        /\ Consume(m, {})
        /\ UNCHANGED <<ab, posting, spent>>
     \/ \* PersistReply and Confirm; the lock is dropped.
        /\ ~ab[a].archived /\ ab[a].stage = "proposed"
        /\ ab' = [ab EXCEPT ![a].stage = "replied"]
        /\ posting' = posting \cup {a}
        /\ Consume(m, ack(TRUE))
        /\ UNCHANGED spent
     \/ \* One of the two failed: negative ack.
        /\ ~ab[a].archived /\ ab[a].stage = "proposed"
        /\ CallFails
        /\ \E stage \in {"proposed", "replied"} : ab' = [ab EXCEPT ![a].stage = stage]
        /\ Consume(m, ack(FALSE))
        /\ UNCHANGED <<posting>>
  /\ UNCHANGED <<initiating, cancelQ, agentVars>>

\* HandleAgreementReply, a negative reply: AddRetry and CancelAgreement.
HandleRejection(m) ==
  LET a == m.ag IN
  /\ m \in net /\ m.type = "reply" /\ ~m.ok
  /\ Known(a) /\ ~Locked(a)
  /\ \/ /\ ab[a].archived
        /\ Consume(m, {})
        /\ UNCHANGED ab
     \/ /\ ~ab[a].archived
        /\ CancelAgreement(a)
        /\ Consume(m, CancelMessages(a))
  /\ UNCHANGED <<initiating, posting, cancelQ, agentVars, spent>>

\* The worker's second critical section for a reply it accepted.  It does not
\* look at what happened to the agreement after the first one.
AgreementFinalized(a) ==
  /\ a \in posting /\ ~Locked(a)
  /\ posting' = posting \ {a}
  /\ IF Known(a)
     THEN ab' = [ab EXCEPT ![a].stage = "finalized"]
     ELSE UNCHANGED ab
  /\ UNCHANGED <<initiating, cancelQ, net, agentVars, spent>>

\* Mutant: an agreement that is already cancelled is not taken up again.
CancellableOnce(a) == AbActive(a)

\* CancelAgreement works on unarchived agreements only.
Cancellable(a) == Known(a) /\ ~ab[a].archived

\* A queued CANCEL item: CancelAgreementWithLock.
HandleCancelItem(a) ==
  /\ a \in cancelQ /\ ~Locked(a)
  /\ cancelQ' = cancelQ \ {a}
  /\ IF Cancellable(a)
     THEN CancelAgreement(a) /\ net' = net \cup CancelMessages(a)
     ELSE UNCHANGED <<ab, net>>
  /\ UNCHANGED <<initiating, posting, agentVars, spent>>

\* A cancel message of the node.  One for an unknown id is left alone.
HandleNodeCancel(m) ==
  LET a == m.ag IN
  /\ m \in net /\ m.type = "eaCancel"
  /\ Known(a) /\ ~Locked(a)
  /\ \/ /\ ab[a].archived
        /\ Consume(m, {})
        /\ UNCHANGED ab
     \/ /\ ~ab[a].archived
        /\ CancelAgreement(a)
        /\ Consume(m, CancelMessages(a))
  /\ UNCHANGED <<initiating, posting, cancelQ, agentVars, spent>>

\* Mutant: every agreement the database still holds is reported.
ReportedKnown(a) == Known(a)

\* Archived and timed out agreements are reported to the node as missing.
Reported(a) == AbActive(a)

\* A verify request of the node, answered without the lock.  Unknown ids are not
\* answered at all.
HandleNodeVerify(m) ==
  /\ m \in net /\ m.type = "eaVerify"
  /\ Known(m.ag)
  /\ Consume(m, {Msg("abVerifyReply", m.ag, Reported(m.ag))})
  /\ UNCHANGED <<agbotVars, agentVars, spent>>

\* The node's answer to a verify request: cancel what the node does not have.
HandleNodeVerifyReply(m) ==
  LET a == m.ag IN
  /\ m \in net /\ m.type = "eaVerifyReply"
  /\ Known(a)
  /\ \/ /\ m.ok \/ ~AbActive(a)
        /\ Consume(m, {})
        /\ UNCHANGED ab
     \/ /\ ~m.ok /\ AbActive(a) /\ ~Locked(a)
        /\ CancelAgreement(a)
        /\ Consume(m, CancelMessages(a))
  /\ UNCHANGED <<initiating, posting, cancelQ, agentVars, spent>>

\* TerminateAgreement, called by GovernAgreements without the lock: no reply in
\* time or not finalized in time ...
TerminateAgreement(a) ==
  /\ AbActive(a) /\ ab[a].stage \in {"proposed", "replied"}
  /\ ab' = [ab EXCEPT ![a].timedout = TRUE]
  /\ cancelQ' = cancelQ \cup {a}
  /\ UNCHANGED <<initiating, posting, net, agentVars, spent>>

\* ... or a final agreement with a node that looks dead (VerifyNodeHealth).
TerminateUnhealthy(a) ==
  /\ AbActive(a) /\ ab[a].stage = "finalized" /\ Choice
  /\ ab' = [ab EXCEPT ![a].timedout = TRUE]
  /\ cancelQ' = cancelQ \cup {a}
  /\ UNCHANGED <<initiating, posting, net, agentVars>>

\* DELETE of an agreement through the agbot's API.
ApiDeleteAgreement(a) ==
  /\ AbActive(a) /\ Choice
  /\ ab' = [ab EXCEPT ![a].timedout = TRUE]
  /\ cancelQ' = cancelQ \cup {a}
  /\ UNCHANGED <<initiating, posting, net, agentVars>>

\* A change of the policy queues a cancel and leaves the record as it is.
HandlePolicyChanged(a) ==
  /\ AbActive(a) /\ ab[a].stage # "attempt" /\ a \notin cancelQ
  /\ Choice
  /\ cancelQ' = cancelQ \cup {a}
  /\ UNCHANGED <<ab, initiating, posting, net, agentVars>>

\* An hour without news of the id: messages about it have been handled or have
\* expired, and both sides have done what they do within seconds or minutes.
Quiet(a) ==
  /\ \A m \in net : m.ag # a
  /\ a \notin posting \cup cancelQ \cup terminating
  /\ deciding # NoMsg => deciding.ag # a
  /\ ea[a].stage \in {"pending", "accepted"} => ea[a].archived

\* GovernArchivedAgreements deletes what was timed out hours ago.
GovernArchivedAgreements(a) ==
  /\ Known(a) /\ ab[a].archived /\ Quiet(a)
  /\ ab' = [ab EXCEPT ![a].stage = "deleted"]
  /\ UNCHANGED <<initiating, posting, cancelQ, net, agentVars, spent>>

\* The agbot stops and starts again.  syncOnInit deletes attempts, records the
\* others in the exchange again, and terminates those whose policy is gone.
AgbotRestart ==
  /\ spent.agbot < MaxAgbotCrash /\ Spend("agbot")
  /\ LET made == {a \in Ags : /\ Known(a) /\ ~ab[a].archived
                              /\ ab[a].stage # "attempt"}
     IN \E gone \in {{}, made} :
          /\ ab' = [a \in Ags |->
                      IF Known(a) /\ ~ab[a].archived /\ ab[a].stage = "attempt"
                        THEN [ab[a] EXCEPT !.stage = "deleted"]
                        ELSE [ab[a] EXCEPT !.timedout = @ \/ a \in gone]]
          /\ cancelQ' = gone
  /\ initiating' = {} /\ posting' = {}
  /\ UNCHANGED <<net, agentVars>>

-----------------------------------------------------------------------------
(***************************************************************************)
(* The agent.  Proposals are handled by the agreement worker, everything   *)
(* else by the governance worker, a thread of its own that is busy while   *)
(* declining # NoMsg.                                                      *)
(***************************************************************************)

Unarchived(a) == ea[a].stage # "none" /\ ~ea[a].archived

\* Unarchived and not terminated: the agreements FindAgreementWithSameWorkload,
\* governAgreements and handleNodeHeartbeatRestored look at.
Active(a) == Unarchived(a) /\ ~ea[a].terminated

Accepted(a) == ea[a].stage \in {"accepted", "finalized"}

GovIdle == declining = NoMsg

\* Mutant: only the agreement itself is looked up.
MayAnswerUnchecked(a) == ~Unarchived(a)

\* Mutant: an agreement that is not accepted yet is overlooked.
MayAnswerPending(a) == ~Unarchived(a) /\ \A b \in Ags : ~(Active(b) /\ Accepted(b))

\* HandleProposal's two looks at the database: the agreement is new, and
\* FindAgreementWithSameWorkload finds no live agreement for the policy.
MayAnswer(a) == ~Unarchived(a) /\ \A b \in Ags : ~Active(b)

\* HandleProposal of a proposal that is ignored: the agreement exists, another
\* one exists for the policy, or something does not match.  No reply is sent.
IgnoreProposal(m) ==
  /\ deciding = NoMsg /\ m \in net /\ m.type = "proposal"
  /\ Consume(m, {})
  /\ UNCHANGED <<agbotVars, agentVars, spent>>

\* DecideOnProposal rejects: the answer is sent and nothing is stored.
RejectProposal(m) ==
  /\ deciding = NoMsg /\ m \in net /\ m.type = "proposal"
  /\ MayAnswer(m.ag)
  /\ Consume(m, {Msg("reply", m.ag, FALSE)})
  /\ UNCHANGED <<agbotVars, agentVars, spent>>

\* DecideOnProposal accepts.  The answer leaves before the agreement is stored.
AcceptProposal(m) ==
  /\ deciding = NoMsg /\ m \in net /\ m.type = "proposal"
  /\ MayAnswer(m.ag)
  /\ net' = net \cup {Msg("reply", m.ag, TRUE)}
  /\ deciding' = m
  /\ UNCHANGED <<agbotVars, ea, declining, terminating, gcmds, cont, running,
                 exNode, spent>>

\* PersistProposal, then the message is deleted.  A new record replaces an
\* archived one with the same id.
PersistProposal ==
  /\ deciding # NoMsg
  /\ deciding' = NoMsg
  /\ Consume(deciding, {})
  /\ \/ /\ ~Unarchived(deciding.ag)
        /\ ea' = [ea EXCEPT ![deciding.ag] = [NoEaRecord EXCEPT !.stage = "pending"]]
        /\ UNCHANGED spent
     \/ CallFails /\ UNCHANGED ea
  /\ UNCHANGED <<agbotVars, declining, terminating, gcmds, cont, running, exNode>>

\* AgreementStateTerminated, of a record that is neither terminated nor archived.
Terminated(a, notExecuted) ==
  [ea EXCEPT ![a] = IF @.archived \/ @.terminated THEN @
                    ELSE [@ EXCEPT !.terminated = TRUE, !.notExecuted = notExecuted]]

\* cancelAgreement: mark the record, remove it from the exchange if it was put
\* there, start externalTermination.  rest is what remains of the command queue.
cancelNow(a, notExecuted, rest) ==
  /\ ea' = Terminated(a, notExecuted)
  /\ exNode' = IF Accepted(a) THEN exNode \ {a} ELSE exNode
  /\ terminating' = terminating \cup {a}
  /\ gcmds' = rest

\* When the exchange refuses, the rest is left to a deferred command.
cancelAgreement(a, notExecuted, rest) ==
  \/ cancelNow(a, notExecuted, rest) /\ UNCHANGED spent
  \/ /\ Accepted(a) /\ CallFails
     /\ ea' = Terminated(a, notExecuted)
     /\ gcmds' = rest \cup {<<"cancelDeferred", a>>}
     /\ UNCHANGED <<exNode, terminating>>

\* The AGREEMENT_ENDED event on its way to the container worker.
Shutdown(a) == cont' = cont \cup {<<"shutdown", a>>}

\* RecordReply: accepted in the database, then in the exchange, then launched.
RecordReply(a, stage) ==
  /\ ea' = [ea EXCEPT ![a].stage = stage]
  /\ exNode' = exNode \cup {a}
  /\ cont' = cont \cup {<<"configure", a>>}

\* An error after the first step of RecordReply leaves the record accepted.
RecordReplyFails(a) ==
  /\ CallFails
  /\ ea' = [ea EXCEPT ![a].stage = "accepted"]
  /\ exNode' \in {exNode, exNode \cup {a}}

\* The first ack of an agreement that is not being cancelled.
AckApplies(a) == Active(a) /\ ~Accepted(a)

\* A positive ack.  It is kept for another try when RecordReply fails.
HandleReplyAck(m) ==
  LET a == m.ag IN
  /\ GovIdle /\ m \in net /\ m.type = "replyAck" /\ m.ok
  /\ \/ /\ ~AckApplies(a)
        /\ Consume(m, {})
        /\ UNCHANGED <<ea, exNode, cont, spent>>
     \/ /\ AckApplies(a)
        /\ RecordReply(a, "accepted")
        /\ Consume(m, {})
        /\ UNCHANGED spent
     \/ /\ AckApplies(a)
        /\ RecordReplyFails(a)
        /\ UNCHANGED <<net, cont>>
  /\ UNCHANGED <<agbotVars, deciding, declining, terminating, gcmds, running>>

NegativeAck(m) == m.type = "replyAck" /\ ~m.ok

\* A negative ack: the event goes out first ...
HandleNegativeAck(m) ==
  /\ GovIdle /\ m \in net /\ NegativeAck(m)
  /\ \/ /\ ~Unarchived(m.ag)
        /\ Consume(m, {})
        /\ UNCHANGED <<declining, cont>>
     \/ /\ Unarchived(m.ag)
        /\ declining' = m
        /\ Shutdown(m.ag)
        /\ UNCHANGED net
  /\ UNCHANGED <<agbotVars, ea, deciding, terminating, gcmds, running, exNode, spent>>

\* ... and then the agreement is cancelled, whatever its state.
DeclineAgreement ==
  /\ ~GovIdle
  /\ declining' = NoMsg
  /\ cancelAgreement(declining.ag, FALSE, gcmds)
  /\ Consume(declining, {})
  /\ UNCHANGED <<agbotVars, deciding, cont, running>>

\* A cancel message of the agbot, or its answer that an agreement does not exist
\* (which, unlike the cancel, is acted on for a terminating agreement too).
HandleAgbotCancel(m) ==
  LET a == m.ag
      cancel == \/ m.type = "abCancel" /\ Active(a)
                \/ m.type = "abVerifyReply" /\ ~m.ok /\ Unarchived(a)
  IN
  /\ GovIdle /\ m \in net
  /\ m.type = "abCancel" \/ (m.type = "abVerifyReply" /\ ~m.ok)
  /\ Consume(m, {})
  /\ \/ cancel /\ cancelAgreement(a, FALSE, gcmds) /\ Shutdown(a)
     \/ ~cancel /\ UNCHANGED <<ea, exNode, terminating, gcmds, cont, spent>>
  /\ UNCHANGED <<agbotVars, deciding, declining, running>>

\* The other extension messages: a verify request is answered by whether there
\* is an unarchived record.  Both clear the count of failed verifications.
HandleAgbotVerify(m) ==
  /\ GovIdle /\ m \in net
  /\ m.type = "abVerify" \/ (m.type = "abVerifyReply" /\ m.ok)
  /\ Consume(m, IF m.type = "abVerify"
                THEN {Msg("eaVerifyReply", m.ag, Unarchived(m.ag))} ELSE {})
  /\ ea' = IF Unarchived(m.ag) THEN [ea EXCEPT ![m.ag].ver = 0] ELSE ea
  /\ UNCHANGED <<agbotVars, deciding, declining, terminating, gcmds, cont, running,
                 exNode, spent>>

\* The goroutine of externalTermination: tell the agbot, report back.
ExternalTermination(a) ==
  /\ a \in terminating
  /\ terminating' = terminating \ {a}
  /\ net' = net \cup {Msg("eaCancel", a, TRUE)}
  /\ gcmds' = gcmds \cup {<<"protoTerminated", a>>}
  /\ UNCHANGED <<agbotVars, ea, deciding, declining, cont, running, exNode, spent>>

Without(kind, a) == gcmds \ {<<kind, a>>}

\* CleanupStatusCommand.  A record that was never accepted is deleted; the others
\* are archived once both halves of the cleanup have reported, or as soon as the
\* protocol half has when the workload was not started in time.
CleanupStatus(kind, a) ==
  /\ GovIdle /\ kind \in {"protoTerminated", "wlDestroyed"} /\ <<kind, a>> \in gcmds
  /\ gcmds' = Without(kind, a)
  /\ \/ ~Unarchived(a) /\ UNCHANGED ea
     \/ /\ Unarchived(a) /\ ~Accepted(a)
        /\ ea' = [ea EXCEPT ![a] = NoEaRecord]
     \/ /\ Unarchived(a) /\ Accepted(a) /\ kind = "wlDestroyed"
        /\ ea' = [ea EXCEPT ![a].wlTerm = TRUE, ![a].archived = ea[a].protoTerm]
     \/ /\ Unarchived(a) /\ Accepted(a) /\ kind = "protoTerminated"
        /\ ea' = [ea EXCEPT ![a].protoTerm = TRUE,
                            ![a].archived = ea[a].notExecuted \/ ea[a].wlTerm]
  /\ UNCHANGED <<agbotVars, net, deciding, declining, terminating, cont, running,
                 exNode, spent>>

\* Mutant: the restart does not force the cleanup.
NeedsCleanupOnce(a) == Unarchived(a) /\ ~ea[a].terminated

\* An agreement that is already terminating is left alone unless a restart
\* forces its cleanup.
NeedsCleanup(a) == Unarchived(a) /\ (~ea[a].terminated \/ ea[a].forced)

\* CleanupExecutionCommand: an error of the workload, a user's request, or what
\* syncOnInit found.  An agreement that is already terminating is left alone
\* unless a restart forces the cleanup.
CleanupExecution(a) ==
  /\ GovIdle /\ <<"cleanup", a>> \in gcmds
  /\ \/ /\ NeedsCleanup(a)
        /\ cancelAgreement(a, FALSE, Without("cleanup", a))
        /\ Shutdown(a)
     \/ /\ ~NeedsCleanup(a)
        /\ gcmds' = Without("cleanup", a)
        /\ UNCHANGED <<ea, exNode, terminating, cont, spent>>
  /\ UNCHANGED <<agbotVars, net, deciding, declining, running>>

\* StartGovernExecutionCommand: the workload is up.
StartGovernExecution(a) ==
  /\ GovIdle /\ <<"execBegun", a>> \in gcmds
  /\ gcmds' = Without("execBegun", a)
  /\ ea' = IF Unarchived(a) THEN [ea EXCEPT ![a].started = TRUE] ELSE ea
  /\ UNCHANGED <<agbotVars, net, deciding, declining, terminating, cont, running,
                 exNode, spent>>

\* cancelAgreement finds a record, archived or not.
CancelFinds(a) == ea[a].stage # "none"

\* The deferred CancelAgreementCommand.
DeferredCancel(a) ==
  /\ GovIdle /\ <<"cancelDeferred", a>> \in gcmds
  /\ IF ~CancelFinds(a)
     THEN /\ gcmds' = Without("cancelDeferred", a)
          /\ UNCHANGED <<ea, exNode, terminating, spent>>
     ELSE cancelAgreement(a, FALSE, Without("cancelDeferred", a))
  /\ UNCHANGED <<agbotVars, net, deciding, declining, cont, running>>

\* governAgreements of an agreement that is not final: VerifyAgreement reports
\* true as soon as its message has been sent, so finalizeAgreement follows, and
\* it supplies the acceptance if no ack has been seen.
FinalizeAgreement(a) ==
  /\ GovIdle /\ Active(a) /\ ea[a].stage # "finalized"
  /\ net' = net \cup {Msg("eaVerify", a, TRUE)}
  /\ \/ /\ ~Accepted(a) /\ RecordReply(a, "finalized")
        /\ UNCHANGED spent
     \/ /\ ~Accepted(a) /\ RecordReplyFails(a)
        /\ UNCHANGED cont
     \/ /\ Accepted(a)
        /\ ea' = [ea EXCEPT ![a].stage = "finalized"]
        /\ exNode' = exNode \cup {a}
        /\ UNCHANGED <<cont, spent>>
  /\ UNCHANGED <<agbotVars, deciding, declining, terminating, gcmds, running>>

\* governAgreements, an agreement that is not final when its time is up because
\* the verification failed once more.
FinalizeTimeout(a) ==
  /\ GovIdle /\ Active(a) /\ ea[a].stage # "finalized"
  /\ CallFails
  /\ cancelNow(a, FALSE, gcmds)
  /\ Shutdown(a)
  /\ UNCHANGED <<agbotVars, net, deciding, declining, running>>

\* governAgreements, a final agreement whose workload is not started in time, or
\* that could not be verified too often ...
GovernAgreements(a) ==
  /\ GovIdle /\ Active(a) /\ ea[a].stage = "finalized"
  /\ ~ea[a].started \/ ea[a].ver > VerLimit
  /\ cancelAgreement(a, ~ea[a].started, gcmds)
  /\ Shutdown(a)
  /\ UNCHANGED <<agbotVars, net, deciding, declining, running>>

\* ... or that is out of policy.
GovernOutOfPolicy(a) ==
  /\ GovIdle /\ Active(a) /\ ea[a].stage = "finalized" /\ ea[a].started
  /\ Choice
  /\ cancelNow(a, FALSE, gcmds)
  /\ Shutdown(a)
  /\ UNCHANGED <<agbotVars, net, deciding, declining, running>>

\* governAgreements asks for another round of verification.
GovernVerification(a) ==
  /\ GovIdle /\ Active(a) /\ ea[a].stage = "finalized" /\ ea[a].started
  /\ ea[a].ver \in 1..VerLimit /\ <<"verify", a>> \notin gcmds
  /\ gcmds' = gcmds \cup {<<"verify", a>>}
  /\ UNCHANGED <<agbotVars, net, ea, deciding, declining, terminating, cont,
                 running, exNode, spent>>

\* NODE_HEARTBEAT_RESTORED reaches the governance worker, after an interruption.
HeartbeatRestored(a) ==
  /\ Active(a) /\ Choice
  /\ gcmds' = gcmds \cup {<<"verify", a>>}
  /\ UNCHANGED <<agbotVars, net, ea, deciding, declining, terminating, cont,
                 running, exNode>>

\* One more verification whose answer has not been seen.
CountVerification(rec) ==
  [rec EXCEPT !.ver = IF @ > VerLimit THEN @ ELSE @ + 1]

\* handleNodeHeartbeatRestored.  The cancel of its last resort does not tell the
\* container worker.
VerifyAgreement(a) ==
  /\ GovIdle /\ <<"verify", a>> \in gcmds
  /\ \/ /\ ~Active(a)
        /\ gcmds' = Without("verify", a)
        /\ UNCHANGED <<net, ea, exNode, terminating, spent>>
     \/ /\ Active(a)
        /\ gcmds' = Without("verify", a)
        /\ net' = net \cup {Msg("eaVerify", a, TRUE)}
        /\ ea' = [ea EXCEPT ![a] = CountVerification(@)]
        /\ UNCHANGED <<exNode, terminating, spent>>
     \/ /\ Active(a) /\ CallFails
        /\ IF ea[a].ver > VerLimit
           THEN cancelNow(a, FALSE, gcmds)
           ELSE UNCHANGED <<ea, exNode, terminating, gcmds>>
        /\ UNCHANGED net
  /\ UNCHANGED <<agbotVars, deciding, declining, cont, running>>

\* The container worker's WorkloadConfigureCommand.
WorkloadConfigure(a) ==
  /\ <<"configure", a>> \in cont
  /\ cont' = cont \ {<<"configure", a>>}
  /\ IF Active(a) /\ ~ea[a].started
     THEN \/ /\ running' = running \cup {a}
             /\ gcmds' = gcmds \cup {<<"execBegun", a>>}
          \/ /\ gcmds' = gcmds \cup {<<"cleanup", a>>}
             /\ UNCHANGED running
     ELSE UNCHANGED <<running, gcmds>>
  /\ UNCHANGED <<agbotVars, net, ea, deciding, declining, terminating, exNode, spent>>

\* The container worker's WorkloadShutdownCommand.
WorkloadShutdown(a) ==
  /\ <<"shutdown", a>> \in cont
  /\ cont' = cont \ {<<"shutdown", a>>}
  /\ running' = running \ {a}
  /\ gcmds' = gcmds \cup {<<"wlDestroyed", a>>}
  /\ UNCHANGED <<agbotVars, net, ea, deciding, declining, terminating, exNode, spent>>

\* A container is found dead, or the user cancels the agreement.
CleanupRequested(a) ==
  /\ Active(a) /\ <<"cleanup", a>> \notin gcmds /\ Choice
  /\ gcmds' = gcmds \cup {<<"cleanup", a>>}
  /\ UNCHANGED <<agbotVars, net, ea, deciding, declining, terminating, cont,
                 running, exNode>>

\* Mutant: archived agreements are taken for existing ones.
SyncedExchangeArchived(verified) == exNode \cup {a \in Ags : Accepted(a)}

\* syncOnInit deletes from the exchange what is not in the database, and puts
\* back what is.
SyncedExchange(verified) == {a \in exNode : Unarchived(a)} \cup verified

\* The agent stops and starts again.  The agreement worker's syncOnInit repairs
\* the exchange, forces the cleanup of what was terminating and verifies what was
\* accepted; the container worker removes the containers of archived agreements.
AgentRestart ==
  LET verified == {a \in Ags : Active(a) /\ Accepted(a)}
      unfinished == {a \in Ags : Unarchived(a) /\ ea[a].terminated}
  IN
  /\ spent.agent < MaxAgentCrash /\ Spend("agent")
  /\ deciding' = NoMsg /\ declining' = NoMsg
  /\ terminating' = {} /\ cont' = {}
  /\ gcmds' = {<<"cleanup", a>> : a \in unfinished}
  /\ net' = net \cup {Msg("eaVerify", a, TRUE) : a \in verified}
  /\ ea' = [a \in Ags |->
              IF a \in unfinished THEN [ea[a] EXCEPT !.forced = TRUE]
              ELSE IF a \in verified \cap exNode THEN CountVerification(ea[a])
              ELSE ea[a]]
  /\ exNode' = SyncedExchange(verified)
  /\ running' = {a \in running : Unarchived(a)}
  /\ UNCHANGED agbotVars

-----------------------------------------------------------------------------
(***************************************************************************)
(* The specification.                                                      *)
(***************************************************************************)

\* A worker of the agbot finishes the item it has taken.
AgbotWorker(a) ==
  InitiateNewAgreement(a) \/ PersistAgreement(a) \/ AgreementFinalized(a) \/ HandleCancelItem(a)

\* A message waiting for the agbot is handled.
AgbotMessage(m) ==
  \/ HandleAcceptance(m) \/ HandleRejection(m) \/ HandleNodeCancel(m)
  \/ HandleNodeVerify(m) \/ HandleNodeVerifyReply(m)

\* What the agbot does on its own account or when asked to.
AgbotDecision(a) ==
  \/ Search(a) \/ SearchFindsAgreement(a) \/ AbandonInitiate(a)
  \/ TerminateAgreement(a) \/ TerminateUnhealthy(a) \/ ApiDeleteAgreement(a) \/ HandlePolicyChanged(a)
  \/ GovernArchivedAgreements(a)

Agbot ==
  \/ \E a \in Ags : AgbotWorker(a) \/ AgbotDecision(a)
  \/ \E m \in net : AgbotMessage(m)

AgentMessage(m) ==
  \/ IgnoreProposal(m) \/ RejectProposal(m) \/ AcceptProposal(m)
  \/ HandleReplyAck(m) \/ HandleNegativeAck(m)
  \/ HandleAgbotCancel(m) \/ HandleAgbotVerify(m)

AgentWorker(a) ==
  \/ ExternalTermination(a)
  \/ \E kind \in {"protoTerminated", "wlDestroyed"} : CleanupStatus(kind, a)
  \/ CleanupExecution(a) \/ StartGovernExecution(a) \/ DeferredCancel(a)
  \/ VerifyAgreement(a) \/ WorkloadConfigure(a) \/ WorkloadShutdown(a)

AgentDecision(a) ==
  \/ FinalizeAgreement(a) \/ FinalizeTimeout(a) \/ GovernAgreements(a)
  \/ GovernOutOfPolicy(a) \/ GovernVerification(a) \/ CleanupRequested(a)

Agent ==
  \/ PersistProposal \/ DeclineAgreement
  \/ \E a \in Ags : AgentWorker(a) \/ AgentDecision(a)
  \/ \E m \in net : AgentMessage(m)

Environment ==
  \/ \E m \in net : LoseMessage(m) \/ DuplicateMessage(m)
  \/ \E a \in Ags : HeartbeatRestored(a)
  \/ AgbotRestart \/ AgentRestart

Next == Agbot \/ Agent \/ Environment

Spec == Init /\ [][Next]_vars

\* Fairness: threads that have work do it, mailboxes are polled, and the periodic
\* governance of both sides runs.  What users, searches, node health and faults
\* cause is not fair: it need not happen.
AgbotFairness ==
  /\ \A a \in Ags : WF_vars(InitiateNewAgreement(a) \/ AbandonInitiate(a))
  /\ \A a \in Ags : WF_vars(PersistAgreement(a))
  /\ \A a \in Ags : WF_vars(AgreementFinalized(a))
  /\ \A a \in Ags : WF_vars(HandleCancelItem(a))
  /\ \A t \in ToAgbot, a \in Ags : WF_vars(\E m \in net : m.type = t /\ m.ag = a /\ AgbotMessage(m))
  /\ \A a \in Ags : WF_vars(TerminateAgreement(a))

\* The threads that clean up after a cancel, and only they.
CleanupFairness ==
  /\ WF_vars(DeclineAgreement)
  /\ \A a \in Ags : WF_vars(ExternalTermination(a)) /\ WF_vars(WorkloadShutdown(a))
  /\ \A a \in Ags, kind \in {"protoTerminated", "wlDestroyed"} : WF_vars(CleanupStatus(kind, a))
  /\ \A a \in Ags : WF_vars(CleanupExecution(a)) /\ WF_vars(DeferredCancel(a))

AgentFairness ==
  /\ CleanupFairness
  /\ \A t \in ToNode, a \in Ags : WF_vars(\E m \in net : m.type = t /\ m.ag = a /\ AgentMessage(m))
  /\ WF_vars(PersistProposal)
  /\ \A a \in Ags : WF_vars(StartGovernExecution(a)) /\ WF_vars(VerifyAgreement(a))
  /\ \A a \in Ags : WF_vars(WorkloadConfigure(a)) /\ WF_vars(FinalizeAgreement(a))
  /\ \A a \in Ags : WF_vars(GovernAgreements(a)) /\ WF_vars(GovernVerification(a))

CleanupSpec == Spec /\ CleanupFairness

FairSpec == Spec /\ AgbotFairness /\ AgentFairness

-----------------------------------------------------------------------------
(***************************************************************************)
(* Properties.                                                             *)
(***************************************************************************)

\* The node is in at most one live agreement for the policy, although the agbot
\* may have several attempts under way and answers leave before records are
\* written (HandleProposal, FindAgreementWithSameWorkload, PersistProposal).
AtMostOneActive == \A a, b \in Ags : Active(a) /\ Active(b) => a = b

\* What the exchange shows as an agreement of the node is an accepted agreement
\* the node has not archived, through deferred cancels, restarts and late acks
\* (RecordReply, cancelAgreement, CleanupStatusCommand, syncOnInit).
ExchangeMatchesAgent ==
  \A a \in exNode : \/ Unarchived(a) /\ Accepted(a)
                    \/ <<"cancelDeferred", a>> \in gcmds

\* The agent promises the slot of PolicySlot: an agreement starts only when no
\* other one is alive, in spite of two workers and answers sent before records.
Live == {a \in Ags : Active(a)}
Slot == INSTANCE PolicySlot WITH slot <- Live
SlotSpec == Slot!Spec

\* "archive the agreement if all the cleanup processes are done": no containers
\* are left behind (CleanupStatusCommand; a workload that was not started in time
\* is archived early on purpose).
ArchivedWhenCleanedUp ==
  \A a \in Ags : ea[a].archived /\ ~ea[a].notExecuted => a \notin running

\* An agreement of the node that is terminated is cleaned up completely: it is
\* archived, or deleted if it was never accepted.
CancelCompletes ==
  \A a \in Ags : (Unarchived(a) /\ ea[a].terminated)
                   ~> ~(Unarchived(a) /\ ea[a].terminated)

\* The agbot archives, and so tells the node about, whatever it times out.
TimeoutCancels == \A a \in Ags : (Known(a) /\ ab[a].timedout) ~> (ab[a].archived \/ ~Known(a))

\* The node does not stay in an agreement the agbot has given up.
GivenUpByBoth ==
  \A a \in Ags : (ab[a].archived /\ Active(a)) ~> ~Active(a)
=============================================================================
