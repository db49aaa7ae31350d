--------------------------- MODULE AgreementProofs ---------------------------
(***************************************************************************)
(* Theorems about AgreementProtocol, for any number of agreement ids and   *)
(* any bounds on faults: type correctness, the agent's promise that it is  *)
(* in at most one live agreement for the policy, and what the exchange     *)
(* shows of the node's agreements.                                         *)
(***************************************************************************)
EXTENDS AgreementProtocol, TLAPS

-----------------------------------------------------------------------------
(***************************************************************************)
(* What the helpers of the model return.                                   *)
(***************************************************************************)

\* A handler only builds well-formed messages.
LEMMA MsgTypes ==
  ASSUME NEW a \in Ags, NEW ok \in BOOLEAN
  PROVE /\ Msg("proposal", a, ok) \in Message /\ Msg("replyAck", a, ok) \in Message
        /\ Msg("abCancel", a, ok) \in Message /\ Msg("abVerify", a, ok) \in Message
        /\ Msg("abVerifyReply", a, ok) \in Message /\ Msg("reply", a, ok) \in Message
        /\ Msg("eaCancel", a, ok) \in Message /\ Msg("eaVerify", a, ok) \in Message
        /\ Msg("eaVerifyReply", a, ok) \in Message
BY DEF Msg, Message, ToNode, ToAgbot

\* A message names an agreement.
LEMMA MsgFields == ASSUME NEW m \in Message PROVE m.ag \in Ags /\ m.ok \in BOOLEAN
BY DEF Message

\* The commands of the agent's workers are well formed.
LEMMA CommandTypes ==
  ASSUME NEW a \in Ags
  PROVE /\ <<"execBegun", a>> \in GovCommand /\ <<"cleanup", a>> \in GovCommand
        /\ <<"protoTerminated", a>> \in GovCommand /\ <<"wlDestroyed", a>> \in GovCommand
        /\ <<"cancelDeferred", a>> \in GovCommand /\ <<"verify", a>> \in GovCommand
        /\ <<"configure", a>> \in ContCommand /\ <<"shutdown", a>> \in ContCommand
BY DEF GovCommand, ContCommand

\* Every bounded event stays within its bound.
LEMMA SpendTypes ==
  ASSUME spent \in Spending
  PROVE /\ CallFails => spent' \in Spending
        /\ Choice => spent' \in Spending
        /\ spent.dup < MaxDup /\ Spend("dup") => spent' \in Spending
        /\ spent.agbot < MaxAgbotCrash /\ Spend("agbot") => spent' \in Spending
        /\ spent.agent < MaxAgentCrash /\ Spend("agent") => spent' \in Spending
BY BoundsAssumption DEF Spending, CallFails, Choice, Spend

\* The updates of an agbot record.
LEMMA AbUpdates ==
  ASSUME ab \in [Ags -> AbRecord], NEW a \in Ags
  PROVE /\ \A s \in AbStages : [ab EXCEPT ![a].stage = s] \in [Ags -> AbRecord]
        /\ [ab EXCEPT ![a].timedout = TRUE] \in [Ags -> AbRecord]
        /\ CancelAgreement(a) => ab' \in [Ags -> AbRecord]
BY DEF AbRecord, CancelAgreement

LEMMA CancelMessagesType == ASSUME NEW a \in Ags PROVE CancelMessages(a) \subseteq Message
BY MsgTypes DEF CancelMessages

\* The updates of an agent record.
LEMMA EaUpdates ==
  ASSUME ea \in [Ags -> EaRecord], NEW a \in Ags
  PROVE /\ [ea EXCEPT ![a] = NoEaRecord] \in [Ags -> EaRecord]
        /\ [ea EXCEPT ![a] = [NoEaRecord EXCEPT !.stage = "pending"]] \in [Ags -> EaRecord]
        /\ \A s \in EaStages : [ea EXCEPT ![a].stage = s] \in [Ags -> EaRecord]
        /\ [ea EXCEPT ![a].started = TRUE] \in [Ags -> EaRecord]
        /\ [ea EXCEPT ![a].ver = 0] \in [Ags -> EaRecord]
        /\ \A ne \in BOOLEAN : Terminated(a, ne) \in [Ags -> EaRecord]
<1>1. 0 \in 0..(VerLimit + 1)
  BY BoundsAssumption
<1>2. \A ne \in BOOLEAN : Terminated(a, ne) \in [Ags -> EaRecord]
  BY DEF EaRecord, Terminated
<1>3. \A s \in EaStages : [ea EXCEPT ![a].stage = s] \in [Ags -> EaRecord]
  BY DEF EaRecord
<1>4. NoEaRecord \in EaRecord /\ [NoEaRecord EXCEPT !.stage = "pending"] \in EaRecord
  BY <1>1 DEF EaRecord, NoEaRecord, EaStages
<1>5. [ea EXCEPT ![a].started = TRUE] \in [Ags -> EaRecord]
  BY DEF EaRecord
<1>6. [ea EXCEPT ![a].ver = 0] \in [Ags -> EaRecord]
  BY <1>1 DEF EaRecord
<1> QED
  BY <1>2, <1>3, <1>4, <1>5, <1>6

LEMMA CountVerificationType ==
  ASSUME NEW rec \in EaRecord PROVE CountVerification(rec) \in EaRecord
<1>1. rec.ver \in 0..(VerLimit + 1)
  BY DEF EaRecord
<1>2. (IF rec.ver > VerLimit THEN rec.ver ELSE rec.ver + 1) \in 0..(VerLimit + 1)
  BY <1>1, BoundsAssumption
<1> QED
  BY <1>2 DEF EaRecord, CountVerification

\* cancelAgreement, done at once or deferred.
LEMMA CancelTypes ==
  ASSUME AgentTypeOK, spent \in Spending,
         NEW a \in Ags, NEW ne \in BOOLEAN, NEW rest \in SUBSET GovCommand
  PROVE /\ cancelNow(a, ne, rest) =>
             /\ ea' \in [Ags -> EaRecord] /\ exNode' \subseteq Ags
             /\ terminating' \subseteq Ags /\ gcmds' \subseteq GovCommand
        /\ cancelAgreement(a, ne, rest) =>
             /\ ea' \in [Ags -> EaRecord] /\ exNode' \subseteq Ags
             /\ terminating' \subseteq Ags /\ gcmds' \subseteq GovCommand
             /\ spent' \in Spending
<1>1. Terminated(a, ne) \in [Ags -> EaRecord]
  BY EaUpdates DEF AgentTypeOK
<1>2. cancelNow(a, ne, rest) =>
        /\ ea' \in [Ags -> EaRecord] /\ exNode' \subseteq Ags
        /\ terminating' \subseteq Ags /\ gcmds' \subseteq GovCommand
  BY <1>1 DEF cancelNow, AgentTypeOK
<1>3. CallFails => spent' \in Spending
  BY SpendTypes
<1>4. <<"cancelDeferred", a>> \in GovCommand
  BY CommandTypes
<1> QED
  BY <1>1, <1>2, <1>3, <1>4 DEF cancelAgreement, AgentTypeOK

\* RecordReply, complete or interrupted.
LEMMA RecordReplyTypes ==
  ASSUME AgentTypeOK, spent \in Spending, NEW a \in Ags, NEW stage \in EaStages
  PROVE /\ RecordReply(a, stage) =>
             /\ ea' \in [Ags -> EaRecord] /\ exNode' \subseteq Ags /\ cont' \subseteq ContCommand
        /\ RecordReplyFails(a) =>
             /\ ea' \in [Ags -> EaRecord] /\ exNode' \subseteq Ags /\ spent' \in Spending
<1>1. \A s \in EaStages : [ea EXCEPT ![a].stage = s] \in [Ags -> EaRecord]
  BY EaUpdates DEF AgentTypeOK
<1>2. "accepted" \in EaStages
  BY DEF EaStages
<1>3. CallFails => spent' \in Spending
  BY SpendTypes
<1>4. <<"configure", a>> \in ContCommand
  BY CommandTypes
<1> QED
  BY <1>1, <1>2, <1>3, <1>4 DEF RecordReply, RecordReplyFails, AgentTypeOK

LEMMA ShutdownType ==
  ASSUME AgentTypeOK, NEW a \in Ags, Shutdown(a) PROVE cont' \subseteq ContCommand
BY CommandTypes DEF Shutdown, AgentTypeOK

LEMMA WithoutType ==
  ASSUME AgentTypeOK, NEW a \in Ags, NEW kind PROVE Without(kind, a) \in SUBSET GovCommand
BY DEF Without, AgentTypeOK

-----------------------------------------------------------------------------
(***************************************************************************)
(* Type correctness, one step per action.                                  *)
(***************************************************************************)

LEMMA AgentUnchanged == ASSUME AgentTypeOK, UNCHANGED agentVars PROVE AgentTypeOK'
BY DEF AgentTypeOK, agentVars

LEMMA AgbotUnchanged == ASSUME AgbotTypeOK, UNCHANGED agbotVars PROVE AgbotTypeOK'
BY DEF AgbotTypeOK, agbotVars

\* The agbot's workers, searches, governance and API keep the types.
LEMMA AgbotActionTypes ==
  ASSUME TypeOK, NEW a \in Ags, AgbotWorker(a) \/ AgbotDecision(a)
  PROVE TypeOK'
<1>1. AgbotTypeOK /\ AgentTypeOK /\ net \subseteq Message /\ spent \in Spending
  BY DEF TypeOK
<1>2. /\ Msg("proposal", a, TRUE) \in Message /\ Msg("abVerify", a, TRUE) \in Message
      /\ CancelMessages(a) \subseteq Message
  BY MsgTypes, CancelMessagesType
<1>3. /\ CallFails => spent' \in Spending
      /\ Choice => spent' \in Spending
  BY <1>1, SpendTypes
<1>4. /\ [ab EXCEPT ![a].stage = "attempt"] \in [Ags -> AbRecord]
      /\ [ab EXCEPT ![a].stage = "proposed"] \in [Ags -> AbRecord]
      /\ [ab EXCEPT ![a].stage = "finalized"] \in [Ags -> AbRecord]
      /\ [ab EXCEPT ![a].stage = "deleted"] \in [Ags -> AbRecord]
      /\ [ab EXCEPT ![a].timedout = TRUE] \in [Ags -> AbRecord]
      /\ CancelAgreement(a) => ab' \in [Ags -> AbRecord]
  <2>1. ab \in [Ags -> AbRecord]
    BY <1>1 DEF AgbotTypeOK
  <2> QED
    BY <2>1, AbUpdates DEF AbStages
<1>5. AgentTypeOK'
  <2>1. UNCHANGED agentVars
    BY DEF AgbotWorker, AgbotDecision, InitiateNewAgreement, PersistAgreement, AgreementFinalized,
           HandleCancelItem, Search, SearchFindsAgreement, AbandonInitiate, TerminateAgreement,
           TerminateUnhealthy, ApiDeleteAgreement, HandlePolicyChanged, GovernArchivedAgreements
  <2> QED
    BY <1>1, <2>1, AgentUnchanged
<1>6. ASSUME AgbotWorker(a) PROVE AgbotTypeOK' /\ net' \subseteq Message /\ spent' \in Spending
  <2>1. CASE InitiateNewAgreement(a)
    BY <2>1, <1>1, <1>2, <1>3, <1>4 DEF InitiateNewAgreement, AgbotTypeOK
  <2>2. CASE PersistAgreement(a)
    BY <2>2, <1>1, <1>3, <1>4 DEF PersistAgreement, AgbotTypeOK
  <2>3. CASE AgreementFinalized(a)
    BY <2>3, <1>1, <1>4 DEF AgreementFinalized, AgbotTypeOK
  <2>4. CASE HandleCancelItem(a)
    BY <2>4, <1>1, <1>2, <1>4 DEF HandleCancelItem, AgbotTypeOK
  <2> QED
    BY <1>6, <2>1, <2>2, <2>3, <2>4 DEF AgbotWorker
<1>7. ASSUME AgbotDecision(a) PROVE AgbotTypeOK' /\ net' \subseteq Message /\ spent' \in Spending
  <2>1. CASE Search(a)
    BY <2>1, <1>1 DEF Search, AgbotTypeOK
  <2>2. CASE SearchFindsAgreement(a)
    BY <2>2, <1>1, <1>2, <1>3, AgbotUnchanged DEF SearchFindsAgreement
  <2>3. CASE AbandonInitiate(a)
    BY <2>3, <1>1 DEF AbandonInitiate, AgbotTypeOK
  <2>4. CASE TerminateAgreement(a)
    BY <2>4, <1>1, <1>4 DEF TerminateAgreement, AgbotTypeOK
  <2>5. CASE TerminateUnhealthy(a)
    BY <2>5, <1>1, <1>3, <1>4 DEF TerminateUnhealthy, AgbotTypeOK
  <2>6. CASE ApiDeleteAgreement(a)
    BY <2>6, <1>1, <1>3, <1>4 DEF ApiDeleteAgreement, AgbotTypeOK
  <2>7. CASE HandlePolicyChanged(a)
    BY <2>7, <1>1, <1>3 DEF HandlePolicyChanged, AgbotTypeOK
  <2>8. CASE GovernArchivedAgreements(a)
    BY <2>8, <1>1, <1>4 DEF GovernArchivedAgreements, AgbotTypeOK
  <2> QED
    BY <1>7, <2>1, <2>2, <2>3, <2>4, <2>5, <2>6, <2>7, <2>8 DEF AgbotDecision
<1> QED
  BY <1>5, <1>6, <1>7 DEF TypeOK

\* So do the agbot's message handlers.
LEMMA AgbotMessageTypes ==
  ASSUME TypeOK, NEW m \in net, AgbotMessage(m)
  PROVE TypeOK'
<1> DEFINE a == m.ag
<1>1. AgbotTypeOK /\ AgentTypeOK /\ net \subseteq Message /\ spent \in Spending
  BY DEF TypeOK
<1>2. a \in Ags /\ m \in Message
  BY <1>1, MsgFields
<1> HIDE DEF a
<1>3. /\ \A ok \in BOOLEAN : Msg("replyAck", a, ok) \in Message
      /\ \A ok \in BOOLEAN : Msg("abVerifyReply", a, ok) \in Message
      /\ CancelMessages(a) \subseteq Message
  BY <1>2, MsgTypes, CancelMessagesType
<1>4. CallFails => spent' \in Spending
  BY <1>1, SpendTypes
<1>5. /\ \A s \in {"proposed", "replied"} : [ab EXCEPT ![a].stage = s] \in [Ags -> AbRecord]
      /\ CancelAgreement(a) => ab' \in [Ags -> AbRecord]
  <2>1. ab \in [Ags -> AbRecord]
    BY <1>1 DEF AgbotTypeOK
  <2> QED
    BY <2>1, <1>2, AbUpdates DEF AbStages
<1>6. AgentTypeOK'
  <2>1. UNCHANGED agentVars
    BY DEF AgbotMessage, HandleAcceptance, HandleRejection, HandleNodeCancel, HandleNodeVerify,
           HandleNodeVerifyReply
  <2> QED
    BY <1>1, <2>1, AgentUnchanged
<1>7. CASE HandleAcceptance(m)
  BY <1>7, <1>1, <1>2, <1>3, <1>4, <1>5, <1>6 DEF HandleAcceptance, Consume, AgbotTypeOK, TypeOK, a
<1>8. CASE HandleRejection(m)
  BY <1>8, <1>1, <1>2, <1>3, <1>5, <1>6 DEF HandleRejection, Consume, AgbotTypeOK, TypeOK, a
<1>9. CASE HandleNodeCancel(m)
  BY <1>9, <1>1, <1>2, <1>3, <1>5, <1>6 DEF HandleNodeCancel, Consume, AgbotTypeOK, TypeOK, a
<1>10. CASE HandleNodeVerify(m)
  <2>1. Reported(a) \in BOOLEAN
    BY DEF Reported, AbActive
  <2> QED
    BY <2>1, <1>10, <1>1, <1>2, <1>3, <1>6, AgbotUnchanged DEF HandleNodeVerify, Consume, TypeOK, a
<1>11. CASE HandleNodeVerifyReply(m)
  BY <1>11, <1>1, <1>2, <1>3, <1>5, <1>6 DEF HandleNodeVerifyReply, Consume, AgbotTypeOK, TypeOK, a
<1> QED
  BY <1>7, <1>8, <1>9, <1>10, <1>11 DEF AgbotMessage

\* The agent's commands and its periodic governance keep the types.
LEMMA AgentActionTypes ==
  ASSUME TypeOK, NEW a \in Ags, AgentWorker(a) \/ AgentDecision(a)
  PROVE TypeOK'
<1>1. AgbotTypeOK /\ AgentTypeOK /\ net \subseteq Message /\ spent \in Spending
  BY DEF TypeOK
<1>2. Msg("eaCancel", a, TRUE) \in Message /\ Msg("eaVerify", a, TRUE) \in Message
  BY MsgTypes
<1>3. /\ CallFails => spent' \in Spending
      /\ Choice => spent' \in Spending
  BY <1>1, SpendTypes
<1>4. /\ <<"execBegun", a>> \in GovCommand /\ <<"cleanup", a>> \in GovCommand
      /\ <<"protoTerminated", a>> \in GovCommand /\ <<"wlDestroyed", a>> \in GovCommand
      /\ <<"verify", a>> \in GovCommand
      /\ \A kind : Without(kind, a) \subseteq GovCommand
  BY <1>1, CommandTypes, WithoutType
<1>5. Shutdown(a) => cont' \subseteq ContCommand
  BY <1>1, ShutdownType
<1>6. ea \in [Ags -> EaRecord] /\ gcmds \subseteq GovCommand
  BY <1>1 DEF AgentTypeOK
<1>7. AgbotTypeOK'
  <2>1. UNCHANGED agbotVars
    BY DEF AgentWorker, AgentDecision, ExternalTermination, CleanupStatus, CleanupExecution,
           StartGovernExecution, DeferredCancel, VerifyAgreement, WorkloadConfigure, WorkloadShutdown,
           FinalizeAgreement, FinalizeTimeout, GovernAgreements, GovernOutOfPolicy,
           GovernVerification, CleanupRequested
  <2> QED
    BY <1>1, <2>1, AgbotUnchanged
<1>8. \A ne \in BOOLEAN, rest \in SUBSET GovCommand :
        /\ cancelNow(a, ne, rest) =>
             /\ ea' \in [Ags -> EaRecord] /\ exNode' \subseteq Ags
             /\ terminating' \subseteq Ags /\ gcmds' \subseteq GovCommand
        /\ cancelAgreement(a, ne, rest) =>
             /\ ea' \in [Ags -> EaRecord] /\ exNode' \subseteq Ags
             /\ terminating' \subseteq Ags /\ gcmds' \subseteq GovCommand
             /\ spent' \in Spending
  BY <1>1, CancelTypes
<1>9. ASSUME AgentWorker(a) PROVE AgentTypeOK' /\ net' \subseteq Message /\ spent' \in Spending
  <2>1. CASE ExternalTermination(a)
    BY <2>1, <1>1, <1>2, <1>4 DEF ExternalTermination, AgentTypeOK
  <2>2. ASSUME NEW kind \in {"protoTerminated", "wlDestroyed"}, CleanupStatus(kind, a)
        PROVE AgentTypeOK' /\ net' \subseteq Message /\ spent' \in Spending
    <3>1. ea' \in [Ags -> EaRecord]
      <4>1. ea[a] \in EaRecord
        BY <1>6
      <4>2. [ea EXCEPT ![a] = NoEaRecord] \in [Ags -> EaRecord]
        BY <1>6, EaUpdates
      <4>3. [ea EXCEPT ![a].wlTerm = TRUE, ![a].archived = ea[a].protoTerm] \in [Ags -> EaRecord]
        BY <1>6, <4>1 DEF EaRecord
      <4>4. [ea EXCEPT ![a].protoTerm = TRUE,
                       ![a].archived = ea[a].notExecuted \/ ea[a].wlTerm] \in [Ags -> EaRecord]
        BY <1>6, <4>1 DEF EaRecord
      <4> QED
        BY <2>2, <1>6, <4>2, <4>3, <4>4 DEF CleanupStatus
    <3> QED
      BY <3>1, <2>2, <1>1, <1>4 DEF CleanupStatus, AgentTypeOK
  <2>3. CASE CleanupExecution(a)
    BY <2>3, <1>1, <1>4, <1>5, <1>8 DEF CleanupExecution, AgentTypeOK
  <2>4. CASE StartGovernExecution(a)
    <3>1. [ea EXCEPT ![a].started = TRUE] \in [Ags -> EaRecord]
      BY <1>6, EaUpdates
    <3> QED
      BY <3>1, <2>4, <1>1, <1>4 DEF StartGovernExecution, AgentTypeOK
  <2>5. CASE DeferredCancel(a)
    BY <2>5, <1>1, <1>4, <1>8 DEF DeferredCancel, AgentTypeOK
  <2>6. CASE VerifyAgreement(a)
    <3>1. [ea EXCEPT ![a] = CountVerification(@)] \in [Ags -> EaRecord]
      BY <1>6, CountVerificationType
    <3> QED
      BY <3>1, <2>6, <1>1, <1>2, <1>3, <1>4, <1>6, <1>8 DEF VerifyAgreement, AgentTypeOK
  <2>7. CASE WorkloadConfigure(a)
    BY <2>7, <1>1, <1>4 DEF WorkloadConfigure, AgentTypeOK
  <2>8. CASE WorkloadShutdown(a)
    BY <2>8, <1>1, <1>4 DEF WorkloadShutdown, AgentTypeOK
  <2> QED
    BY <1>9, <2>1, <2>2, <2>3, <2>4, <2>5, <2>6, <2>7, <2>8 DEF AgentWorker
<1>10. ASSUME AgentDecision(a) PROVE AgentTypeOK' /\ net' \subseteq Message /\ spent' \in Spending
  <2>1. CASE FinalizeAgreement(a)
    <3>1. "finalized" \in EaStages
      BY DEF EaStages
    <3>2. [ea EXCEPT ![a].stage = "finalized"] \in [Ags -> EaRecord]
      BY <1>6, <3>1, EaUpdates
    <3>3. /\ RecordReply(a, "finalized") =>
               /\ ea' \in [Ags -> EaRecord] /\ exNode' \subseteq Ags /\ cont' \subseteq ContCommand
          /\ RecordReplyFails(a) =>
               /\ ea' \in [Ags -> EaRecord] /\ exNode' \subseteq Ags /\ spent' \in Spending
      BY <1>1, <3>1, RecordReplyTypes
    <3> QED
      BY <2>1, <3>2, <3>3, <1>1, <1>2 DEF FinalizeAgreement, AgentTypeOK
  <2>2. CASE FinalizeTimeout(a)
    BY <2>2, <1>1, <1>3, <1>5, <1>6, <1>8 DEF FinalizeTimeout, AgentTypeOK
  <2>3. CASE GovernAgreements(a)
    <3>1. (~ea[a].started) \in BOOLEAN
      OBVIOUS
    <3> QED
      BY <2>3, <3>1, <1>1, <1>5, <1>6, <1>8 DEF GovernAgreements, AgentTypeOK
  <2>4. CASE GovernOutOfPolicy(a)
    BY <2>4, <1>1, <1>3, <1>5, <1>6, <1>8 DEF GovernOutOfPolicy, AgentTypeOK
  <2>5. CASE GovernVerification(a)
    BY <2>5, <1>1, <1>4 DEF GovernVerification, AgentTypeOK
  <2>6. CASE CleanupRequested(a)
    BY <2>6, <1>1, <1>3, <1>4 DEF CleanupRequested, AgentTypeOK
  <2> QED
    BY <1>10, <2>1, <2>2, <2>3, <2>4, <2>5, <2>6 DEF AgentDecision
<1> QED
  BY <1>7, <1>9, <1>10 DEF TypeOK

\* So do the agent's message handlers.
LEMMA AgentMessageTypes ==
  ASSUME TypeOK, NEW m \in net, AgentMessage(m)
  PROVE TypeOK'
<1> DEFINE a == m.ag
<1>1. AgbotTypeOK /\ AgentTypeOK /\ net \subseteq Message /\ spent \in Spending
  BY DEF TypeOK
<1>2. a \in Ags /\ m \in Message
  BY <1>1, MsgFields
<1> HIDE DEF a
<1>3. /\ \A ok \in BOOLEAN : Msg("reply", a, ok) \in Message
      /\ \A ok \in BOOLEAN : Msg("eaVerifyReply", a, ok) \in Message
  BY <1>2, MsgTypes
<1>4. Shutdown(a) => cont' \subseteq ContCommand
  BY <1>1, <1>2, ShutdownType
<1>5. ea \in [Ags -> EaRecord] /\ gcmds \subseteq GovCommand
  BY <1>1 DEF AgentTypeOK
<1>6. AgbotTypeOK'
  <2>1. UNCHANGED agbotVars
    BY DEF AgentMessage, IgnoreProposal, RejectProposal, AcceptProposal, HandleReplyAck,
           HandleNegativeAck, HandleAgbotCancel, HandleAgbotVerify
  <2> QED
    BY <1>1, <2>1, AgbotUnchanged
<1>7. CASE IgnoreProposal(m)
  BY <1>7, <1>1, <1>6, AgentUnchanged DEF IgnoreProposal, Consume, TypeOK
<1>8. CASE RejectProposal(m)
  BY <1>8, <1>1, <1>3, <1>6, AgentUnchanged DEF RejectProposal, Consume, TypeOK, a
<1>9. CASE AcceptProposal(m)
  BY <1>9, <1>1, <1>2, <1>3, <1>6 DEF AcceptProposal, AgentTypeOK, TypeOK, a
<1>10. CASE HandleReplyAck(m)
  <2>1. "accepted" \in EaStages
    BY DEF EaStages
  <2>2. /\ RecordReply(a, "accepted") =>
             /\ ea' \in [Ags -> EaRecord] /\ exNode' \subseteq Ags /\ cont' \subseteq ContCommand
        /\ RecordReplyFails(a) =>
             /\ ea' \in [Ags -> EaRecord] /\ exNode' \subseteq Ags /\ spent' \in Spending
    BY <1>1, <1>2, <2>1, RecordReplyTypes
  <2> QED
    BY <1>10, <2>2, <1>1, <1>6 DEF HandleReplyAck, Consume, AgentTypeOK, TypeOK, a
<1>11. CASE HandleNegativeAck(m)
  BY <1>11, <1>1, <1>2, <1>4, <1>6 DEF HandleNegativeAck, NegativeAck, Consume, AgentTypeOK, TypeOK, a
<1>12. CASE HandleAgbotCancel(m)
  <2>1. cancelAgreement(a, FALSE, gcmds) =>
          /\ ea' \in [Ags -> EaRecord] /\ exNode' \subseteq Ags
          /\ terminating' \subseteq Ags /\ gcmds' \subseteq GovCommand
          /\ spent' \in Spending
    BY <1>1, <1>2, <1>5, CancelTypes
  <2> QED
    BY <1>12, <2>1, <1>1, <1>4, <1>6 DEF HandleAgbotCancel, Consume, AgentTypeOK, TypeOK, a
<1>13. CASE HandleAgbotVerify(m)
  <2>1. Unarchived(a) \in BOOLEAN
    BY DEF Unarchived
  <2>2. [ea EXCEPT ![a].ver = 0] \in [Ags -> EaRecord]
    BY <1>2, <1>5, EaUpdates
  <2> QED
    BY <1>13, <2>1, <2>2, <1>1, <1>3, <1>6 DEF HandleAgbotVerify, Consume, AgentTypeOK, TypeOK, a
<1> QED
  BY <1>7, <1>8, <1>9, <1>10, <1>11, <1>12, <1>13 DEF AgentMessage

\* So do the two steps that finish what a worker has taken, the environment and
\* the two restarts.
LEMMA OtherTypes ==
  ASSUME TypeOK, PersistProposal \/ DeclineAgreement \/ Environment
  PROVE TypeOK'
<1>1. AgbotTypeOK /\ AgentTypeOK /\ net \subseteq Message /\ spent \in Spending
  BY DEF TypeOK
<1>2. /\ CallFails => spent' \in Spending
      /\ Choice => spent' \in Spending
      /\ spent.dup < MaxDup /\ Spend("dup") => spent' \in Spending
      /\ spent.agbot < MaxAgbotCrash /\ Spend("agbot") => spent' \in Spending
      /\ spent.agent < MaxAgentCrash /\ Spend("agent") => spent' \in Spending
  BY <1>1, SpendTypes
<1>3. ea \in [Ags -> EaRecord] /\ gcmds \subseteq GovCommand
  BY <1>1 DEF AgentTypeOK
<1>4. CASE PersistProposal
  <2>1. deciding.ag \in Ags
    BY <1>4, <1>1, MsgFields DEF PersistProposal, AgentTypeOK
  <2>2. [ea EXCEPT ![deciding.ag] = [NoEaRecord EXCEPT !.stage = "pending"]] \in [Ags -> EaRecord]
    BY <2>1, <1>3, EaUpdates
  <2> QED
    BY <1>4, <2>2, <1>1, <1>2, AgbotUnchanged DEF PersistProposal, Consume, AgentTypeOK, TypeOK
<1>5. CASE DeclineAgreement
  <2>1. declining.ag \in Ags
    BY <1>5, <1>1, MsgFields DEF DeclineAgreement, GovIdle, AgentTypeOK
  <2>2. cancelAgreement(declining.ag, FALSE, gcmds) =>
          /\ ea' \in [Ags -> EaRecord] /\ exNode' \subseteq Ags
          /\ terminating' \subseteq Ags /\ gcmds' \subseteq GovCommand
          /\ spent' \in Spending
    BY <1>1, <1>3, <2>1, CancelTypes
  <2> QED
    BY <1>5, <2>2, <1>1, AgbotUnchanged DEF DeclineAgreement, Consume, AgentTypeOK, TypeOK
<1>6. ASSUME NEW m \in net, LoseMessage(m) \/ DuplicateMessage(m) PROVE TypeOK'
  <2>1. [m EXCEPT !.copy = 1] \in Message
    BY <1>1 DEF Message
  <2> QED
    BY <1>6, <2>1, <1>1, <1>2, AgbotUnchanged, AgentUnchanged DEF LoseMessage, DuplicateMessage, TypeOK
<1>7. ASSUME NEW a \in Ags, HeartbeatRestored(a) PROVE TypeOK'
  <2>1. <<"verify", a>> \in GovCommand
    BY CommandTypes
  <2> QED
    BY <1>7, <2>1, <1>1, <1>2, AgbotUnchanged DEF HeartbeatRestored, AgentTypeOK, TypeOK
<1>8. CASE AgbotRestart
  <2>1. PICK gone \in SUBSET Ags :
          /\ ab' = [a \in Ags |->
                      IF Known(a) /\ ~ab[a].archived /\ ab[a].stage = "attempt"
                        THEN [ab[a] EXCEPT !.stage = "deleted"]
                        ELSE [ab[a] EXCEPT !.timedout = @ \/ a \in gone]]
          /\ cancelQ' = gone
    BY <1>8 DEF AgbotRestart
  <2>2. ASSUME NEW r \in AbRecord, NEW b \in BOOLEAN
        PROVE [r EXCEPT !.stage = "deleted"] \in AbRecord /\ [r EXCEPT !.timedout = @ \/ b] \in AbRecord
    BY DEF AbRecord, AbStages
  <2>3. ab' \in [Ags -> AbRecord]
    BY <2>1, <2>2, <1>1 DEF AgbotTypeOK
  <2> QED
    BY <1>8, <2>1, <2>3, <1>1, <1>2, AgentUnchanged DEF AgbotRestart, AgbotTypeOK, TypeOK
<1>9. CASE AgentRestart
  <2> DEFINE verified == {a \in Ags : Active(a) /\ Accepted(a)}
             unfinished == {a \in Ags : Unarchived(a) /\ ea[a].terminated}
  <2>1. /\ deciding' = NoMsg /\ declining' = NoMsg /\ terminating' = {} /\ cont' = {}
        /\ gcmds' = {<<"cleanup", a>> : a \in unfinished}
        /\ net' = net \cup {Msg("eaVerify", a, TRUE) : a \in verified}
        /\ ea' = [a \in Ags |->
                    IF a \in unfinished THEN [ea[a] EXCEPT !.forced = TRUE]
                    ELSE IF a \in verified \cap exNode THEN CountVerification(ea[a])
                    ELSE ea[a]]
        /\ exNode' = SyncedExchange(verified)
        /\ running' = {a \in running : Unarchived(a)}
        /\ UNCHANGED agbotVars /\ spent' \in Spending
    BY <1>9, <1>2 DEF AgentRestart
  <2> HIDE DEF verified, unfinished
  <2>2. verified \subseteq Ags /\ unfinished \subseteq Ags
    BY DEF verified, unfinished
  <2>3. gcmds' \subseteq GovCommand
    BY <2>1, <2>2, CommandTypes
  <2>4. net' \subseteq Message
    BY <2>1, <2>2, <1>1, MsgTypes
  <2>5. ASSUME NEW r \in EaRecord PROVE [r EXCEPT !.forced = TRUE] \in EaRecord
    BY DEF EaRecord
  <2>6. ea' \in [Ags -> EaRecord]
    BY <2>1, <2>5, <1>3, CountVerificationType
  <2>7. exNode' \subseteq Ags /\ running' \subseteq Ags
    BY <2>1, <2>2, <1>1 DEF SyncedExchange, AgentTypeOK
  <2> QED
    BY <2>1, <2>3, <2>4, <2>6, <2>7, <1>1, AgbotUnchanged DEF AgentTypeOK, TypeOK
<1> QED
  BY <1>4, <1>5, <1>6, <1>7, <1>8, <1>9 DEF Environment

\* Type correctness: whatever the number of ids and faults, records, messages and
\* commands stay well formed and a worker only ever holds a message of its kind.
THEOREM TypeCorrect == Spec => []TypeOK
<1>1. Init => TypeOK
  <2> SUFFICES ASSUME Init PROVE TypeOK
    OBVIOUS
  <2>1. NoAbRecord \in AbRecord
    BY DEF NoAbRecord, AbRecord, AbStages
  <2>2. 0 \in 0..(VerLimit + 1)
    BY BoundsAssumption
  <2>3. NoEaRecord \in EaRecord
    BY <2>2 DEF NoEaRecord, EaRecord, EaStages
  <2>4. NothingSpent \in Spending
    BY BoundsAssumption DEF NothingSpent, Spending
  <2> QED
    BY <2>1, <2>3, <2>4 DEF Init, TypeOK, AgbotTypeOK, AgentTypeOK
<1>2. TypeOK /\ [Next]_vars => TypeOK'
  <2> SUFFICES ASSUME TypeOK, [Next]_vars PROVE TypeOK'
    OBVIOUS
  <2>1. CASE Agbot
    BY <2>1, AgbotActionTypes, AgbotMessageTypes DEF Agbot
  <2>2. CASE Agent
    BY <2>2, AgentActionTypes, AgentMessageTypes, OtherTypes DEF Agent
  <2>3. CASE Environment
    BY <2>3, OtherTypes
  <2>4. CASE UNCHANGED vars
    BY <2>4, AgbotUnchanged, AgentUnchanged DEF vars, TypeOK
  <2> QED
    BY <2>1, <2>2, <2>3, <2>4 DEF Next
<1> QED
  BY <1>1, <1>2, PTL DEF Spec

-----------------------------------------------------------------------------
(***************************************************************************)
(* At most one live agreement.  The invariant alone is not inductive: the  *)
(* agreement worker looks at the database, sends its answer, and stores    *)
(* the record in a later step.  It is the only thread that makes an        *)
(* agreement live, so while it is between the two nothing is live.         *)
(***************************************************************************)

\* While an accepted proposal waits to be stored, no agreement is live.
DecidingAlone == deciding # NoMsg => Live = {}

SlotInv == TypeOK /\ AtMostOneActive /\ DecidingAlone

\* A step that touches one record and does not make it live ends at most that
\* agreement.
LEMMA OneRecord ==
  ASSUME NEW a \in Ags, \A b \in Ags : b # a => ea'[b] = ea[b], Active(a)' => Active(a)
  PROVE Live' = Live \/ Live' = Live \ {a}
<1>1. \A b \in Ags : b # a => (Active(b)' <=> Active(b))
  BY DEF Active, Unarchived
<1>2. CASE Active(a)' <=> Active(a)
  BY <1>1, <1>2 DEF Live
<1>3. CASE Active(a) /\ ~Active(a)'
  BY <1>1, <1>3 DEF Live
<1> QED
  BY <1>2, <1>3

LEMMA SameRecords == ASSUME ea' = ea PROVE Live' = Live
BY DEF Live, Active, Unarchived

\* cancelAgreement makes nothing live, even when it runs again for a record that
\* was archived meanwhile.
LEMMA CancelLive ==
  ASSUME ea \in [Ags -> EaRecord], NEW a \in Ags, NEW ne \in BOOLEAN, NEW rest,
         cancelNow(a, ne, rest) \/ cancelAgreement(a, ne, rest)
  PROVE Live' = Live \/ Live' = Live \ {a}
<1>1. ea' = Terminated(a, ne)
  BY DEF cancelNow, cancelAgreement
<1>2. \A b \in Ags : b # a => ea'[b] = ea[b]
  BY <1>1 DEF Terminated
<1>3. ea'[a].terminated \/ ea'[a].archived
  BY <1>1 DEF Terminated, EaRecord
<1> QED
  BY <1>2, <1>3, OneRecord DEF Active, Unarchived

\* A command or a governance pass of the agent ends at most one agreement.
LEMMA AgentActionLive ==
  ASSUME TypeOK, NEW a \in Ags, AgentWorker(a) \/ AgentDecision(a)
  PROVE Live' = Live \/ Live' = Live \ {a}
<1>1. ea \in [Ags -> EaRecord]
  BY DEF TypeOK, AgentTypeOK
<1>2. ea[a] \in EaRecord
  BY <1>1
<1>3. ASSUME NEW ne \in BOOLEAN, NEW rest, cancelNow(a, ne, rest) \/ cancelAgreement(a, ne, rest)
      PROVE Live' = Live \/ Live' = Live \ {a}
  BY <1>1, <1>3, CancelLive
<1>4. CASE UNCHANGED ea
  BY <1>4, SameRecords
<1>5. ASSUME NEW kind \in {"protoTerminated", "wlDestroyed"}, CleanupStatus(kind, a)
      PROVE Live' = Live \/ Live' = Live \ {a}
  <2>1. \A b \in Ags : b # a => ea'[b] = ea[b]
    BY <1>1, <1>5 DEF CleanupStatus
  <2>2. Active(a)' => Active(a)
    BY <1>1, <1>2, <1>5 DEF CleanupStatus, Active, Unarchived, NoEaRecord, EaRecord
  <2> QED
    BY <2>1, <2>2, OneRecord
<1>6. CASE CleanupExecution(a)
  BY <1>3, <1>4, <1>6 DEF CleanupExecution
<1>7. CASE StartGovernExecution(a)
  <2>1. \A b \in Ags : b # a => ea'[b] = ea[b]
    BY <1>1, <1>7 DEF StartGovernExecution
  <2>2. Active(a)' => Active(a)
    BY <1>1, <1>2, <1>7 DEF StartGovernExecution, Active, Unarchived, EaRecord
  <2> QED
    BY <2>1, <2>2, OneRecord
<1>8. CASE DeferredCancel(a)
  BY <1>3, <1>4, <1>8 DEF DeferredCancel
<1>9. CASE VerifyAgreement(a)
  <2>1. CASE ea' = [ea EXCEPT ![a] = CountVerification(@)]
    <3>1. \A b \in Ags : b # a => ea'[b] = ea[b]
      BY <1>1, <2>1
    <3>2. Active(a)' => Active(a)
      BY <1>1, <1>2, <2>1 DEF CountVerification, Active, Unarchived, EaRecord
    <3> QED
      BY <3>1, <3>2, OneRecord
  <2> QED
    BY <1>3, <1>4, <1>9, <2>1 DEF VerifyAgreement
<1>10. CASE FinalizeAgreement(a)
  <2>1. \A b \in Ags : b # a => ea'[b] = ea[b]
    BY <1>1, <1>10 DEF FinalizeAgreement, RecordReply, RecordReplyFails
  <2>2. Active(a)
    BY <1>10 DEF FinalizeAgreement
  <2> QED
    BY <2>1, <2>2, OneRecord
<1>11. CASE FinalizeTimeout(a) \/ GovernAgreements(a) \/ GovernOutOfPolicy(a)
  BY <1>3, <1>11 DEF FinalizeTimeout, GovernAgreements, GovernOutOfPolicy
<1>12. CASE \/ ExternalTermination(a) \/ WorkloadConfigure(a) \/ WorkloadShutdown(a)
            \/ GovernVerification(a) \/ CleanupRequested(a)
  BY <1>4, <1>12 DEF ExternalTermination, WorkloadConfigure, WorkloadShutdown, GovernVerification,
                     CleanupRequested
<1> QED
  BY <1>5, <1>6, <1>7, <1>8, <1>9, <1>10, <1>11, <1>12 DEF AgentWorker, AgentDecision

\* A message ends at most the agreement it is about.
LEMMA AgentMessageLive ==
  ASSUME TypeOK, NEW m \in net, AgentMessage(m)
  PROVE Live' = Live \/ Live' = Live \ {m.ag}
<1>1. ea \in [Ags -> EaRecord] /\ m.ag \in Ags
  BY MsgFields DEF TypeOK, AgentTypeOK
<1>2. ea[m.ag] \in EaRecord
  BY <1>1
<1>3. CASE UNCHANGED ea
  BY <1>3, SameRecords
<1>4. CASE HandleReplyAck(m)
  <2>1. CASE RecordReply(m.ag, "accepted") \/ RecordReplyFails(m.ag)
    <3>1. \A b \in Ags : b # m.ag => ea'[b] = ea[b]
      BY <1>1, <2>1 DEF RecordReply, RecordReplyFails
    <3>2. Active(m.ag)' => Active(m.ag)
      BY <1>1, <1>2, <1>4, <2>1 DEF HandleReplyAck, AckApplies, RecordReply, RecordReplyFails,
                                    Active, Unarchived, Accepted, EaRecord
    <3> QED
      BY <1>1, <3>1, <3>2, OneRecord
  <2> QED
    BY <1>3, <1>4, <2>1 DEF HandleReplyAck
<1>5. CASE HandleAgbotCancel(m)
  <2>1. CASE cancelAgreement(m.ag, FALSE, gcmds)
    BY <1>1, <2>1, CancelLive
  <2> QED
    BY <1>3, <1>5, <2>1 DEF HandleAgbotCancel
<1>6. CASE HandleAgbotVerify(m)
  <2>1. \A b \in Ags : b # m.ag => ea'[b] = ea[b]
    BY <1>1, <1>6 DEF HandleAgbotVerify
  <2>2. Active(m.ag)' => Active(m.ag)
    BY <1>1, <1>2, <1>6 DEF HandleAgbotVerify, Active, Unarchived, EaRecord
  <2> QED
    BY <1>1, <2>1, <2>2, OneRecord
<1>7. CASE IgnoreProposal(m) \/ RejectProposal(m) \/ AcceptProposal(m) \/ HandleNegativeAck(m)
  BY <1>3, <1>7 DEF IgnoreProposal, RejectProposal, AcceptProposal, HandleNegativeAck, agentVars
<1> QED
  BY <1>4, <1>5, <1>6, <1>7 DEF AgentMessage

\* A restart neither starts nor ends an agreement.
LEMMA RestartLive == ASSUME TypeOK, AgentRestart PROVE Live' = Live
<1>1. ea \in [Ags -> EaRecord]
  BY DEF TypeOK, AgentTypeOK
<1>2. ASSUME NEW b \in Ags
      PROVE /\ ea'[b].stage = ea[b].stage /\ ea'[b].archived = ea[b].archived
            /\ ea'[b].terminated = ea[b].terminated
  <2>1. ea'[b] \in {[ea[b] EXCEPT !.forced = TRUE], CountVerification(ea[b]), ea[b]}
    BY <1>1 DEF AgentRestart
  <2>2. ea[b] \in EaRecord
    BY <1>1
  <2> QED
    BY <2>1, <2>2 DEF CountVerification, EaRecord
<1> QED
  BY <1>2 DEF Live, Active, Unarchived

\* What any step does to the live agreements: PersistProposal adds the one being
\* decided on, every other step ends at most one.
LEMMA LiveSteps ==
  ASSUME TypeOK, [Next]_vars
  PROVE \/ Live' = Live
        \/ \E a \in Ags : Live' = Live \ {a}
        \/ PersistProposal /\ Live' = Live \cup {deciding.ag}
<1>1. ea \in [Ags -> EaRecord]
  BY DEF TypeOK, AgentTypeOK
<1>2. CASE UNCHANGED ea
  BY <1>2, SameRecords
<1>3. CASE Agbot \/ UNCHANGED vars
  <2>1. UNCHANGED ea
    BY <1>3 DEF Agbot, AgbotWorker, AgbotDecision, AgbotMessage, InitiateNewAgreement, PersistAgreement,
      AgreementFinalized, HandleCancelItem, Search, SearchFindsAgreement, AbandonInitiate,
      TerminateAgreement, TerminateUnhealthy, ApiDeleteAgreement, HandlePolicyChanged,
      GovernArchivedAgreements, HandleAcceptance, HandleRejection, HandleNodeCancel,
      HandleNodeVerify, HandleNodeVerifyReply, agentVars, vars
  <2> QED
    BY <1>2, <2>1
<1>4. CASE PersistProposal
  <2>1. CASE ea' = [ea EXCEPT ![deciding.ag] = [NoEaRecord EXCEPT !.stage = "pending"]]
    <3>1. PICK d \in Ags : d = deciding.ag
      BY <1>4, MsgFields DEF PersistProposal, TypeOK, AgentTypeOK
    <3>2. \A b \in Ags : b # d => ea'[b] = ea[b]
      BY <1>1, <2>1, <3>1
    <3>3. ea'[d] = [NoEaRecord EXCEPT !.stage = "pending"]
      BY <1>1, <2>1, <3>1
    <3>4. Active(d)' /\ \A b \in Ags : b # d => (Active(b)' <=> Active(b))
      BY <3>2, <3>3 DEF Active, Unarchived, NoEaRecord
    <3> QED
      BY <1>4, <3>1, <3>4 DEF Live
  <2> QED
    BY <1>2, <1>4, <2>1 DEF PersistProposal
<1>5. CASE DeclineAgreement
  <2>1. declining.ag \in Ags
    BY <1>5, MsgFields DEF DeclineAgreement, GovIdle, TypeOK, AgentTypeOK
  <2> QED
    BY <1>1, <1>5, <2>1, CancelLive DEF DeclineAgreement
<1>6. CASE \E a \in Ags : AgentWorker(a) \/ AgentDecision(a)
  BY <1>6, AgentActionLive
<1>7. CASE \E m \in net : AgentMessage(m)
  <2>1. \A m \in net : m.ag \in Ags
    BY MsgFields DEF TypeOK
  <2> QED
    BY <1>7, <2>1, AgentMessageLive
<1>8. CASE Environment
  <2>1. CASE AgentRestart
    BY <2>1, RestartLive
  <2>2. CASE ~AgentRestart
    BY <1>2, <1>8, <2>2 DEF Environment, LoseMessage, DuplicateMessage, HeartbeatRestored,
                            AgbotRestart, agentVars
  <2> QED
    BY <2>1, <2>2
<1> QED
  BY <1>3, <1>4, <1>5, <1>6, <1>7, <1>8 DEF Next, Agent

\* The agreement worker starts to decide only when nothing is live.
LEMMA DecidingSteps ==
  ASSUME [Next]_vars
  PROVE deciding' = deciding \/ deciding' = NoMsg \/ (Live = {} /\ UNCHANGED ea)
<1>1. CASE Agbot \/ UNCHANGED vars
  BY <1>1 DEF Agbot, AgbotWorker, AgbotDecision, AgbotMessage, InitiateNewAgreement, PersistAgreement,
    AgreementFinalized, HandleCancelItem, Search, SearchFindsAgreement, AbandonInitiate,
    TerminateAgreement, TerminateUnhealthy, ApiDeleteAgreement, HandlePolicyChanged,
    GovernArchivedAgreements, HandleAcceptance, HandleRejection, HandleNodeCancel,
    HandleNodeVerify, HandleNodeVerifyReply, agentVars, vars
<1>2. CASE PersistProposal \/ DeclineAgreement
  BY <1>2 DEF PersistProposal, DeclineAgreement
<1>3. ASSUME NEW a \in Ags, AgentWorker(a) \/ AgentDecision(a) PROVE deciding' = deciding
  BY <1>3 DEF AgentWorker, AgentDecision, ExternalTermination, CleanupStatus, CleanupExecution,
    StartGovernExecution, DeferredCancel, VerifyAgreement, WorkloadConfigure, WorkloadShutdown,
    FinalizeAgreement, FinalizeTimeout, GovernAgreements, GovernOutOfPolicy, GovernVerification,
    CleanupRequested
<1>4. ASSUME NEW m \in net, AcceptProposal(m) PROVE Live = {} /\ UNCHANGED ea
  BY <1>4 DEF AcceptProposal, MayAnswer, Live
<1>5. ASSUME NEW m \in net, AgentMessage(m), ~AcceptProposal(m) PROVE deciding' = deciding
  BY <1>5 DEF AgentMessage, IgnoreProposal, RejectProposal, HandleReplyAck, HandleNegativeAck,
    HandleAgbotCancel, HandleAgbotVerify, agentVars
<1>6. CASE Environment
  BY <1>6 DEF Environment, LoseMessage, DuplicateMessage, HeartbeatRestored, AgbotRestart,
    AgentRestart, agentVars
<1> QED
  BY <1>1, <1>2, <1>3, <1>4, <1>5, <1>6 DEF Next, Agent

\* The inductive step for the slot.
LEMMA SlotStep ==
  ASSUME SlotInv, [Next]_vars, TypeOK'
  PROVE SlotInv' /\ (Live' = Live \/ Slot!Next)
<1>1. TypeOK /\ DecidingAlone /\ (Live = {} \/ \E a \in Ags : Live = {a})
  BY DEF SlotInv, AtMostOneActive, Live
<1>2. CASE Live' = Live \/ \E a \in Ags : Live' = Live \ {a}
  <2>1. Live' \subseteq Live /\ (Live' = Live \/ Slot!Next)
    BY <1>1, <1>2 DEF Slot!Next, Slot!Release
  <2>2. AtMostOneActive'
    BY <2>1 DEF SlotInv, AtMostOneActive, Live
  <2>3. DecidingAlone'
    BY <1>1, <2>1, DecidingSteps DEF DecidingAlone
  <2> QED
    BY <2>1, <2>2, <2>3 DEF SlotInv
<1>3. CASE PersistProposal /\ Live' = Live \cup {deciding.ag}
  <2>1. Live = {} /\ deciding' = NoMsg /\ deciding.ag \in Ags
    BY <1>1, <1>3, MsgFields DEF PersistProposal, DecidingAlone, TypeOK, AgentTypeOK
  <2>2. Live' = {deciding.ag}
    BY <1>3, <2>1
  <2>3. AtMostOneActive'
    BY <2>2 DEF AtMostOneActive, Live
  <2>4. Slot!Next
    BY <2>1, <2>2 DEF Slot!Next, Slot!Take
  <2> QED
    BY <2>1, <2>3, <2>4 DEF SlotInv, DecidingAlone
<1> QED
  BY <1>1, <1>2, <1>3, LiveSteps

\* The strengthening that makes the slot inductive.
THEOREM SlotInvariant == Spec => []SlotInv
<1>1. Init /\ TypeOK => SlotInv
  BY DEF Init, SlotInv, AtMostOneActive, DecidingAlone, Active, Unarchived, NoEaRecord
<1>2. SlotInv /\ [Next]_vars /\ TypeOK' => SlotInv'
  BY SlotStep
<1> QED
  BY <1>1, <1>2, TypeCorrect, PTL DEF Spec

\* The node is in at most one live agreement for the policy, however many attempts
\* the agbot makes and whatever is lost, repeated or restarted.
THEOREM OneLiveAgreement == Spec => []AtMostOneActive
<1>1. SlotInv => AtMostOneActive
  BY DEF SlotInv
<1> QED
  BY <1>1, SlotInvariant, PTL

\* The agent implements PolicySlot: every step of the whole system takes or frees
\* the slot as PolicySlot allows, or leaves it alone.
THEOREM ImplementsSlot == Spec => SlotSpec
<1>1. Init => Slot!Init
  BY DEF Init, Slot!Init, Live, Active, Unarchived, NoEaRecord
<1>2. SlotInv /\ TypeOK' /\ [Next]_vars => [Slot!Next]_Live
  BY SlotStep
<1> QED
  BY <1>1, <1>2, TypeCorrect, SlotInvariant, PTL DEF Spec, SlotSpec, Slot!Spec

-----------------------------------------------------------------------------
(***************************************************************************)
(* What the exchange shows.  An agreement leaves the exchange before its   *)
(* protocol half is over, and nothing puts it back: whatever starts or has *)
(* seen the end of the protocol half (Ending) is out of the exchange and   *)
(* no longer live.  The facts need that an id is proposed once, so that no *)
(* new record appears under an id that still has commands waiting.         *)
(***************************************************************************)

\* The proposal of an agreement is still to be decided on.
Proposed(a) == \/ \E m \in net : m.type = "proposal" /\ m.ag = a
               \/ deciding # NoMsg /\ deciding.ag = a

\* The agent has done nothing yet about the id.
Untouched(a) == /\ ea[a].stage = "none" /\ a \notin exNode /\ a \notin terminating
                /\ <<"protoTerminated", a>> \notin gcmds

\* Without redelivery an id has one proposal, and it finds the id untouched.
OneProposal ==
  /\ \A m \in net : m.type = "proposal" => m = Msg("proposal", m.ag, TRUE)
  /\ deciding # NoMsg => deciding = Msg("proposal", deciding.ag, TRUE)
  /\ \A a \in Ags : /\ ab[a].stage = "none" => ~Proposed(a)
                    /\ ab[a].stage = "none" \/ Proposed(a) => Untouched(a)

\* The protocol half of the cleanup is under way or done.
Ending(a) == a \in terminating \/ <<"protoTerminated", a>> \in gcmds \/ ea[a].protoTerm

\* The view of one agreement in the exchange.
ShownRightly(a) ==
  /\ Ending(a) => a \notin exNode /\ ~Active(a)
  /\ <<"cancelDeferred", a>> \in gcmds => Accepted(a) /\ ~Active(a)
  /\ a \in exNode => (Unarchived(a) /\ Accepted(a)) \/ <<"cancelDeferred", a>> \in gcmds

\* The governance worker keeps the record whose negative ack it is handling.
DeclinesWhatItHas == declining # NoMsg => Unarchived(declining.ag)

ExchangeInv == OneProposal /\ DeclinesWhatItHas /\ \A a \in Ags : ShownRightly(a)

\* A step leaves an agreement alone.
Alone(b) ==
  /\ ea'[b] = ea[b]
  /\ b \in exNode' <=> b \in exNode
  /\ b \in terminating' <=> b \in terminating
  /\ <<"protoTerminated", b>> \in gcmds' <=> <<"protoTerminated", b>> \in gcmds
  /\ <<"cancelDeferred", b>> \in gcmds' <=> <<"cancelDeferred", b>> \in gcmds

LEMMA AloneStays ==
  ASSUME NEW b \in Ags, Alone(b)
  PROVE /\ ShownRightly(b) => ShownRightly(b)'
        /\ Untouched(b) => Untouched(b)'
        /\ Unarchived(b) => Unarchived(b)'
BY DEF Alone, ShownRightly, Ending, Untouched, Active, Unarchived, Accepted

\* No step proposes anything.
NoNewProposal == /\ \A m \in net' : m.type = "proposal" => m \in net
                 /\ deciding' = deciding \/ deciding' = NoMsg

LEMMA ProposedBefore ==
  ASSUME NoNewProposal, NEW a \in Ags, Proposed(a)' PROVE Proposed(a)
BY DEF NoNewProposal, Proposed

\* A step of the agent about one agreement: others are left alone, and so is an
\* id the agent has no record of.
LEMMA OneTouched ==
  ASSUME TypeOK, ExchangeInv, NEW a \in Ags, ab' = ab, NoNewProposal,
         DeclinesWhatItHas', ShownRightly(a)', \A b \in Ags \ {a} : Alone(b),
         Alone(a) \/ ~Untouched(a)
  PROVE  ExchangeInv'
<1>1. \A b \in Ags : ShownRightly(b)'
  BY AloneStays DEF ExchangeInv
<1>2. ASSUME NEW b \in Ags
      PROVE /\ ab'[b].stage = "none" => ~Proposed(b)'
            /\ ab'[b].stage = "none" \/ Proposed(b)' => Untouched(b)'
  <2>1. CASE Alone(b)
    BY <2>1, AloneStays, ProposedBefore DEF ExchangeInv, OneProposal
  <2>2. CASE b = a /\ ~Untouched(a)
    BY <2>2, ProposedBefore DEF ExchangeInv, OneProposal
  <2> QED
    BY <2>1, <2>2
<1>3. /\ \A m \in net' : m.type = "proposal" => m = Msg("proposal", m.ag, TRUE)
      /\ deciding' # NoMsg => deciding' = Msg("proposal", deciding'.ag, TRUE)
  BY DEF NoNewProposal, ExchangeInv, OneProposal
<1>4. OneProposal'
  BY <1>2, <1>3 DEF OneProposal, Msg
<1> QED
  BY <1>1, <1>4 DEF ExchangeInv

\* cancelAgreement, which takes the agreement out of the exchange or leaves a
\* command that will.
LEMMA CancelShown ==
  ASSUME ea \in [Ags -> EaRecord], NEW a \in Ags, NEW ne \in BOOLEAN, NEW rest,
         rest = gcmds \/ rest = Without("cleanup", a) \/ rest = Without("cancelDeferred", a),
         ShownRightly(a), cancelNow(a, ne, rest) \/ cancelAgreement(a, ne, rest)
  PROVE  ShownRightly(a)' /\ \A b \in Ags \ {a} : Alone(b)
<1>1. /\ ea' = Terminated(a, ne)
      /\ ea'[a].stage = ea[a].stage /\ ea'[a].archived = ea[a].archived
      /\ ea'[a].protoTerm = ea[a].protoTerm /\ (ea'[a].terminated \/ ea'[a].archived)
      /\ \A b \in Ags \ {a} : ea'[b] = ea[b]
  BY DEF cancelNow, cancelAgreement, Terminated, EaRecord
<1>2. rest \subseteq gcmds
  BY DEF Without
<1>3. ASSUME NEW b \in Ags, b # a
      PROVE /\ <<"protoTerminated", b>> \in rest <=> <<"protoTerminated", b>> \in gcmds
            /\ <<"cancelDeferred", b>> \in rest <=> <<"cancelDeferred", b>> \in gcmds
  BY <1>3 DEF Without
<1>4. (Accepted(a)' <=> Accepted(a)) /\ (Unarchived(a)' <=> Unarchived(a)) /\ ~Active(a)'
  BY <1>1 DEF Accepted, Unarchived, Active
<1>5. CASE cancelNow(a, ne, rest)
  <2>1. a \notin exNode'
    BY <1>5 DEF cancelNow, ShownRightly
  <2>2. <<"cancelDeferred", a>> \in gcmds' => Accepted(a)'
    BY <1>2, <1>4, <1>5 DEF cancelNow, ShownRightly
  <2>3. ShownRightly(a)'
    BY <1>4, <2>1, <2>2 DEF ShownRightly
  <2>4. ASSUME NEW b \in Ags \ {a} PROVE Alone(b)
    <3>1. (b \in exNode' <=> b \in exNode) /\ (b \in terminating' <=> b \in terminating)
      BY <1>5 DEF cancelNow
    <3>2. gcmds' = rest
      BY <1>5 DEF cancelNow
    <3>3. ea'[b] = ea[b]
      BY <1>1
    <3>4. /\ <<"protoTerminated", b>> \in gcmds' <=> <<"protoTerminated", b>> \in gcmds
          /\ <<"cancelDeferred", b>> \in gcmds' <=> <<"cancelDeferred", b>> \in gcmds
      BY <1>3, <3>2
    <3> QED
      BY <3>1, <3>3, <3>4 DEF Alone
  <2> QED
    BY <2>3, <2>4
<1>6. CASE /\ Accepted(a) /\ ea' = Terminated(a, ne)
           /\ gcmds' = rest \cup {<<"cancelDeferred", a>>} /\ UNCHANGED <<exNode, terminating>>
  <2>1. Ending(a)' => Ending(a)
    BY <1>1, <1>2, <1>6 DEF Ending
  <2>2. ShownRightly(a)'
    BY <1>4, <1>6, <2>1 DEF ShownRightly
  <2>3. ASSUME NEW b \in Ags \ {a} PROVE Alone(b)
    <3>1. /\ <<"protoTerminated", b>> \in gcmds' <=> <<"protoTerminated", b>> \in rest
          /\ <<"cancelDeferred", b>> \in gcmds' <=> <<"cancelDeferred", b>> \in rest
      BY <1>6
    <3>3. ea'[b] = ea[b]
      BY <1>1
    <3>4. /\ <<"protoTerminated", b>> \in gcmds' <=> <<"protoTerminated", b>> \in gcmds
          /\ <<"cancelDeferred", b>> \in gcmds' <=> <<"cancelDeferred", b>> \in gcmds
      BY <1>3, <3>1
    <3> QED
      BY <1>6, <3>3, <3>4 DEF Alone
  <2> QED
    BY <2>2, <2>3
<1> QED
  BY <1>5, <1>6 DEF cancelAgreement

\* The acceptance is recorded, in the database first.
LEMMA RecordShown ==
  ASSUME ea \in [Ags -> EaRecord], NEW a \in Ags, NEW stage \in {"accepted", "finalized"},
         ShownRightly(a), Active(a), UNCHANGED <<terminating, gcmds>>,
         ea' = [ea EXCEPT ![a].stage = stage], exNode' \in {exNode, exNode \cup {a}}
  PROVE  ShownRightly(a)' /\ \A b \in Ags \ {a} : Alone(b)
<1>1. /\ ea'[a].stage = stage /\ ea'[a].archived = ea[a].archived
      /\ ea'[a].terminated = ea[a].terminated /\ ea'[a].protoTerm = ea[a].protoTerm
  BY DEF EaRecord
<1>2. Accepted(a)' /\ Unarchived(a)'
  BY <1>1 DEF Accepted, Unarchived, Active
<1>3. ~Ending(a) /\ ~Ending(a)'
  BY <1>1 DEF ShownRightly, Ending
<1>4. <<"cancelDeferred", a>> \notin gcmds
  BY DEF ShownRightly
<1> QED
  BY <1>2, <1>3, <1>4 DEF ShownRightly, Alone

\* A record whose fields that matter here stay the same.
LEMMA OthersOnly ==
  ASSUME ea \in [Ags -> EaRecord], NEW a \in Ags, ShownRightly(a), UNCHANGED <<terminating, exNode>>,
         \A b \in Ags : ea'[b] = ea[b] \/ (b = a /\ ea'[b].stage = ea[b].stage
             /\ ea'[b].archived = ea[b].archived /\ ea'[b].terminated = ea[b].terminated
             /\ ea'[b].protoTerm = ea[b].protoTerm),
         \A b \in Ags : /\ <<"protoTerminated", b>> \in gcmds' <=> <<"protoTerminated", b>> \in gcmds
                        /\ <<"cancelDeferred", b>> \in gcmds' <=> <<"cancelDeferred", b>> \in gcmds
  PROVE  /\ ShownRightly(a)' /\ \A b \in Ags \ {a} : Alone(b)
         /\ Unarchived(a)' <=> Unarchived(a)
BY DEF ShownRightly, Alone, Ending, Active, Unarchived, Accepted

LEMMA Declines == ASSUME GovIdle, declining' = declining PROVE DeclinesWhatItHas'
BY DEF GovIdle, DeclinesWhatItHas

\* Commands and governance of the agent keep the view right.
LEMMA AgentActionExchange ==
  ASSUME TypeOK, ExchangeInv, NEW a \in Ags, AgentWorker(a) \/ AgentDecision(a)
  PROVE  ExchangeInv'
<1>1. ea \in [Ags -> EaRecord] /\ ea[a] \in EaRecord
  BY DEF TypeOK, AgentTypeOK
<1>2. ShownRightly(a) /\ DeclinesWhatItHas
  BY DEF ExchangeInv
<1>3. ab' = ab
  BY DEF AgentWorker, AgentDecision, ExternalTermination, CleanupStatus, CleanupExecution,
         StartGovernExecution, DeferredCancel, VerifyAgreement, WorkloadConfigure, WorkloadShutdown,
         FinalizeAgreement, FinalizeTimeout, GovernAgreements, GovernOutOfPolicy,
         GovernVerification, CleanupRequested, agbotVars
<1>4. NoNewProposal
  <2>1. deciding' = deciding
    BY DEF AgentWorker, AgentDecision, ExternalTermination, CleanupStatus, CleanupExecution,
           StartGovernExecution, DeferredCancel, VerifyAgreement, WorkloadConfigure, WorkloadShutdown,
           FinalizeAgreement, FinalizeTimeout, GovernAgreements, GovernOutOfPolicy,
           GovernVerification, CleanupRequested
  <2>2. net' = net \/ net' = net \cup {Msg("eaCancel", a, TRUE)} \/ net' = net \cup {Msg("eaVerify", a, TRUE)}
    BY DEF AgentWorker, AgentDecision, ExternalTermination, CleanupStatus, CleanupExecution,
           StartGovernExecution, DeferredCancel, VerifyAgreement, WorkloadConfigure, WorkloadShutdown,
           FinalizeAgreement, FinalizeTimeout, GovernAgreements, GovernOutOfPolicy,
           GovernVerification, CleanupRequested
  <2> QED
    BY <2>1, <2>2 DEF NoNewProposal, Msg
<1>5. ASSUME NEW ne \in BOOLEAN, NEW rest,
             rest = gcmds \/ rest = Without("cleanup", a) \/ rest = Without("cancelDeferred", a),
             cancelNow(a, ne, rest) \/ cancelAgreement(a, ne, rest),
             GovIdle, declining' = declining, ea[a].stage # "none"
      PROVE  ExchangeInv'
  BY <1>1, <1>2, <1>3, <1>4, <1>5, CancelShown, OneTouched, Declines DEF Untouched
<1>6. ASSUME GovIdle, declining' = declining, ea[a].stage # "none", UNCHANGED <<terminating, exNode>>,
             gcmds' = gcmds \/ \E kind \in {"wlDestroyed", "cleanup", "execBegun", "verify"} :
                                  gcmds' = Without(kind, a) \/ gcmds' = gcmds \cup {<<kind, a>>},
             \A b \in Ags : ea'[b] = ea[b] \/ (b = a /\ ea'[b].stage = ea[b].stage
                 /\ ea'[b].archived = ea[b].archived /\ ea'[b].terminated = ea[b].terminated
                 /\ ea'[b].protoTerm = ea[b].protoTerm)
      PROVE  ExchangeInv'
  <2>1. \A b \in Ags : /\ <<"protoTerminated", b>> \in gcmds' <=> <<"protoTerminated", b>> \in gcmds
                       /\ <<"cancelDeferred", b>> \in gcmds' <=> <<"cancelDeferred", b>> \in gcmds
    BY <1>6 DEF Without
  <2> QED
    BY <1>1, <1>2, <1>3, <1>4, <1>6, <2>1, OthersOnly, OneTouched, Declines DEF Untouched
\* Steps after which only the queues of other commands differ.
<1>7. ASSUME UNCHANGED <<ea, declining, terminating, exNode>>,
             gcmds' = gcmds \/ \E kind \in {"wlDestroyed", "cleanup", "execBegun", "verify"} :
                                  gcmds' = Without(kind, a) \/ gcmds' = gcmds \cup {<<kind, a>>}
      PROVE  ExchangeInv'
  <2>1. \A b \in Ags : /\ <<"protoTerminated", b>> \in gcmds' <=> <<"protoTerminated", b>> \in gcmds
                       /\ <<"cancelDeferred", b>> \in gcmds' <=> <<"cancelDeferred", b>> \in gcmds
    BY <1>7 DEF Without
  <2>2. \A b \in Ags : Alone(b)
    BY <1>7, <2>1 DEF Alone
  <2>3. DeclinesWhatItHas'
    BY <1>2, <1>7 DEF DeclinesWhatItHas, Unarchived
  <2> QED
    BY <1>2, <1>3, <1>4, <2>2, <2>3, AloneStays, OneTouched
<1>8. CASE ExternalTermination(a)
  <2>1. ~Active(a) /\ a \notin exNode /\ ~Untouched(a)
    BY <1>2, <1>8 DEF ExternalTermination, ShownRightly, Ending, Untouched
  <2>2. /\ UNCHANGED <<ea, exNode, declining>> /\ terminating' = terminating \ {a}
        /\ gcmds' = gcmds \cup {<<"protoTerminated", a>>}
    BY <1>8 DEF ExternalTermination
  <2>3. ShownRightly(a)'
    BY <1>2, <2>1, <2>2 DEF ShownRightly, Active, Unarchived, Accepted
  <2>4. \A b \in Ags \ {a} : Alone(b)
    BY <2>2 DEF Alone
  <2>5. DeclinesWhatItHas'
    BY <1>2, <2>2 DEF DeclinesWhatItHas, Unarchived
  <2> QED
    BY <1>3, <1>4, <2>1, <2>3, <2>4, <2>5, OneTouched
<1>9. ASSUME NEW kind \in {"protoTerminated", "wlDestroyed"}, CleanupStatus(kind, a)
      PROVE  ExchangeInv'
  <2>1. /\ UNCHANGED <<exNode, terminating, declining>> /\ gcmds' = Without(kind, a) /\ GovIdle
        /\ \A b \in Ags \ {a} : ea'[b] = ea[b]
    BY <1>1, <1>9 DEF CleanupStatus
  <2>2. \A b \in Ags \ {a} : Alone(b)
    BY <2>1 DEF Alone, Without
  <2>3. Alone(a) \/ ~Untouched(a)
    <3>1. CASE kind = "protoTerminated"
      BY <1>9, <3>1 DEF CleanupStatus, Untouched
    <3>2. CASE kind = "wlDestroyed" /\ ~Unarchived(a)
      BY <1>9, <2>1, <3>2 DEF CleanupStatus, Alone, Without
    <3> QED
      BY <3>1, <3>2 DEF Untouched, Unarchived
  <2>4. ShownRightly(a)'
    <3>1. <<"cancelDeferred", a>> \in gcmds' <=> <<"cancelDeferred", a>> \in gcmds
      BY <2>1 DEF Without
    <3>2. Ending(a)' => Ending(a) \/ <<"protoTerminated", a>> \in gcmds
      BY <1>1, <1>9, <2>1 DEF CleanupStatus, Ending, Without, NoEaRecord, EaRecord
    <3>3. Active(a)' => Active(a)
      BY <1>1, <1>9 DEF CleanupStatus, Active, Unarchived, NoEaRecord, EaRecord
    <3>4. Accepted(a) => Accepted(a)'
      BY <1>1, <1>9 DEF CleanupStatus, Accepted, NoEaRecord, EaRecord
    <3>5. Unarchived(a) /\ Accepted(a) => Unarchived(a)' \/ Ending(a)
      BY <1>1, <1>9 DEF CleanupStatus, Accepted, Unarchived, Ending, EaRecord
    <3> QED
      BY <1>2, <2>1, <3>1, <3>2, <3>3, <3>4, <3>5 DEF ShownRightly, Ending
  <2> QED
    BY <1>3, <1>4, <2>1, <2>2, <2>3, <2>4, OneTouched, Declines
<1>10. CASE CleanupExecution(a)
  <2>1. GovIdle /\ declining' = declining
    BY <1>10 DEF CleanupExecution
  <2>2. CASE NeedsCleanup(a) /\ cancelAgreement(a, FALSE, Without("cleanup", a))
    BY <1>5, <2>1, <2>2 DEF NeedsCleanup, Unarchived
  <2>3. CASE gcmds' = Without("cleanup", a) /\ UNCHANGED <<ea, exNode, terminating>>
    BY <1>7, <2>1, <2>3
  <2> QED
    BY <1>10, <2>2, <2>3 DEF CleanupExecution
<1>11. CASE StartGovernExecution(a)
  <2>1. /\ GovIdle /\ gcmds' = Without("execBegun", a)
        /\ UNCHANGED <<declining, terminating, exNode>>
    BY <1>11 DEF StartGovernExecution
  <2>2. CASE ea' = ea
    BY <1>7, <2>1, <2>2
  <2>3. CASE Unarchived(a) /\ ea' = [ea EXCEPT ![a].started = TRUE]
    <3>1. \A b \in Ags : ea'[b] = ea[b] \/ (b = a /\ ea'[b].stage = ea[b].stage
                 /\ ea'[b].archived = ea[b].archived /\ ea'[b].terminated = ea[b].terminated
                 /\ ea'[b].protoTerm = ea[b].protoTerm)
      BY <1>1, <2>3 DEF EaRecord
    <3> QED
      BY <1>6, <2>1, <2>3, <3>1 DEF Unarchived
  <2> QED
    BY <1>11, <2>2, <2>3 DEF StartGovernExecution
<1>12. CASE DeferredCancel(a)
  <2>1. GovIdle /\ declining' = declining /\ CancelFinds(a)
    BY <1>2, <1>12 DEF DeferredCancel, ShownRightly, CancelFinds, Accepted
  <2> QED
    BY <1>5, <1>12, <2>1 DEF DeferredCancel, CancelFinds
<1>13. CASE VerifyAgreement(a)
  <2>1. GovIdle /\ declining' = declining
    BY <1>13 DEF VerifyAgreement
  <2>2. CASE Active(a) /\ cancelNow(a, FALSE, gcmds)
    BY <1>5, <2>1, <2>2 DEF Active, Unarchived
  <2>3. CASE UNCHANGED <<ea, exNode, terminating>> /\ (gcmds' = gcmds \/ gcmds' = Without("verify", a))
    BY <1>7, <2>1, <2>3
  <2>4. CASE /\ Active(a) /\ gcmds' = Without("verify", a) /\ UNCHANGED <<exNode, terminating>>
             /\ ea' = [ea EXCEPT ![a] = CountVerification(@)]
    <3>1. \A b \in Ags : ea'[b] = ea[b] \/ (b = a /\ ea'[b].stage = ea[b].stage
                 /\ ea'[b].archived = ea[b].archived /\ ea'[b].terminated = ea[b].terminated
                 /\ ea'[b].protoTerm = ea[b].protoTerm)
      BY <1>1, <2>4 DEF EaRecord, CountVerification
    <3> QED
      BY <1>6, <2>1, <2>4, <3>1 DEF Active, Unarchived
  <2> QED
    BY <1>13, <2>2, <2>3, <2>4 DEF VerifyAgreement
<1>14. CASE FinalizeAgreement(a)
  <2>1. /\ GovIdle /\ Active(a) /\ UNCHANGED <<declining, terminating, gcmds>>
        /\ \E stage \in {"accepted", "finalized"} : ea' = [ea EXCEPT ![a].stage = stage]
        /\ exNode' \in {exNode, exNode \cup {a}}
    BY <1>14 DEF FinalizeAgreement, RecordReply, RecordReplyFails
  <2>2. ShownRightly(a)' /\ \A b \in Ags \ {a} : Alone(b)
    BY <1>1, <1>2, <2>1, RecordShown
  <2> QED
    BY <1>3, <1>4, <2>1, <2>2, OneTouched, Declines DEF Active, Unarchived, Untouched
<1>15. CASE FinalizeTimeout(a) \/ GovernAgreements(a) \/ GovernOutOfPolicy(a)
  <2>1. /\ GovIdle /\ Active(a) /\ declining' = declining
        /\ \E ne \in BOOLEAN : cancelNow(a, ne, gcmds) \/ cancelAgreement(a, ne, gcmds)
    <3>1. (~ea[a].started) \in BOOLEAN
      OBVIOUS
    <3> QED
      BY <1>15, <3>1 DEF FinalizeTimeout, GovernAgreements, GovernOutOfPolicy
  <2> QED
    BY <1>5, <2>1 DEF Active, Unarchived
<1>16. CASE WorkloadConfigure(a) \/ WorkloadShutdown(a) \/ GovernVerification(a) \/ CleanupRequested(a)
  BY <1>7, <1>16 DEF WorkloadConfigure, WorkloadShutdown, GovernVerification, CleanupRequested
<1> QED
  BY <1>8, <1>9, <1>10, <1>11, <1>12, <1>13, <1>14, <1>15, <1>16 DEF AgentWorker, AgentDecision

\* So do the messages the agent handles.
LEMMA AgentMessageExchange ==
  ASSUME TypeOK, ExchangeInv, NEW m \in net, AgentMessage(m)
  PROVE  ExchangeInv'
<1> DEFINE a == m.ag
<1>1. ea \in [Ags -> EaRecord] /\ a \in Ags /\ ea[a] \in EaRecord
  BY MsgFields DEF TypeOK, AgentTypeOK
<1>2. ShownRightly(a) /\ DeclinesWhatItHas
  BY <1>1 DEF ExchangeInv
<1>3. ab' = ab
  BY DEF AgentMessage, IgnoreProposal, RejectProposal, AcceptProposal, HandleReplyAck,
         HandleNegativeAck, HandleAgbotCancel, HandleAgbotVerify, agbotVars
<1>4. \A x \in net' : x.type = "proposal" => x \in net
  <2>1. \A x \in net' : \/ x \in net \/ x = Msg("eaVerifyReply", a, Unarchived(a))
                        \/ \E ok \in BOOLEAN : x = Msg("reply", a, ok)
    <3>1. CASE IgnoreProposal(m) \/ RejectProposal(m) \/ AcceptProposal(m)
      BY <3>1 DEF IgnoreProposal, RejectProposal, AcceptProposal, Consume
    <3>2. CASE HandleReplyAck(m) \/ HandleNegativeAck(m) \/ HandleAgbotCancel(m)
      BY <3>2 DEF HandleReplyAck, HandleNegativeAck, HandleAgbotCancel, Consume
    <3>3. CASE HandleAgbotVerify(m)
      BY <3>3 DEF HandleAgbotVerify, Consume
    <3> QED
      BY <3>1, <3>2, <3>3 DEF AgentMessage
  <2> QED
    BY <2>1 DEF Msg
<1>5. ASSUME deciding' = deciding PROVE NoNewProposal
  BY <1>4, <1>5 DEF NoNewProposal
<1>6. CASE IgnoreProposal(m) \/ RejectProposal(m) \/ HandleNegativeAck(m)
  <2>1. UNCHANGED <<ea, exNode, terminating, gcmds, deciding>>
    BY <1>6 DEF IgnoreProposal, RejectProposal, HandleNegativeAck, agentVars
  <2>2. \A b \in Ags : Alone(b)
    BY <2>1 DEF Alone
  <2>3. declining' = declining \/ (declining' = m /\ Unarchived(a))
    BY <1>6 DEF IgnoreProposal, RejectProposal, HandleNegativeAck, agentVars
  <2>4. DeclinesWhatItHas'
    BY <1>2, <2>1, <2>3 DEF DeclinesWhatItHas, Unarchived
  <2> QED
    BY <1>1, <1>2, <1>3, <1>5, <2>1, <2>2, <2>4, AloneStays, OneTouched
<1>7. CASE AcceptProposal(m)
  <2>1. /\ UNCHANGED <<ea, exNode, terminating, gcmds, declining>> /\ deciding' = m
        /\ m.type = "proposal"
    BY <1>7 DEF AcceptProposal
  <2>2. \A b \in Ags : Alone(b)
    BY <2>1 DEF Alone
  <2>3. \A b \in Ags : Proposed(b)' => Proposed(b)
    BY <1>4, <2>1 DEF Proposed
  <2>4. m = Msg("proposal", m.ag, TRUE)
    BY <2>1 DEF ExchangeInv, OneProposal
  <2>5. \A x \in net' : x.type = "proposal" => x = Msg("proposal", x.ag, TRUE)
    BY <1>4 DEF ExchangeInv, OneProposal
  <2>6. deciding' # NoMsg => deciding' = Msg("proposal", deciding'.ag, TRUE)
    BY <2>1, <2>4
  <2>7. \A b \in Ags : /\ ab'[b].stage = "none" => ~Proposed(b)'
                       /\ ab'[b].stage = "none" \/ Proposed(b)' => Untouched(b)'
    BY <1>3, <2>2, <2>3, AloneStays DEF ExchangeInv, OneProposal
  <2>8. OneProposal'
    BY <2>5, <2>6, <2>7 DEF OneProposal, Msg
  <2>9. DeclinesWhatItHas'
    BY <1>2, <2>1 DEF DeclinesWhatItHas, Unarchived
  <2> QED
    BY <2>2, <2>8, <2>9, AloneStays DEF ExchangeInv
<1>8. CASE HandleReplyAck(m)
  <2>1. GovIdle /\ UNCHANGED <<declining, terminating, gcmds, deciding>>
    BY <1>8 DEF HandleReplyAck
  <2>2. CASE UNCHANGED <<ea, exNode>>
    <3>1. \A b \in Ags : Alone(b)
      BY <2>1, <2>2 DEF Alone
    <3> QED
      BY <1>1, <1>2, <1>3, <1>5, <2>1, <3>1, AloneStays, OneTouched, Declines
  <2>3. CASE /\ Active(a) /\ ea' = [ea EXCEPT ![a].stage = "accepted"]
             /\ exNode' \in {exNode, exNode \cup {a}}
    <3>1. ShownRightly(a)' /\ \A b \in Ags \ {a} : Alone(b)
      BY <1>1, <1>2, <2>1, <2>3, RecordShown
    <3>2. ~Untouched(a)
      BY <2>3 DEF Active, Unarchived, Untouched
    <3> QED
      BY <1>1, <1>3, <1>5, <2>1, <3>1, <3>2, OneTouched, Declines
  <2> QED
    BY <1>8, <2>2, <2>3 DEF HandleReplyAck, AckApplies, RecordReply, RecordReplyFails
<1>9. CASE HandleAgbotCancel(m)
  <2>1. GovIdle /\ UNCHANGED <<declining, deciding>>
    BY <1>9 DEF HandleAgbotCancel
  <2>2. CASE UNCHANGED <<ea, exNode, terminating, gcmds>>
    <3>1. \A b \in Ags : Alone(b)
      BY <2>1, <2>2 DEF Alone
    <3> QED
      BY <1>1, <1>2, <1>3, <1>5, <2>1, <3>1, AloneStays, OneTouched, Declines
  <2>3. CASE Unarchived(a) /\ cancelAgreement(a, FALSE, gcmds)
    <3>1. ShownRightly(a)' /\ \A b \in Ags \ {a} : Alone(b)
      BY <1>1, <1>2, <2>3, CancelShown
    <3>2. ~Untouched(a)
      BY <2>3 DEF Unarchived, Untouched
    <3> QED
      BY <1>1, <1>3, <1>5, <2>1, <3>1, <3>2, OneTouched, Declines
  <2> QED
    BY <1>9, <2>2, <2>3 DEF HandleAgbotCancel, Active
<1>10. CASE HandleAgbotVerify(m)
  <2>1. GovIdle /\ UNCHANGED <<declining, deciding, terminating, gcmds, exNode>>
    BY <1>10 DEF HandleAgbotVerify
  <2>2. CASE ea' = ea
    <3>1. \A b \in Ags : Alone(b)
      BY <2>1, <2>2 DEF Alone
    <3> QED
      BY <1>1, <1>2, <1>3, <1>5, <2>1, <3>1, AloneStays, OneTouched, Declines
  <2>3. CASE Unarchived(a) /\ ea' = [ea EXCEPT ![a].ver = 0]
    <3>1. \A b \in Ags : ea'[b] = ea[b] \/ (b = a /\ ea'[b].stage = ea[b].stage
                 /\ ea'[b].archived = ea[b].archived /\ ea'[b].terminated = ea[b].terminated
                 /\ ea'[b].protoTerm = ea[b].protoTerm)
      BY <1>1, <2>3 DEF EaRecord
    <3>2. ShownRightly(a)' /\ \A b \in Ags \ {a} : Alone(b)
      BY <1>1, <1>2, <2>1, <3>1, OthersOnly
    <3>3. ~Untouched(a)
      BY <2>3 DEF Unarchived, Untouched
    <3> QED
      BY <1>1, <1>3, <1>5, <2>1, <3>2, <3>3, OneTouched, Declines
  <2> QED
    BY <1>10, <2>2, <2>3 DEF HandleAgbotVerify
<1> QED
  BY <1>6, <1>7, <1>8, <1>9, <1>10 DEF AgentMessage

\* The record of a proposal is stored under an id the agent has not touched.
LEMMA PersistExchange ==
  ASSUME TypeOK, ExchangeInv, PersistProposal PROVE ExchangeInv'
<1>0. PICK a \in Ags : a = deciding.ag
  BY MsgFields DEF TypeOK, AgentTypeOK, PersistProposal
<1>1. ea \in [Ags -> EaRecord] /\ deciding # NoMsg /\ deciding = Msg("proposal", a, TRUE)
  BY <1>0 DEF TypeOK, AgentTypeOK, PersistProposal, ExchangeInv, OneProposal
<1>2. Untouched(a) /\ ab[a].stage # "none" /\ ShownRightly(a)
  BY <1>0, <1>1 DEF ExchangeInv, OneProposal, Proposed
<1>3. /\ deciding' = NoMsg /\ net' = net \ {deciding}
      /\ UNCHANGED <<ab, declining, terminating, gcmds, exNode>>
  BY DEF PersistProposal, Consume, agbotVars
<1>4. ea' = ea \/ ea' = [ea EXCEPT ![a] = [NoEaRecord EXCEPT !.stage = "pending"]]
  BY <1>0 DEF PersistProposal
<1>5. \A b \in Ags \ {a} : Alone(b)
  BY <1>1, <1>3, <1>4 DEF Alone
<1>6. ~Proposed(a)'
  <2>1. \A m \in net : m.type = "proposal" /\ m.ag = a => m = deciding
    BY <1>1 DEF ExchangeInv, OneProposal
  <2> QED
    BY <1>3, <2>1 DEF Proposed
<1>7. ASSUME NEW b \in Ags, Proposed(b)' PROVE Proposed(b)
  BY <1>3, <1>7 DEF Proposed
<1>8. \A b \in Ags : /\ ab'[b].stage = "none" => ~Proposed(b)'
                     /\ ab'[b].stage = "none" \/ Proposed(b)' => Untouched(b)'
  BY <1>2, <1>3, <1>5, <1>6, <1>7, AloneStays DEF ExchangeInv, OneProposal
<1>9. OneProposal'
  BY <1>3, <1>8 DEF ExchangeInv, OneProposal, Msg
<1>10. ShownRightly(a)'
  <2>1. CASE ea' = ea
    BY <1>2, <1>3, <2>1 DEF ShownRightly, Ending, Active, Unarchived, Accepted
  <2>2. CASE ea' = [ea EXCEPT ![a] = [NoEaRecord EXCEPT !.stage = "pending"]]
    <3>1. ~ea'[a].protoTerm
      BY <1>1, <2>2 DEF NoEaRecord
    <3>2. <<"cancelDeferred", a>> \notin gcmds
      BY <1>2 DEF Untouched, ShownRightly, Accepted
    <3> QED
      BY <1>2, <1>3, <3>1, <3>2 DEF ShownRightly, Ending, Untouched
  <2> QED
    BY <1>4, <2>1, <2>2
<1>11. DeclinesWhatItHas'
  <2>1. declining # NoMsg => Unarchived(declining.ag) /\ declining.ag \in Ags
    BY MsgFields DEF ExchangeInv, DeclinesWhatItHas, TypeOK, AgentTypeOK
  <2>2. ~Unarchived(a)
    BY <1>2 DEF Untouched, Unarchived
  <2>3. \A d \in Ags : Unarchived(d) => Unarchived(d)'
    BY <1>5, <2>2, AloneStays
  <2> QED
    BY <1>3, <2>1, <2>3 DEF DeclinesWhatItHas, Unarchived
<1> QED
  BY <1>5, <1>9, <1>10, <1>11, AloneStays DEF ExchangeInv

LEMMA DeclineExchange ==
  ASSUME TypeOK, ExchangeInv, DeclineAgreement PROVE ExchangeInv'
<1>0. PICK a \in Ags : a = declining.ag
  BY MsgFields DEF TypeOK, AgentTypeOK, DeclineAgreement, GovIdle
<1>1. ea \in [Ags -> EaRecord]
  BY DEF TypeOK, AgentTypeOK
<1>2. Unarchived(a) /\ ShownRightly(a)
  BY <1>0 DEF ExchangeInv, DeclinesWhatItHas, DeclineAgreement, GovIdle
<1>3. ShownRightly(a)' /\ \A b \in Ags \ {a} : Alone(b)
  BY <1>0, <1>1, <1>2, CancelShown DEF DeclineAgreement
<1>4. ab' = ab /\ NoNewProposal /\ DeclinesWhatItHas'
  BY DEF DeclineAgreement, agbotVars, NoNewProposal, Consume, DeclinesWhatItHas
<1> QED
  BY <1>1, <1>2, <1>3, <1>4, OneTouched DEF Untouched, Unarchived

\* A restart of the agent drops the commands and repairs the exchange.
LEMMA RestartExchange ==
  ASSUME TypeOK, ExchangeInv, AgentRestart PROVE ExchangeInv'
<1> DEFINE verified == {a \in Ags : Active(a) /\ Accepted(a)}
<1>1. ea \in [Ags -> EaRecord]
  BY DEF TypeOK, AgentTypeOK
<1>2. /\ deciding' = NoMsg /\ declining' = NoMsg /\ terminating' = {} /\ ab' = ab
      /\ \A b \in Ags : <<"protoTerminated", b>> \notin gcmds' /\ <<"cancelDeferred", b>> \notin gcmds'
      /\ exNode' = {a \in exNode : Unarchived(a)} \cup verified
  BY DEF AgentRestart, SyncedExchange, agbotVars
<1>3. ASSUME NEW b \in Ags
      PROVE /\ ea'[b].stage = ea[b].stage /\ ea'[b].archived = ea[b].archived
            /\ ea'[b].terminated = ea[b].terminated /\ ea'[b].protoTerm = ea[b].protoTerm
  <2>1. ea'[b] \in {[ea[b] EXCEPT !.forced = TRUE], CountVerification(ea[b]), ea[b]}
    BY <1>1 DEF AgentRestart
  <2>2. ea[b] \in EaRecord
    BY <1>1
  <2> QED
    BY <2>1, <2>2 DEF CountVerification, EaRecord
<1>4. ASSUME NEW b \in Ags PROVE ShownRightly(b)'
  <2>1. (Active(b)' <=> Active(b)) /\ (Unarchived(b)' <=> Unarchived(b)) /\ (Accepted(b)' <=> Accepted(b))
    BY <1>3 DEF Active, Unarchived, Accepted
  <2>2. Ending(b)' => Ending(b)
    BY <1>2, <1>3 DEF Ending
  <2>3. ShownRightly(b)
    BY DEF ExchangeInv
  <2>4. b \in exNode' => Unarchived(b) /\ Accepted(b) /\ (b \in exNode \/ Active(b))
    BY <1>2, <2>3 DEF ShownRightly, Active
  <2> QED
    BY <1>2, <2>1, <2>2, <2>3, <2>4 DEF ShownRightly
<1>5. ASSUME NEW b \in Ags, Untouched(b) PROVE Untouched(b)'
  BY <1>2, <1>3, <1>5 DEF Untouched, Active, Unarchived
<1>6. NoNewProposal
  <2>1. net' = net \cup {Msg("eaVerify", a, TRUE) : a \in verified}
    BY DEF AgentRestart
  <2> QED
    BY <1>2, <2>1 DEF NoNewProposal, Msg
<1>7. OneProposal'
  BY <1>2, <1>5, <1>6, ProposedBefore DEF ExchangeInv, OneProposal, NoNewProposal, Msg
<1> QED
  BY <1>2, <1>4, <1>7 DEF ExchangeInv, DeclinesWhatItHas

-----------------------------------------------------------------------------
\* Steps that leave the agent alone: the agbot's, and those of the network.
LEMMA AgentAlone ==
  ASSUME ExchangeInv, UNCHANGED agentVars, \A m \in net' : m.type = "proposal" => m \in net,
         \A a \in Ags : ab'[a].stage = "none" => ab[a].stage = "none"
  PROVE  ExchangeInv'
<1>1. \A b \in Ags : Alone(b)
  BY DEF Alone, agentVars
<1>2. NoNewProposal
  BY DEF NoNewProposal, agentVars
<1>3. OneProposal'
  BY <1>1, <1>2, AloneStays, ProposedBefore DEF ExchangeInv, OneProposal, NoNewProposal, Msg
<1>4. DeclinesWhatItHas'
  BY DEF ExchangeInv, DeclinesWhatItHas, Unarchived, agentVars
<1> QED
  BY <1>1, <1>3, <1>4, AloneStays DEF ExchangeInv

\* The agbot proposes an id once.
LEMMA InitiateExchange ==
  ASSUME TypeOK, ExchangeInv, NEW a \in Ags, InitiateNewAgreement(a) PROVE ExchangeInv'
<1>1. ab \in [Ags -> AbRecord] /\ ab[a].stage = "none" /\ UNCHANGED agentVars
  BY DEF TypeOK, AgbotTypeOK, InitiateNewAgreement
<1>2. /\ ab'[a].stage # "none" /\ \A b \in Ags \ {a} : ab'[b] = ab[b]
      /\ net' = net \/ net' = net \cup {Msg("proposal", a, TRUE)}
  BY <1>1 DEF InitiateNewAgreement, AbRecord
<1>3. \A b \in Ags : Alone(b)
  BY <1>1 DEF Alone, agentVars
<1>4. Untouched(a)
  BY <1>1 DEF ExchangeInv, OneProposal
<1>5. ASSUME NEW b \in Ags, b # a, Proposed(b)' PROVE Proposed(b)
  BY <1>1, <1>2, <1>5 DEF Proposed, agentVars, Msg
<1>6. OneProposal'
  <2>1. \A m \in net' : m.type = "proposal" => m = Msg("proposal", m.ag, TRUE)
    BY <1>2 DEF ExchangeInv, OneProposal, Msg
  <2>2. deciding' # NoMsg => deciding' = Msg("proposal", deciding'.ag, TRUE)
    BY <1>1 DEF ExchangeInv, OneProposal, agentVars
  <2>3. \A b \in Ags : /\ ab'[b].stage = "none" => ~Proposed(b)'
                       /\ ab'[b].stage = "none" \/ Proposed(b)' => Untouched(b)'
    BY <1>2, <1>3, <1>4, <1>5, AloneStays DEF ExchangeInv, OneProposal
  <2> QED
    BY <2>1, <2>2, <2>3 DEF OneProposal, Msg
<1>7. DeclinesWhatItHas'
  BY <1>1 DEF ExchangeInv, DeclinesWhatItHas, Unarchived, agentVars
<1> QED
  BY <1>3, <1>6, <1>7, AloneStays DEF ExchangeInv

LEMMA AgbotExchange ==
  ASSUME TypeOK, ExchangeInv, Agbot PROVE ExchangeInv'
<1>1. ab \in [Ags -> AbRecord] /\ \A m \in net : m.ag \in Ags
  BY MsgFields DEF TypeOK, AgbotTypeOK
<1>2. ASSUME NEW a \in Ags, AgbotWorker(a) \/ AgbotDecision(a), ~InitiateNewAgreement(a)
      PROVE ExchangeInv'
  <2>1. UNCHANGED agentVars
    BY <1>2 DEF AgbotWorker, AgbotDecision, PersistAgreement, AgreementFinalized,
           HandleCancelItem, Search, SearchFindsAgreement, AbandonInitiate, TerminateAgreement,
           TerminateUnhealthy, ApiDeleteAgreement, HandlePolicyChanged, GovernArchivedAgreements
  <2>2. \A m \in net' : m.type = "proposal" => m \in net
    BY <1>2 DEF AgbotWorker, AgbotDecision, PersistAgreement, AgreementFinalized,
           HandleCancelItem, Search, SearchFindsAgreement, AbandonInitiate, TerminateAgreement,
           TerminateUnhealthy, ApiDeleteAgreement, HandlePolicyChanged, GovernArchivedAgreements,
           CancelMessages, Msg
  <2>3. \A b \in Ags : ab'[b].stage = "none" => ab[b].stage = "none"
    <3>1. CASE AgbotWorker(a)
      BY <1>1, <1>2, <3>1 DEF AgbotWorker, PersistAgreement, AgreementFinalized, HandleCancelItem,
             CancelAgreement, AbRecord
    <3>2. CASE Search(a) \/ SearchFindsAgreement(a) \/ AbandonInitiate(a) \/ HandlePolicyChanged(a)
      BY <3>2 DEF Search, SearchFindsAgreement, AbandonInitiate, HandlePolicyChanged, agbotVars
    <3>3. CASE TerminateAgreement(a) \/ TerminateUnhealthy(a) \/ ApiDeleteAgreement(a)
      BY <1>1, <3>3 DEF TerminateAgreement, TerminateUnhealthy, ApiDeleteAgreement, AbRecord
    <3>4. CASE GovernArchivedAgreements(a)
      BY <1>1, <3>4 DEF GovernArchivedAgreements, AbRecord
    <3> QED
      BY <1>2, <3>1, <3>2, <3>3, <3>4 DEF AgbotDecision
  <2> QED
    BY <2>1, <2>2, <2>3, AgentAlone
<1>3. ASSUME NEW m \in net, AgbotMessage(m) PROVE ExchangeInv'
  <2>1. UNCHANGED agentVars
    BY <1>3 DEF AgbotMessage, HandleAcceptance, HandleRejection, HandleNodeCancel, HandleNodeVerify,
           HandleNodeVerifyReply
  <2>2. \A x \in net' : x.type = "proposal" => x \in net
    BY <1>3 DEF AgbotMessage, HandleAcceptance, HandleRejection, HandleNodeCancel, HandleNodeVerify,
           HandleNodeVerifyReply, Consume, CancelMessages, Msg
  <2>3. \A b \in Ags : ab'[b].stage = "none" => ab[b].stage = "none"
    BY <1>1, <1>3 DEF AgbotMessage, HandleAcceptance, HandleRejection, HandleNodeCancel,
           HandleNodeVerify, HandleNodeVerifyReply, CancelAgreement, AbRecord, agbotVars
  <2> QED
    BY <2>1, <2>2, <2>3, AgentAlone
<1> QED
  BY <1>2, <1>3, InitiateExchange DEF Agbot

LEMMA EnvironmentExchange ==
  ASSUME MaxDup = 0, TypeOK, ExchangeInv, Environment PROVE ExchangeInv'
<1>1. ASSUME NEW m \in net, LoseMessage(m) PROVE ExchangeInv'
  BY <1>1, AgentAlone DEF LoseMessage, agbotVars
<1>2. ASSUME NEW m \in net PROVE ~DuplicateMessage(m)
  BY DEF DuplicateMessage, TypeOK, Spending
<1>3. ASSUME NEW a \in Ags, HeartbeatRestored(a) PROVE ExchangeInv'
  <2>1. /\ UNCHANGED <<ab, net, ea, deciding, declining, terminating, exNode>>
        /\ gcmds' = gcmds \cup {<<"verify", a>>}
    BY <1>3 DEF HeartbeatRestored, agbotVars
  <2>2. \A b \in Ags : Alone(b)
    BY <2>1 DEF Alone
  <2>3. NoNewProposal /\ DeclinesWhatItHas'
    BY <2>1 DEF NoNewProposal, ExchangeInv, DeclinesWhatItHas, Unarchived
  <2> QED
    BY <2>1, <2>2, <2>3, AloneStays, OneTouched DEF ExchangeInv
<1>4. CASE AgbotRestart
  <2>1. \A b \in Ags : ab'[b].stage = "none" => ab[b].stage = "none"
    <3>1. ab \in [Ags -> AbRecord]
      BY DEF TypeOK, AgbotTypeOK
    <3> QED
      BY <1>4, <3>1 DEF AgbotRestart, AbRecord
  <2>2. UNCHANGED <<net, agentVars>>
    BY <1>4 DEF AgbotRestart
  <2> QED
    BY <2>1, <2>2, AgentAlone
<1> QED
  BY <1>1, <1>2, <1>3, <1>4, RestartExchange DEF Environment

\* The exchange shows nothing as an agreement of the node but what the node has
\* accepted and not archived, or is still trying to take out, through any number
\* of losses, failed calls and restarts of either side, as long as no handled
\* message is handled again (RecordReply, cancelAgreement, CleanupStatusCommand,
\* syncOnInit; section 3 of the README has what redelivery does).
THEOREM ExchangeIsTruthful == ASSUME MaxDup = 0 PROVE Spec => []ExchangeMatchesAgent
<1>1. Init => ExchangeInv
  <2> SUFFICES ASSUME Init PROVE ExchangeInv
    OBVIOUS
  <2>1. \A a \in Ags : Untouched(a) /\ ~Proposed(a) /\ ShownRightly(a)
    BY DEF Init, Untouched, Proposed, ShownRightly, Ending, NoEaRecord
  <2> QED
    BY <2>1 DEF Init, ExchangeInv, OneProposal, DeclinesWhatItHas
<1>2. TypeOK /\ ExchangeInv /\ [Next]_vars => ExchangeInv'
  <2> SUFFICES ASSUME TypeOK, ExchangeInv, [Next]_vars PROVE ExchangeInv'
    OBVIOUS
  <2>1. CASE UNCHANGED vars
    BY <2>1, AgentAlone DEF vars, agbotVars
  <2>2. CASE Agent
    BY <2>2, AgentActionExchange, AgentMessageExchange, PersistExchange, DeclineExchange DEF Agent
  <2> QED
    BY <2>1, <2>2, AgbotExchange, EnvironmentExchange DEF Next
<1>3. TypeOK /\ ExchangeInv => ExchangeMatchesAgent
  BY DEF TypeOK, AgentTypeOK, ExchangeInv, ShownRightly, ExchangeMatchesAgent
<1> QED
  BY <1>1, <1>2, <1>3, TypeCorrect, PTL DEF Spec
=============================================================================
