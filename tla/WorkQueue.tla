------------------------------ MODULE WorkQueue ------------------------------
(***************************************************************************)
(* The agbot's PrioritizedWorkQueue (agreementbot/prioritized_workqueue.go) *)
(* between the threads that make work (message dispatch, governance, node   *)
(* search) and the agreement workers.  Its goroutine run() moves items from *)
(* two inbound channels into two buffers and hands the head of a buffer to  *)
(* a worker.  run() decides which head it offers, and whether it listens to *)
(* the low priority channel, BEFORE it blocks in its select: both decisions *)
(* are kept in variables, and may be stale when a case is chosen.           *)
(***************************************************************************)
EXTENDS Naturals, Sequences, FiniteSets

CONSTANTS HighItems,   \* the high priority work items
          LowItems,    \* the low priority work items
          Senders,     \* threads that queue work
          Workers,     \* agreement worker threads
          BufferSize,  \* AgreementQueueSize of the configuration
          MayClose,    \* whether Close() is called
          NoWork         \* no item

Items == HighItems \cup LowItems

ASSUME QueueAssumption ==
  /\ HighItems \cap LowItems = {}
  /\ NoWork \notin Items
  /\ BufferSize \in Nat \ {0}
  /\ IsFiniteSet(Senders)
  /\ MayClose \in BOOLEAN

VARIABLES inboundHigh, inboundLow,   \* contents of the inbound channels
          bufferHigh, bufferLow,     \* workQueueBufferHigh, workQueueBufferLow
          closed,                    \* Close() closed the inbound channels
          highOpen, lowOpen,         \* run() has not replaced the channel by nil
          queuePc, offer, lowCase,        \* run(): its place, whichInbound, inLowChan # nil
          sender,                    \* what each sender does: [at, item]
          held                       \* the item each worker works on

chans == <<inboundHigh, inboundLow>>
buffers == <<bufferHigh, bufferLow>>
openings == <<closed, highOpen, lowOpen>>
choice == <<queuePc, offer, lowCase>>
queueVars == <<chans, buffers, openings, choice, sender, held>>

SenderState == [at : {"out", "paused", "ready"}, item : Items \cup {NoWork}]
Out == [at |-> "out", item |-> NoWork]

QueueTypeOK ==
  /\ inboundHigh \in Seq(HighItems) /\ inboundLow \in Seq(LowItems)
  /\ bufferHigh \in Seq(HighItems) /\ bufferLow \in Seq(LowItems)
  /\ closed \in BOOLEAN /\ highOpen \in BOOLEAN /\ lowOpen \in BOOLEAN
  /\ queuePc \in {"loop", "select", "done"}
  /\ offer \in {"none", "high", "low"} /\ lowCase \in BOOLEAN
  /\ sender \in [Senders -> SenderState]
  /\ held \in [Workers -> Items \cup {NoWork}]

\* NewPrioritizedWorkQueue: everything empty, run() started.
QueueInit ==
  /\ inboundHigh = <<>> /\ inboundLow = <<>>
  /\ bufferHigh = <<>> /\ bufferLow = <<>>
  /\ closed = FALSE /\ highOpen = TRUE /\ lowOpen = TRUE
  /\ queuePc = "loop" /\ offer = "none" /\ lowCase = FALSE
  /\ sender = [s \in Senders |-> Out]
  /\ held = [w \in Workers |-> NoWork]

-----------------------------------------------------------------------------
(* Senders *)

ElementsOf(q) == {q[k] : k \in 1..Len(q)}

\* Items in hand somewhere; an item is queued again only after it was worked on.
InFlight ==
  ElementsOf(inboundHigh) \cup ElementsOf(inboundLow) \cup ElementsOf(bufferHigh)
    \cup ElementsOf(bufferLow) \cup {sender[s].item : s \in Senders} \cup {held[w] : w \in Workers}

HighAtDepth == Len(bufferHigh) > BufferSize
LowAtDepth == Len(bufferLow) > BufferSize

AtDepth(i) == IF i \in HighItems THEN HighAtDepth ELSE LowAtDepth

\* InboundHigh(), InboundLow(): the caller gets the channel at once, or sleeps
\* while the buffer is at depth.  Sending after Close() would panic; the
\* program has no such call.
Inbound(s, i) ==
  /\ sender[s] = Out
  /\ ~closed
  /\ i \notin InFlight
  /\ sender' = [sender EXCEPT ![s] = [at |-> IF AtDepth(i) THEN "paused" ELSE "ready", item |-> i]]
  /\ UNCHANGED <<chans, buffers, openings, choice, held>>

\* blockHighAtDepth, blockLowAtDepth: the loop ends when the buffer is below depth.
Unblock(s) ==
  /\ sender[s].at = "paused"
  /\ ~AtDepth(sender[s].item)
  /\ sender' = [sender EXCEPT ![s].at = "ready"]
  /\ UNCHANGED <<chans, buffers, openings, choice, held>>

\* The send on the channel, which has room for BufferSize items.
Send(s) ==
  /\ sender[s].at = "ready"
  /\ sender' = [sender EXCEPT ![s] = Out]
  /\ \/ /\ sender[s].item \in HighItems
        /\ Len(inboundHigh) < BufferSize
        /\ inboundHigh' = Append(inboundHigh, sender[s].item)
        /\ UNCHANGED inboundLow
     \/ /\ sender[s].item \in LowItems
        /\ Len(inboundLow) < BufferSize
        /\ inboundLow' = Append(inboundLow, sender[s].item)
        /\ UNCHANGED inboundHigh
  /\ UNCHANGED <<buffers, openings, choice, held>>

\* Close(), after the last send.
Close ==
  /\ MayClose /\ ~closed
  /\ \A s \in Senders : sender[s] = Out
  /\ closed' = TRUE
  /\ UNCHANGED <<chans, buffers, highOpen, lowOpen, choice, sender, held>>

-----------------------------------------------------------------------------
(* run() *)

\* The head that the select will offer to the workers.
BestOffer ==
  IF bufferHigh # <<>> THEN "high" ELSE IF bufferLow # <<>> THEN "low" ELSE "none"

\* Mutant: run() ends as soon as the channel is closed.
PrepareEndsEarly ==
  /\ queuePc = "loop"
  /\ IF ~highOpen
       THEN queuePc' = "done" /\ UNCHANGED <<offer, lowCase>>
       ELSE /\ queuePc' = "select"
            /\ offer' = BestOffer
            /\ lowCase' = (lowOpen /\ inboundHigh = <<>>)
  /\ UNCHANGED <<chans, buffers, openings, sender, held>>

\* The top of the loop: end, or decide what the select may do.
Prepare ==
  /\ queuePc = "loop"
  /\ IF ~highOpen /\ bufferHigh = <<>>
       THEN queuePc' = "done" /\ UNCHANGED <<offer, lowCase>>
       ELSE /\ queuePc' = "select"
            /\ offer' = BestOffer
            /\ lowCase' = (lowOpen /\ inboundHigh = <<>>)
  /\ UNCHANGED <<chans, buffers, openings, sender, held>>

\* case i, ok := <-n.inboundHigh
ReceiveHigh ==
  /\ queuePc = "select" /\ highOpen
  /\ \/ /\ inboundHigh # <<>>
        /\ bufferHigh' = Append(bufferHigh, Head(inboundHigh))
        /\ inboundHigh' = Tail(inboundHigh)
        /\ UNCHANGED highOpen
     \/ /\ inboundHigh = <<>> /\ closed
        /\ highOpen' = FALSE
        /\ UNCHANGED <<bufferHigh, inboundHigh>>
  /\ queuePc' = "loop"
  /\ UNCHANGED <<inboundLow, bufferLow, closed, lowOpen, offer, lowCase, sender, held>>

\* case i, ok := <-inLowChan
ReceiveLow ==
  /\ queuePc = "select" /\ lowCase
  /\ \/ /\ inboundLow # <<>>
        /\ bufferLow' = Append(bufferLow, Head(inboundLow))
        /\ inboundLow' = Tail(inboundLow)
        /\ UNCHANGED lowOpen
     \/ /\ inboundLow = <<>> /\ closed
        /\ lowOpen' = FALSE
        /\ UNCHANGED <<bufferLow, inboundLow>>
  /\ queuePc' = "loop"
  /\ UNCHANGED <<inboundHigh, bufferHigh, closed, highOpen, offer, lowCase, sender, held>>

\* Mutant: the head is handed over and stays in the buffer.
RemoveHeadNot(q) == q
\* RemoveHighPriorityBufferHead, RemoveLowPriorityBufferHead
RemoveHead(q) == Tail(q)

\* case recvChan <- recvVal, with a worker blocked in its receive.
Dispatch(w) ==
  /\ queuePc = "select" /\ held[w] = NoWork
  /\ \/ /\ offer = "high"
        /\ held' = [held EXCEPT ![w] = Head(bufferHigh)]
        /\ bufferHigh' = RemoveHead(bufferHigh)
        /\ UNCHANGED bufferLow
     \/ /\ offer = "low"
        /\ held' = [held EXCEPT ![w] = Head(bufferLow)]
        /\ bufferLow' = RemoveHead(bufferLow)
        /\ UNCHANGED bufferHigh
  /\ queuePc' = "loop"
  /\ UNCHANGED <<chans, openings, offer, lowCase, sender>>

\* A worker ends with its item and blocks for the next one.
Finish(w) ==
  /\ held[w] # NoWork
  /\ held' = [held EXCEPT ![w] = NoWork]
  /\ UNCHANGED <<chans, buffers, openings, choice, sender>>

Run == Prepare \/ ReceiveHigh \/ ReceiveLow

QueueNext ==
  \/ \E s \in Senders : (\E i \in Items : Inbound(s, i)) \/ Unblock(s) \/ Send(s)
  \/ Close
  \/ Run
  \/ \E w \in Workers : Dispatch(w) \/ Finish(w)

QueueSpec == QueueInit /\ [][QueueNext]_queueVars

(* Go chooses among the ready cases of a select at random, so a case that is
   ready again and again is chosen, and a channel serves its blocked senders
   in order: strong fairness.  The goroutines run.  A sender that sleeps while
   the buffer is at depth has no fairness: each of its polls may come too late. *)
QueueFairness ==
  /\ WF_queueVars(Prepare)
  /\ SF_queueVars(ReceiveHigh)
  /\ SF_queueVars(\E w \in Workers : Dispatch(w))
  /\ \A w \in Workers : WF_queueVars(Finish(w))
  /\ \A s \in Senders : SF_queueVars(Send(s))

QueueFairSpec == QueueSpec /\ QueueFairness

-----------------------------------------------------------------------------
(* Properties *)

\* The queue implements two lines of work: the contents of a channel follow
\* the contents of the buffer it is emptied into.
Fifo == INSTANCE PriorityFifo WITH
          high <- bufferHigh \o inboundHigh, low <- bufferLow \o inboundLow
FifoSpec == Fifo!Spec

Ready(P) == {s \in Senders : sender[s].at = "ready" /\ sender[s].item \in P}

\* "bufferSize: the (rough) maximum queue depth": what is queued, with the
\* senders that already passed the depth check, is at most twice the buffer
\* size and one item for each sender.
DepthBound ==
  /\ Len(bufferHigh) + Len(inboundHigh) + Cardinality(Ready(HighItems)) <= 2 * BufferSize + Cardinality(Senders)
  /\ Len(bufferLow) + Len(inboundLow) + Cardinality(Ready(LowItems)) <= 2 * BufferSize + Cardinality(Senders)

\* A worker is never handed low priority work while high priority work is
\* buffered, although run() chose what to offer before its select.
HighFirst ==
  [][\A w \in Workers : held[w] = NoWork /\ held'[w] \in LowItems => bufferHigh = <<>>]_queueVars

\* The high priority items that are past the depth check.
QueuedHigh ==
  ElementsOf(inboundHigh) \cup ElementsOf(bufferHigh) \cup {sender[s].item : s \in Ready(HighItems)}

\* High priority work that is past the depth check reaches a worker, however
\* much low priority work arrives.
HighReachesWorker ==
  \A i \in HighItems : (i \in QueuedHigh) ~> (\E w \in Workers : held[w] = i)
=============================================================================
