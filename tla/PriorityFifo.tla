---------------------------- MODULE PriorityFifo ----------------------------
(***************************************************************************)
(* What the agbot's work queue promises its users: two first-in first-out  *)
(* lines of work, one of each priority.  A sender adds an item at the end  *)
(* of the line of its priority and a worker is handed the head of a line,  *)
(* so nothing is lost, repeated or overtaken within a priority.            *)
(***************************************************************************)
EXTENDS Sequences

CONSTANTS HighItems, LowItems, Workers, NoWork

VARIABLES high, low, held

vars == <<high, low, held>>

Init == /\ high = <<>>
        /\ low = <<>>
        /\ held = [w \in Workers |-> NoWork]

Put == \/ \E i \in HighItems : high' = Append(high, i) /\ UNCHANGED <<low, held>>
       \/ \E i \in LowItems : low' = Append(low, i) /\ UNCHANGED <<high, held>>

TakeHigh(w) == /\ high # <<>>
               /\ high' = Tail(high)
               /\ held' = [held EXCEPT ![w] = Head(high)]
               /\ UNCHANGED low

TakeLow(w) == /\ low # <<>>
              /\ low' = Tail(low)
              /\ held' = [held EXCEPT ![w] = Head(low)]
              /\ UNCHANGED high

Take(w) == held[w] = NoWork /\ (TakeHigh(w) \/ TakeLow(w))

Finish(w) == held' = [held EXCEPT ![w] = NoWork] /\ UNCHANGED <<high, low>>

Next == Put \/ \E w \in Workers : Take(w) \/ Finish(w)

Spec == Init /\ [][Next]_vars
=============================================================================
