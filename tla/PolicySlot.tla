----------------------------- MODULE PolicySlot -----------------------------
(***************************************************************************)
(* What the agent promises about the agreements it makes for one           *)
(* deployment policy: there is one slot.  It is taken only when it is free *)
(* and it is freed before another agreement gets it; no agreement is ever  *)
(* replaced by another one in a single step.                               *)
(***************************************************************************)
CONSTANT Ags    \* agreement ids

VARIABLE slot   \* the agreements that hold the slot

Init == slot = {}

Take(a) == slot = {} /\ slot' = {a}

Release(a) == slot = {a} /\ slot' = {}

Next == \E a \in Ags : Take(a) \/ Release(a)

Spec == Init /\ [][Next]_slot
=============================================================================
