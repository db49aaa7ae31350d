SPECIFICATION Spec
CONSTANTS
  Ags = {a1, a2}
  NoMsg = NoMsg
  VerLimit = 1
  MaxLoss = 0
  MaxDup = 1
  MaxAgbotCrash = 1
  MaxAgentCrash = 0
  MaxChoice = 0
SYMMETRY Symmetry
CONSTRAINT FewInFlight
INVARIANT AtMostOneActive
PROPERTY SlotSpec
\* The ids run out and the system rests.
CHECK_DEADLOCK FALSE
