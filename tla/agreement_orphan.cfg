SPECIFICATION Spec
CONSTANTS
  Ags = {a1}
  NoMsg = NoMsg
  VerLimit = 1
  MaxLoss = 0
  MaxDup = 0
  MaxAgbotCrash = 0
  MaxAgentCrash = 0
  MaxChoice = 0
INVARIANT ArchivedWhenCleanedUp
\* The ids run out and the system rests.
CHECK_DEADLOCK FALSE
