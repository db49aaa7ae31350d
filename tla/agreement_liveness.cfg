SPECIFICATION FairSpec
CONSTANTS
  Ags = {a1}
  NoMsg = NoMsg
  VerLimit = 1
  MaxLoss = 0
  MaxDup = 0
  MaxAgbotCrash = 0
  MaxAgentCrash = 0
  MaxChoice = 1
PROPERTY TimeoutCancels
PROPERTY GivenUpByBoth
\* The ids run out and the system rests.
CHECK_DEADLOCK FALSE
