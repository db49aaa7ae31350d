\* A message or a call is lost or the agent stops, once.
SPECIFICATION CleanupSpec
CONSTANTS
  Ags = {a1}
  NoMsg = NoMsg
  VerLimit = 1
  MaxLoss = 1
  MaxDup = 0
  MaxAgbotCrash = 0
  MaxAgentCrash = 1
  MaxChoice = 0
CONSTRAINT OneFault
INVARIANTS ExchangeMatchesAgent
PROPERTY CancelCompletes
\* The ids run out and the system rests.
CHECK_DEADLOCK FALSE
