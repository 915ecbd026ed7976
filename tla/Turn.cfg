\* Two turns, two keys, one fallback model.
CONSTANTS
  Jobs = {j1}
  MaxSubTurns = 2
  MaxCalls = 2
  MaxReplies = 2
  MaxHistory = 3
  Keys = 2
  Fallbacks = 1
  MaxCompact = 2
  MaxSummaryFailures = 1
  MaxTurns = 2
  MaxFaults = 2
SPECIFICATION Spec
INVARIANTS HistorySound
PROPERTIES AllKeysTried TurnEnds
CHECK_DEADLOCK FALSE
