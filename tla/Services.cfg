\* A terminal and a websocket client, a crash and a fault.
SPECIFICATION FairSpec
CONSTANTS
  Callers = {c1, c2}
  Remote = {c2}
  Boot = Boot
  Missing = Missing
  Bad = Bad
  Confs <- SomeConfs
  MaxOps = 2
  MaxCrashes = 1
  MaxFaults = 1
INVARIANTS Agreement IntentKept
PROPERTIES ControlReturns
CHECK_DEADLOCK FALSE
