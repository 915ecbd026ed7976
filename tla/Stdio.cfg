\* The SDK over stdio and another frontend on one session key.
SPECIFICATION StdioSpec
CONSTANTS
  Sdk = sdk
  Clients = {sdk, c1}
  MaxTasks = 2
  MaxMsgs = 3
  QueueCap = 2
  MaxFails = 1
  MaxPanics = 1
INVARIANTS LostOnlyWithSession OrderedInOne
PROPERTIES InterruptStops EverySettled
CHECK_DEADLOCK FALSE
