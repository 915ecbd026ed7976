CONSTANTS
  DefaultAgent = "a1"
  Agents = {"a1", "a2"}
  Users = {"u"}
  Chats = {"dm", "hall"}
  GuildOf <- MCGuildOf
  InFile <- MCInFile
  Admin <- MCAdmin
  QueueCap = 1
  MaxMsgs = 2
  MaxFaults = 1
  MaxSets = 1
SPECIFICATION Spec
INVARIANTS EventsOnce AnsweredInChat Routed
PROPERTIES ReconnectsUnlessStuck
CHECK_DEADLOCK FALSE
