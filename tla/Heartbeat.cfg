\* One session: a day of four hours, three versions of the file.
CONSTANTS
  Day = 4
  Settings <- SomeSettings
  MaxSaves = 3
SPECIFICATION HeartbeatSpec
PROPERTIES FreshRuns YieldsToUser RunsServed
