\* A one-shot and two repeating jobs, with a failing file and restarts.
SPECIFICATION FairSpec
CONSTANTS
  once = once
  named = named
  every = every
  Jobs = {once, named, every}
  Slots <- NamedSlots
  Period <- Periods
  OneShots = {once}
  Threshold = 2
  MaxTime = 2
  MaxCmds = 2
  MaxFaults = 1
  MaxDowns = 1
  Bad = Bad
  NoJob = NoJob
INVARIANTS DisabledInTime CommandsDurable
PROPERTIES SlotOnce DueServed
CHECK_DEADLOCK FALSE
