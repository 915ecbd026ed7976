\* One teammate and the lead, either may answer, with a failed write and a restart.
SPECIFICATION FairSpec
CONSTANTS
  Names = {n1}
  Lead = Lead
  MaxOps = 2
  MaxFaults = 1
  MaxRestarts = 1
  WakeCap = 2
  Nothing = Nothing
INVARIANTS ApprovedHeeded ReawakenedServed
PROPERTY LoopServes
CHECK_DEADLOCK FALSE
