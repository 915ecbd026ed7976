\* Two agents whose task and worktree operations interleave, or one whose updates name
\* several blockers and dependents and a status at once.
SPECIFICATION MCSpec
CONSTANTS
  Agents = {a1, a2}
  MaxTasks = 2
  MaxOps = 3
  MaxChanges = 3
  MaxFaults = 1
  NoOwner = NoOwner
  Names = {w1}
  MaxTrees = 3
  NoTask = NoTask
INVARIANTS EdgesMirrored TreesListed
PROPERTIES UnblocksOnComplete ClaimSound RemovalCompletes
SYMMETRY AgentSymmetry
CHECK_DEADLOCK FALSE
