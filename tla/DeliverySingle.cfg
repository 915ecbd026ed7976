\* One runner, with a crash and a file error, under the runner's fairness.
SPECIFICATION FairSpec
CONSTANTS
  m1 = m1
  m2 = m2
  NoId = NoId
  Msgs = {m1, m2}
  ChunksOf <- OneOfEach
  Runners = {r1}
  MaxRetries = 2
  MaxFaults = 1
  MaxRestarts = 1
INVARIANTS NoLoss DuplicatesExcused FailedJustified
PROPERTIES BackoffRespected RefinesOutbox
CHECK_DEADLOCK FALSE
