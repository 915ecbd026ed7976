\* Two callers; the safety properties speak of the behaviours without overlap.
SPECIFICATION RunnerFairSpec
CONSTANTS
  Callers = {c1, c2}
  Ops = {"start", "stop", "restart"}
  MaxOps = 3
  MaxPanics = 1
INVARIANTS NoOverlap
PROPERTIES AnswersSound Converges
CHECK_DEADLOCK FALSE
