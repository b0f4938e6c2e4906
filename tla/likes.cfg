CONSTANTS
  i1 = i1
  i2 = i2
  v1 = v1
  v2 = v2
  Instances = {i1, i2}
  Viewers = {v1, v2}
  Limit = 1
  MaxCalls = 3
  MaxFaults = 1
SPECIFICATION Spec
SYMMETRY Alike
INVARIANTS TypeOK GateCounts NeverOvercounts CountIsExact AnswerIsTrue NobodyIsStranded
CHECK_DEADLOCK FALSE
