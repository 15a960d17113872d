SPECIFICATION Spec
CONSTANTS
  c1 = c1
  c2 = c2
  c3 = c3
  p1 = p1
  p2 = p2
  p3 = p3
  Call = {c1, c2, c3}
  Process = {p1, p2, p3}
  Pid = {1, 2}
  ProcOf <- ReuseProcOf
  PidOf <- ReusePidOf
  Missing = Missing
  Invalid = Invalid
  MaxAttempts = 2
  MaxFaults = 0
INVARIANTS
  MutualExclusion
PROPERTIES
  OnlyDeadOrOwnRecordRemoved
CHECK_DEADLOCK FALSE
