SPECIFICATION FairSpec
CONSTANTS
  c1 = c1
  c2 = c2
  c3 = c3
  p1 = p1
  p2 = p2
  p3 = p3
  Call = {c1, c2}
  Process = {p1, p2}
  Pid = {1, 2}
  ProcOf <- PairProcOf
  PidOf <- PairPidOf
  Missing = Missing
  Invalid = Invalid
  MaxAttempts = 2
  MaxFaults = 2
INVARIANTS
  WritesMatchReads
PROPERTIES
  ImplementsAbstract CallsSettle GuardNotLeaked
CHECK_DEADLOCK FALSE
