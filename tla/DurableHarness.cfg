SPECIFICATION FairSpec
CONSTANTS
  NoClient = NoClient
  NoBinding = NoBinding
  Client = {c1, c2}
  Binding = {b1, b2}
  Id = {i1, i2}
  Attempt = {a1, a2}
  Never = {i1}
  MaxCalls = 1
  MaxFaults = 1
INVARIANTS
  Acknowledged
  ReportHonest
PROPERTIES
  ImplementsAbstract
  OperationsEnd
CHECK_DEADLOCK FALSE
