\* Three runs, one of them completed before, a crash or a failed operation anywhere.
SPECIFICATION Spec
CONSTANTS
  Run = {1, 2, 3}
  Existing = {1}
  Retention = 1
  MaxTime = 1
  MaxFaults = 1
INVARIANTS
  RetentionExact
  CompletionCovered
PROPERTIES
  ActiveNeverRemoved
CHECK_DEADLOCK FALSE
