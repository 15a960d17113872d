\* Contradicting observations of the tests, and the receipt they end in.
SPECIFICATION Spec
CONSTANTS
  Tasks <- MCTasks
  Test = {1, 2}
  MaxShown = 1
  MaxEdits = 0
INVARIANT FlakyReported
CHECK_DEADLOCK FALSE
