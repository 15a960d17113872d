\* A runner that exits with 0 and lists a test that failed, and the receipt it ends in.
SPECIFICATION Spec
CONSTANTS
  Tasks <- MCTasks
  Test = {1, 2}
  MaxShown = 1
  MaxEdits = 0
INVARIANT CleanSawNoFailure
CHECK_DEADLOCK FALSE
