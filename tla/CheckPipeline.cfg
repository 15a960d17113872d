\* Every result of two tasks, second pass, reruns and throws, while the working
\* tree is edited once.
SPECIFICATION FairSpec
CONSTANTS
  Tasks <- MCTasks
  Test = {1, 2}
  MaxShown = 1
  MaxEdits = 1
INVARIANTS
  CleanIsEarned FailureShows FindingsComplete ReceiptSettled
PROPERTY Ends
CHECK_DEADLOCK FALSE
