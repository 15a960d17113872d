SPECIFICATION FairProcessSpec
CONSTANTS
  Root = root
  Proc = {root, p, q}
INVARIANTS
  AnswerHonest
  ErrorsNotMasked
PROPERTIES
  Returns
CHECK_DEADLOCK FALSE
