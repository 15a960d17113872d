\* A request for two capabilities, one of which has no run.
SPECIFICATION ReviewSpec
CONSTANTS
  h1 = h1
  p1 = p1
  p2 = p2
  r1 = r1
  Null = Null
  Revision = {h1, h2}
  Path = {p1, p2}
  Foreign = {p2}
  Rule = {r1}
  Base <- MCBase
  Input <- MCInput
  Second <- MCSecond
  Request <- MCRequest
  Listing <- MCListing
INVARIANT OmittedIsLoss
CHECK_DEADLOCK FALSE
