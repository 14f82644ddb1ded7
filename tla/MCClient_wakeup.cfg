\* A child dies while a request is being sent; the calls have no timeout.
SPECIFICATION FairSpec
CONSTANTS
  c1 = c1
  c2 = c2
  Call = {c1, c2}
  MaxGen = 2
  Chunks = 1
  Faults = {"crash"}
  NoMsg = NoMsg
PROPERTIES
  CallAnswered
CHECK_DEADLOCK FALSE
