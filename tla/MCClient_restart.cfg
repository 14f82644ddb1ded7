\* Two calls, a child that may die twice, close() at any time, and descriptors that are
\* given to other files after it.
SPECIFICATION FairSpec
CONSTANTS
  c1 = c1
  c2 = c2
  Call = {c1, c2}
  MaxGen = 3
  Chunks = 1
  Faults = {"crash", "timeout", "fdreuse", "close"}
  NoMsg = NoMsg
INVARIANTS
  NoLostWakeup
PROPERTIES
  RegisteredAnswered
  ChildReplaced
  CloseReturns
