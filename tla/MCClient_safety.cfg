\* Three calls, a child that may die once, calls that time out and a client that is closed.
SPECIFICATION Spec
CONSTANTS
  c1 = c1
  c2 = c2
  c3 = c3
  Call = {c1, c2, c3}
  MaxGen = 2
  Chunks = 1
  Faults = {"crash", "garbled", "timeout", "slow", "close"}
  NoMsg = NoMsg
SYMMETRY Symmetry
INVARIANTS
  OnePlace
  ResultIsOwn
  OneChild
PROPERTIES
  UsesChild
  ImplementsService
