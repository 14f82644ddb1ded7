\* Every text of up to four values, well-formed or not; nodes that cannot be allocated.
SPECIFICATION Spec
CONSTANTS
  Scalar = {"long", "string"}
  Key <- MCKey
  MaxNodes = 4
  MaxDepth = 3
  Faults = {"malloc"}
INVARIANTS
  BuildsValue
  RoundTrip
  OwnedOnce
