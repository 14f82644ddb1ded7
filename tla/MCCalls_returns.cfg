\* Every Python method, every raw request with arguments that are right, wrong or missing.
SPECIFICATION Spec
CONSTANTS
  Sent = {"string", "long", "boolean", "double", "missing"}
  Faults = {"crash", "timeout", "memalign"}
INVARIANTS
  WrappersAgree
  HonestReturn
