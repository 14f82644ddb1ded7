\* Two calls at a time, every pair of them.
SPECIFICATION FairSpec
CONSTANTS
  Op = {o1, o2}
  Calls <- MCCalls
  Names <- MCNames
  Contents <- MCContents
  Sizes <- MCSizes
  Accepted <- MCAccepted
  BlockSize = 2
  IntMax = 5
  Faults = {"open", "setup", "memalign", "read", "write", "fsync", "ftruncate", "futimens", "name", "unlink"}
INVARIANTS
  ReadBounded
  ProbeHonest
  NothingLeft
PROPERTIES
  ReadIsSnapshot
  WriteComplete
  CallReturns
