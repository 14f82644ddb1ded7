\* Any set of inherited descriptors, options at the edges of their ranges.
SPECIFICATION StartSpec
CONSTANTS
  MaxFd = 5
  MaxInt = 7
  PipeFds <- EdgePipes
  Limits <- EdgeLimits
  BatchSize = 3
  StartFaults = {"open", "fdopendir", "close"}
INVARIANTS
  CleanStart
  RejectsAtLimit
CHECK_DEADLOCK FALSE
