\* Messages longer than the pipe, either process may stop at any point, no memory at times.
SPECIFICATION FairSpec
CONSTANTS
  short = short
  long = long
  wide = wide
  Request = {short, long, wide}
  Text <- MCText
  Size <- MCSize
  PipeCap = 3
  Faults = {"malloc"}
INVARIANTS
  FailsOnlyWithPeer
PROPERTIES
  ImplementsChannels
  CallCompletes
