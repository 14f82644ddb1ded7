\* Two threads and no queue; a call may hang in its file system, another has no method.
SPECIFICATION FairSpec
CONSTANTS
  c1 = c1
  h1 = h1
  m1 = m1
  Calls = {c1}
  Hangs = {h1}
  NoMethods = {m1}
  NoIds = {}
  Crashes = {}
  Garbages = {}
  Request <- MCRequest
  Kind <- MCKind
  MaxThreads = 2
  MaxQueued = 0
  PipeCap = 1
  Faults = {}
  STOP = STOP
  NoReq = NoReq
INVARIANTS
  ReaderStaysOnPipe
PROPERTIES
  ExitsWithClient
  OthersAnswered
