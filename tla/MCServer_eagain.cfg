\* One thread and no queue, and a client that sends a call only when it has received the
\* answer of the one before: Capacity is 1.
SPECIFICATION PatientSpec
CONSTANTS
  c1 = c1
  c2 = c2
  Calls = {c1, c2}
  Hangs = {}
  NoMethods = {}
  NoIds = {}
  Crashes = {}
  Garbages = {}
  Request <- MCRequest
  Kind <- MCKind
  MaxThreads = 1
  MaxQueued = 0
  PipeCap = 2
  Faults = {}
  STOP = STOP
  NoReq = NoReq
PROPERTIES
  NoSpuriousEAGAIN
