\* Two threads and one queue slot; allocation, thread creation and writes may fail,
\* one call crashes the process, and the client may send what is not a request.
SPECIFICATION Spec
CONSTANTS
  c1 = c1
  c2 = c2
  x1 = x1
  g1 = g1
  n1 = n1
  Calls = {c1, c2}
  Hangs = {}
  NoMethods = {}
  NoIds = {n1}
  Crashes = {x1}
  Garbages = {g1}
  Request <- MCRequest
  Kind <- MCKind
  MaxThreads = 2
  MaxQueued = 1
  PipeCap = 1
  Faults = {"malloc", "pthread", "write"}
  STOP = STOP
  NoReq = NoReq
SYMMETRY Symmetry
INVARIANTS
  SlotAccounting
  AdmissionBound
  AtMostOneResponse
  NoUseAfterFree
  DrainOnExit
  NodeLifetime
  ServerInv
PROPERTIES
  RejectionHonest
  ImplementsChild
