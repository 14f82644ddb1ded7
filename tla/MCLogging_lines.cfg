\* The program's own messages and a path that holds a line end; reads that cut lines anywhere,
\* a child that dies anywhere, no memory at times.
SPECIFICATION FairSpec
CONSTANTS
  Texts <- MCTexts
  MaxMessages = 3
  MaxChildren = 2
  ReadSize = 4
  Faults = {"crash", "malloc"}
INVARIANTS
  NoRawLogData
  ReportedInOrder
PROPERTIES
  LogThreadStops
CHECK_DEADLOCK FALSE
