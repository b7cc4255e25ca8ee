\* One packet for an application that starts and stops listening;
\* the bounds stop the program.
CONSTANTS
  Ops <- StopOps
  MaxOps = 2
  MaxPackets = 1
  Corrupt <- NoneCorrupt
  FifoDepth = 2
  QSize = 2
  DynPayloads = FALSE
  MallocMayFail = FALSE
  NoQueue = NoQueue

SPECIFICATION Spec

CHECK_DEADLOCK FALSE

INVARIANTS
  StopListeningStops
