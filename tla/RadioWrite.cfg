\* An application that never listens writes one payload; the bounds stop the program.
CONSTANTS
  Ops <- WriteOps
  MaxOps = 2
  MaxPackets = 0
  Corrupt <- NoneCorrupt
  FifoDepth = 2
  QSize = 2
  DynPayloads = FALSE
  MallocMayFail = FALSE
  NoQueue = NoQueue

SPECIFICATION Spec

CHECK_DEADLOCK FALSE

INVARIANTS
  WriteResult
