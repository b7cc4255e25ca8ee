\* Two packets for an application that only listens; the bounds stop the program.
CONSTANTS
  Ops <- ListenOps
  MaxOps = 1
  MaxPackets = 2
  Corrupt <- NoneCorrupt
  FifoDepth = 2
  QSize = 2
  DynPayloads = FALSE
  MallocMayFail = FALSE
  NoQueue = NoQueue

SPECIFICATION Spec

CHECK_DEADLOCK FALSE

INVARIANTS
  NotStranded
