\* An application that writes, listens and sends while it listens, with
\* memory that may run out; the bounds stop the program.
CONSTANTS
  Ops <- DuplexOps
  MaxOps = 3
  MaxPackets = 3
  Corrupt <- NoneCorrupt
  FifoDepth = 2
  QSize = 1
  DynPayloads = FALSE
  MallocMayFail = TRUE
  NoQueue = NoQueue

SPECIFICATION FairSpec

CHECK_DEADLOCK FALSE

INVARIANTS
  ListeningIsReal
  QueueReady

PROPERTIES
  WriteReturns
