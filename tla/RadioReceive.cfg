\* An application that receives, with dynamic payloads, a corrupt packet and
\* a queue that three packets overflow; the bounds stop the program.
CONSTANTS
  Ops <- ReceiverOps
  MaxOps = 4
  MaxPackets = 3
  Corrupt <- SecondCorrupt
  FifoDepth = 3
  QSize = 1
  DynPayloads = TRUE
  MallocMayFail = FALSE
  NoQueue = NoQueue

SPECIFICATION FairSpec

CHECK_DEADLOCK FALSE

INVARIANTS
  TypeOK
  IrqArmed
  InOrder
  PhantomsExplained

PROPERTIES
  IsrReturns
