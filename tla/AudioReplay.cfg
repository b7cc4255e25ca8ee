\* Whole reads only: the races alone break the property.
CONSTANTS
  PERIOD = 2
  BUF_SIZE = 8
  CHUNKS = 2
  UINT = 32
  ReadOutcomes <- FullReads
  MaxReads = 4
  Junk = Junk

SPECIFICATION Spec

CHECK_DEADLOCK FALSE

INVARIANT
  PlayedInOrder
