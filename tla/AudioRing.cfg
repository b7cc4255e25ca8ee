\* Four reads with every outcome; the program stops where the bound on the
\* number of reads stops it.
CONSTANTS
  PERIOD = 2
  BUF_SIZE = 4
  CHUNKS = 2
  UINT = 32
  ReadOutcomes <- AnyOutcome
  MaxReads = 4
  Junk = Junk

SPECIFICATION FairSpec

CHECK_DEADLOCK FALSE

INVARIANTS
  TypeOK
  CopyInBounds
  NeverAhead
  MicInRing
  NoJunkPlayed

PROPERTIES
  BacklogDrained
