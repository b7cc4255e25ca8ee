\* The driver's use: the interrupt thread adds without blocking, two
\* receivers remove with or without blocking.
CONSTANTS
  e1 = e1
  e2 = e2
  r1 = r1
  r2 = r2
  Element = {e1, e2}
  NULL = NULL
  Garbage = Garbage
  NoThread = NoThread
  Adders = {isr}
  Removers = {r1, r2}
  AddModes <- OnlyNonBlocking
  RemoveModes <- AnyMode
  QSize = 2

SPECIFICATION FairSpec

INVARIANTS
  TypeOK
  NoLostWakeup

PROPERTIES
  ImplementsFifo
  NoRemoverStuck
