\* Blocking calls on both ends, as in tsqtest.c, by as many threads as a
\* queue of two elements supports.
CONSTANTS
  e1 = e1
  e2 = e2
  r1 = r1
  r2 = r2
  Element = {e1, e2}
  NULL = NULL
  Garbage = Garbage
  NoThread = NoThread
  Adders = {a1, a2}
  Removers = {r1, r2}
  AddModes <- OnlyBlocking
  RemoveModes <- OnlyBlocking
  QSize = 2

SPECIFICATION Spec

SYMMETRY Symmetry

INVARIANTS
  RingInv
  MutexOK
  NotAllAsleep
