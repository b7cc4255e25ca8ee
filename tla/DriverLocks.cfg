\* The application, the interrupt thread and the monitor, with three calls
\* between them; the monitor goes on for ever.
CONSTANTS
  App = App
  Isr = Isr
  Monitor = Monitor
  Unlocked = Unlocked
  Garbage = Garbage
  Transactions <- OneOrTwo
  Sent <- SentBytes
  Lengths <- ShortAndLong
  Interval = 1
  MaxCalls = 3

SPECIFICATION FairSpec

INVARIANTS
  TypeOK
  TransactionWhole
  CreatedBeforeUse
  Conserved
  HolderRuns

PROPERTIES
  ImplementsStats
  CallsReturn
  EveryByteReported
