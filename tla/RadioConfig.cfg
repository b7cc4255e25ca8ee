\* sender.c, receiver.c, and rf24_init_radio with four more calls in every
\* order; on both kinds of chip, fresh or used by an earlier run.  The
\* programs end, as the sender does.
CONSTANTS
  E1 <- F0E1
  C2 <- A1C2
  Pipes <- ThreePipes
  Addresses <- SomeAddresses
  Sizes = {5, 10, 40}
  Channels = {60, 200}
  MaxCalls = 30
  FreeCalls = 5

SPECIFICATION MCSpec

CHECK_DEADLOCK FALSE

INVARIANTS
  TypeOK
  SettingsKept
  VariantKnown
  SentWhereAsked
  FeatureIsOn
  OpenPipesKept
  SuiteVerdict
  SameSettings
  WidthsCurrent
