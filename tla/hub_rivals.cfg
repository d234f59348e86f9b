SPECIFICATION Spec
CONSTANTS
  a = a
  b = b
  h = h
  p = p
  Consumers <- ViewersReader
  SingleAttempt <- Nobody
  Http <- Reader
  Channel2 = TRUE
  Variants <- Every
  Rivals <- RivalNames
  SlowJoins = TRUE
  Profiles = 2
  MaxWorkers = 2
  MaxQueue = 1
INVARIANTS
  ReadyIsLive
  TrialExclusive
  OneMediaWorker
  ChannelExclusive
  SecondPanelExclusive
PROPERTIES
  ImplementsLease
