SPECIFICATION FairSpec
CONSTANTS
  a = a
  b = b
  h = h
  p = p
  Consumers <- ViewersPhoto
  SingleAttempt <- Photo
  Http <- Nobody
  Channel2 = FALSE
  Variants <- R001Only
  Rivals <- NoRivals
  SlowJoins = FALSE
  Profiles = 1
  MaxWorkers = 2
  MaxQueue = 1
PROPERTIES
  StopCompletes
  DeviceReleased
  AcquireAnswered
  RingOnlySettles
