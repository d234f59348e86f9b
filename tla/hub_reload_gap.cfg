SPECIFICATION Spec
CONSTANTS
  a = a
  b = b
  h = h
  p = p
  Consumers <- Viewers
  SingleAttempt <- Nobody
  Http <- Nobody
  Channel2 = FALSE
  Variants <- Unknown
  Rivals <- NoRivals
  SlowJoins = TRUE
  Profiles = 1
  MaxWorkers = 2
  MaxQueue = 2
INVARIANTS
  ReloadApplied
