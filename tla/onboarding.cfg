SPECIFICATION Spec
CONSTANTS
  f1 = f1
  f2 = f2
  e1 = e1
  e2 = e2
  v1 = v1
  h1 = h1
  h2 = h2
  c1 = c1
  c2 = c2
  c3 = c3
  c4 = c4
  d1 = d1
  None = None
  Flows <- TwoFlows
  Entries <- ThreeEntries
  Legacy <- LegacyEntries
  Discovery <- DiscoveryEntries
  Hosts <- TwoHosts
  Certs <- FourCerts
  Trusted <- SomeTrusted
  Special <- OneSpecial
  Unfit <- OneUnfit
  Devices <- OneDevice
  Forms <- SomeForms
  MaxStimuli = 3
SYMMETRY Anyone
INVARIANTS
  ConsentIsFresh
  OneEntryPerCloudDevice
PROPERTIES
  NothingClobbered
  ApprovedIsPinned
CHECK_DEADLOCK FALSE
