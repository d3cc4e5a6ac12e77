CONSTANTS
  Grace = 1
  DhcpRestart = 1
  Reconnect = 2
  ReconnectMax = 4
  BackoffCap = 1
  RetryLimit = 2
  Window = 3
  MaxFaults = 2
  MaxAsks = 1
SPECIFICATION FairSpec
INVARIANTS
  StatusSound
  SetupIsTimed
PROPERTIES
  RejoinsBackOff
  AddressComesBack
