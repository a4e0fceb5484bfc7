SPECIFICATION FairSpec
CONSTANTS
  Connects = {c1}
  Activates = {}
  Disconnects = {d1}
  Deletes = {}
  WifiProfiles = {w1}
  EthernetProfiles = {}
  NoProfile = NoProfile
  NoRequest = NoRequest
  RequestTimeout = 2
  ActivationTimeout = 1
  CheckpointTimeout = 3
INVARIANTS
  TypeOK
  AcceptedDetailsAreOwn
  RolledBackLeavesNothing
PROPERTIES
  EveryRequestEnds
  UnverifiedConnectIsUndone
