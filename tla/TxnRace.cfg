SPECIFICATION Spec
CONSTANTS
  Connects = {c1}
  Activates = {a1}
  Disconnects = {}
  Deletes = {x1}
  WifiProfiles = {}
  EthernetProfiles = {}
  NoProfile = NoProfile
  NoRequest = NoRequest
  RequestTimeout = 2
  ActivationTimeout = 1
  CheckpointTimeout = 3
INVARIANTS
  IInv
  LiveTransactionKeepsItsCheckpoint
  AcceptedProfileSurvives
  OwnInv
PROPERTIES
  ImplementsConfigChange
