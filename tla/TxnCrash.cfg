SPECIFICATION Spec
CONSTANTS
  Connects = {c1, c2}
  Activates = {}
  Disconnects = {}
  Deletes = {}
  WifiProfiles = {w1}
  EthernetProfiles = {}
  NoProfile = NoProfile
  NoRequest = NoRequest
  RequestTimeout = 6
  ActivationTimeout = 5
  CheckpointTimeout = 9
INVARIANT DaemonFailureIsRestored
