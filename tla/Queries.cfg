SPECIFICATION Spec
CONSTANTS
  StatusQueries = {s1}
  ProfileQueries = {l1}
  ApReads = {r1}
  Boot = boot
  Devices = {wlan, usb}
  WifiDevices = {wlan, usb}
  WifiDevice = wlan
  Profiles = {p1, p2}
  None = None
  NoBus = NoBus
  MaxChanges = 2
  MaxRequests = 2
  Aps = {a1, a2, a3}
  Hidden = ""
  Info <- MCInfo
  a1 = a1
  a2 = a2
  a3 = a3
CHECK_DEADLOCK FALSE
INVARIANTS
  TypeOK
  HealthyIsAnswered
  AbsenceIsTyped
  ConnectedOnce
  StatusWasTrue
  ListWasTrue
  NetworksRepresent
SYMMETRY Symmetry
