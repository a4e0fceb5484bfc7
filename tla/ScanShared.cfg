SPECIFICATION Spec
CONSTANTS
  Requests = {r1, r2}
  NoRequest = NoRequest
  MinInterval = 2
  CacheTime = 1
  ScanWait = 1
  RequestTimeout = 4
  MaxClock = 6
  MaxScans = 2
  MaxVersion = 2
SYMMETRY RequestSymmetry
CHECK_DEADLOCK FALSE
INVARIANTS
  TypeOK
  CountedScansCompleted
  ListIsAccountedFor
PROPERTIES
  AnswersDoNotGoBack
