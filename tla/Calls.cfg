SPECIFICATION FairCallSpec
CONSTANTS
  Calls = {c1}
  RequestTimeout = 6
  ClientTimeout = 7
  SystemctlTimeout = 4
  PowerTimeout = 1
  ClientMaxBytes = 3
  MaxRequestBytes = 2
  Sizes <- MCSizes
INVARIANTS
  TypeOK
  IInv
  AnsweredMeansStopped
  SuccessIsTheHandlers
  OnlyTheLimitsRefuse
  AcceptedIsDone
  CommandEndsWithItsHandler
PROPERTIES
  EveryCallIsAnswered
  ImplementsRemoteCall
