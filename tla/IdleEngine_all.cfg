SPECIFICATION FairSpec
CONSTANTS
  Interfaces = {"LOGIN", "UNKNOWN", "ROOM"}
  DefaultIdleAfterReconnection = TRUE
  Faults = {"watch", "discriminate", "launch", "earlyExit"}
INVARIANTS
  TypeOK
  SuspendedMeansQuiet
  DiscriminatesAProcess
  OneSleeperPerCondition
PROPERTIES
  ResetSurvivesOldRounds
  ContractSpec
  SuspendReturns
  Reconnects
  TerminateReturnsOrLostWakeup
