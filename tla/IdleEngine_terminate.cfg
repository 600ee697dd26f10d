SPECIFICATION FairSpec
CONSTANTS
  Interfaces = {"LOGIN", "UNKNOWN"}
  DefaultIdleAfterReconnection = FALSE
  Faults = {}
PROPERTIES
  TerminateReturns
