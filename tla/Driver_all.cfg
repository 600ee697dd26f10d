SPECIFICATION FairSpec
CONSTANTS
  Modes = {"NULL", "DEFAULT", "EXTENDED", "CMD_LOCATE_CURSOR"}
  DefaultIdleAfterReconnection = TRUE
  SuppressCSOBanner = TRUE
  Faults = {"hotkey", "hook", "run", "write", "post"}
INVARIANTS
  ModesExclude
  ExtendedOnlyInExtendedMode
  CallsAreAllowed
  NopIsLast
PROPERTIES
  FileFollowsMode
  CtrlCStopsExecutor
