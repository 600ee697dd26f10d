SPECIFICATION FairSpec
CONSTANTS
  Types = {"CMD_NOP", "CMD_DEFAULT_IDLE_2", "CMD_CREATE_GAME_ROOM"}
  MaxId = 2
  MaxMixed = 2
  Disturbances = {"read", "torn", "error", "takeover", "expire"}
INVARIANTS
  TaskIsOfCommand
  FlagsAreRestored
  NothingLeftDown
  AntiShockBelongsToAttack
PROPERTIES
  OneShotRunsOnce
  RepeatableIsRun
