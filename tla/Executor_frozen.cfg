SPECIFICATION Spec
CONSTANTS
  Types = {"CMD_NOP", "CMD_CREATE_GAME_ROOM"}
  MaxId = 1
  MaxMixed = 2
  Disturbances = {"takeover"}
PROPERTIES
  NoClickWhileFrozen
