SPECIFICATION FairSpec
CONSTANTS
  ChooseCharacterTime = 1
  ExtendedIdleDelay = 2
  StartGameRoomTimeout = 1
  LoginTimeout = 1
  LoadMapTimeout = 1
  CaptureErrorLimit = 1
  DecodeErrorLimit = 0
  MaxScore = 1
  MaxAge = 3
  Disturbances = {"capture", "decode", "exit", "driver"}
INVARIANTS
  TimerIsOfThisInterface
PROPERTIES
  EndsOnlyOverdueLoads
  ExtendedOnlyByChoice
  StaleInterfaceIsLeft
