SPECIFICATION FairSpec
CONSTANTS
  Labels = {"LOGIN", "LOBBY", "ROOM", "LOADING", "IN_GAME", "RESULTS", "UNKNOWN"}
  ChooseCharacterTime = 1
  LoginTimeout = 1
  LoadingTimeout = 1
  DefaultIdleTime = 2
  StartGameRoomTimeout = 1
  MaxInGameTime = 3
  RestartGameOnLoadingTimeout = TRUE
  DefaultIdleAfterReconnection = TRUE
  CaptureErrorLimit = 1
  DecodeErrorLimit = 0
  MaxAge = 3
  Disturbances = {"capture", "decode", "window", "driver"}
INVARIANTS
  TimerIsOfThisInterface
PROPERTIES
  EndsOnlyOverdueGames
  ExtendedOnlyByChoice
  
  HungLoadIsEnded
  StaleRoomIsLeft
