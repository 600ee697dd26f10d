SPECIFICATION Spec
CONSTANTS
  Orders <- MCOrders
  CoolDown <- MCCoolDown
  Digits <- MCDigits
  Letters <- MCLetters
  RenewAfter = 0
  Epoch = 2
  MaxClock = 3
  MaxId = 2
INVARIANT DirectiveWasSet
