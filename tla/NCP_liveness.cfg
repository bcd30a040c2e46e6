SPECIFICATION FairSpec
CONSTANTS
  Req = {q1}
  TsnMod = 2
  AckCap = 1
  LLMaxRetries = 1
  MaxLives = 3
  RxCap = 2
  None = None
PROPERTIES CloseReturns ResetReturns
CHECK_DEADLOCK FALSE
