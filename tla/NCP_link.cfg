SPECIFICATION Spec
CONSTANTS
  Req = {q1, q2}
  TsnMod = 4
  AckCap = 1
  LLMaxRetries = 1
  MaxLives = 2
  RxCap = 1
  None = None
INVARIANTS TypeOK NoChannelPanic WaiterRegistered ResponseMatches
PROPERTY AckMeansReceived
SYMMETRY Symm
CHECK_DEADLOCK FALSE
