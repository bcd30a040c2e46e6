SPECIFICATION FairSpec
CONSTANTS
  Client = {c1, c2}
  MaxClients = 1
  SendCap = 1
  BroadcastCap = 1
  MaxEvents = 2
INVARIANTS TypeOK NoChannelPanic NoGap
PROPERTIES PlaceIsFreed ShutdownEnds
CHECK_DEADLOCK FALSE
