SPECIFICATION FairSpec
CONSTANTS
  Script = {s1, s2}
  VM = {v1, v2}
  Main = Main
  Http = {h1, h2}
  QueueCap = 1
  MaxTimers = 1
  None = None
INVARIANTS TypeOK RegisteredIsLive LuaExclusive StoppedIsQuiet
PROPERTY StopCompletes
CHECK_DEADLOCK FALSE
