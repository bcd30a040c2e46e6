SPECIFICATION FairSpec
CONSTANTS
  Device = {1}
  Addr = {a1}
  Job = {j1}
  Http = {r1, r2}
  MaxRetries = 2
  LastJoinCap = 1
  None = None
PROPERTIES OnlyIndicationsCreate InterviewsEnd StopCompletes
