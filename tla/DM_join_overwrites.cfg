SPECIFICATION Spec
CONSTANTS
  Device = {1}
  Addr = {a1}
  Job = {j1}
  Http = {}
  MaxRetries = 1
  LastJoinCap = 1
  None = None
PROPERTY JoinPreservesInterview
