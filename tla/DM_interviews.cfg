SPECIFICATION Spec
CONSTANTS
  Device = {1, 2}
  Addr = {a1}
  Job = {j1, j2}
  Http = {}
  MaxRetries = 1
  LastJoinCap = 1
  None = None
INVARIANTS TypeOK EntriesAreLive UncancelledIsRegistered NoSaveAfterStop DebounceBounded
PROPERTY OneInterview
SYMMETRY Symm
