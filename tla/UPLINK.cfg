SPECIFICATION Spec
CONSTANTS
  maxHDLCFrameSize = 128
  Base = 8
  MaxFaults = 1
  None = None
  Err = Err
  Panic = Panic
INVARIANTS UnderstoodIsSaid NoNeedlessLoss Resync WrittenIsReported
