SPECIFICATION Spec
CONSTANTS
  Device = {d1}
  Name = {n1}
  Disc = {w1, w2}
  QueueCap = 1
  MaxTicks = 1
  MaxEvents = 3
  None = None
INVARIANTS TypeOK RetainedIsCurrent LeftoversExplained CommandsReach
PROPERTIES OneDiscovery
SYMMETRY Symm
CHECK_DEADLOCK FALSE
