SPECIFICATION Spec
CONSTANTS
  Param = {p1, p2}
  MaxKeys = 4
  None = None
INVARIANTS TypeOK SavedKeyNamesNetwork
SYMMETRY Symm
