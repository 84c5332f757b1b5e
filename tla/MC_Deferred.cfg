SPECIFICATION Spec
CONSTANTS
  Instances = {i1, i2}
  Clear = Clear
  MaxDepth = 3
  MaxRuns = 4
SYMMETRY InstanceSymmetry
INVARIANTS TypeOK UncommittedWriteIsLocked NoLockLeftBehind
PROPERTIES CommitDrainsRegistry
