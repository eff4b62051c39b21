CONSTANTS
  WINDOWS_STORED = 8
  WINDOWS_PER_MIN = 6
  MAX_CPM = 20
  max_averaging_period = 5
  Short = 2
  Enough = 4
  Jump = 2
  Jump30 = 1
  Floor = 5
  Restart = 1
  Counts = {0, 1, 4}
SPECIFICATION Spec
INVARIANTS Cpm30IsLast30s
