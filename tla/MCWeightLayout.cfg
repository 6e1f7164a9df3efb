CONSTANTS
  CHUNK = 3
  Rows = {1, 2, 3}
  Cols = {1, 2, 3, 4, 5, 6, 7}
  ZERO = zero
SPECIFICATION Spec
INVARIANTS InPlace EveryWeightOnce
