CONSTANTS
  Size = {0, 1, 3}
  MAX_VALUES = 4
  MAX_TIME = 2
  MAX_INTERVALS = 2
  Nothing = nothing
SPECIFICATION Spec
INVARIANTS PatternSafe BlocksSorted
PROPERTIES GrowsOnlyWhenFull
