CONSTANTS
  LANES = 3
  Config <- Configs
  DRAIN = 6
  MAX_BEATS = 4
SPECIFICATION Spec
INVARIANTS ResultExact AccumulatorIsPrefix
