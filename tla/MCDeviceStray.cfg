CONSTANTS
  SLOTS = 8
  ADDR_SPACE = 268435456
  CNT_RANGE = 1024
  LATENCY = 2
  SETTLE = 5
  READ_AHEAD = TRUE
  Chain <- MatVec
  Setup <- OnThenClear
  OtherAddr <- Neighbours
  NOISE <- Noise
SPECIFICATION Spec
INVARIANT SourceResolved
