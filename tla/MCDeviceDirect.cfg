CONSTANTS
  SLOTS = 2
  ADDR_SPACE = 268435456
  CNT_RANGE = 8
  LATENCY = 2
  SETTLE = 7
  READ_AHEAD = TRUE
  Chain <- MatVec
  Setup <- OnThenClear
  OtherAddr <- Neighbours
  NOISE <- Silence
SPECIFICATION Spec
INVARIANTS TagsExact SlotsHoldChain PointerInStep BeatUnderItsOpcode
