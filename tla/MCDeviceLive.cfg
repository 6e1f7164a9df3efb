CONSTANTS
  SLOTS = 5
  ADDR_SPACE = 268435456
  CNT_RANGE = 4
  LATENCY = 3
  SETTLE = 6
  READ_AHEAD = FALSE
  Chain <- Repeat
  Setup <- WithArgs
  OtherAddr = {}
  NOISE <- Noise
SPECIFICATION LiveSpec
INVARIANTS SlotsHoldChain BeatUnderItsOpcode
PROPERTIES EveryOperandCompletes SessionsEnd
