CONSTANTS
  Word = {w1, w2, w3}
  ADDRS = 4
  C_DEPTH = 3
SPECIFICATION FifoSpec
INVARIANT FifoTypeOK
PROPERTY ImplementsQueue
