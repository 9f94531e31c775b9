\* A checkpoint larger than the host tier is evicted by the put that admitted it.
SPECIFICATION Spec
CONSTANTS
  a = a
  b = b
  Vocabulary = {a, b}
  BlockSize = 2
  Capacity = 5
  SpillCapacity = 0
  TokenBytes = 2
  Group = 2
  Window = 2
  Prompts <- OneTurn
  Replies = {3}
  Lookaheads = {0}
  SpeculativeStops = FALSE
  RestoreFaults = {}
  DiskWorks = {TRUE}
  Clears = {}
  MaxRequests = 1
INVARIANTS BookkeepingNeverFails
CHECK_DEADLOCK FALSE
