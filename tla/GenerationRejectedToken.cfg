\* A stop sequence ends a speculative pass before the rejected proposals are cropped.
SPECIFICATION Spec
CONSTANTS
  a = a
  b = b
  Vocabulary = {a, b}
  BlockSize = 2
  Capacity = 100
  SpillCapacity = 0
  TokenBytes = 2
  Group = 2
  Window = 2
  Prompts <- OneTurn
  Replies = {3}
  Lookaheads = {0, 1}
  SpeculativeStops = TRUE
  RestoreFaults = {}
  DiskWorks = {TRUE}
  Clears = {}
  MaxRequests = 1
INVARIANTS EntriesHoldTheirTokens
CHECK_DEADLOCK FALSE
