SPECIFICATION Spec
CONSTANTS
  a = a
  b = b
  Vocabulary = {a, b}
  BlockSize = 2
  Capacity = 14
  SpillCapacity = 10
  TokenBytes = 2
  Group = 2
  Window = 2
  Prompts <- Turns
  Replies = {1, 2}
  Lookaheads = {0, 1}
  SpeculativeStops = FALSE
  RestoreFaults = {0}
  DiskWorks = {TRUE, FALSE}
  Clears = {TRUE, FALSE}
  MaxRequests = 3
INVARIANTS EntriesHoldTheirTokens StoreIsSound CacheFollowsTokens
CHECK_DEADLOCK FALSE
