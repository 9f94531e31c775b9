\* A restore that fails half-way leaves its blocks' identities in the memo.
SPECIFICATION Spec
CONSTANTS
  a = a
  b = b
  Vocabulary = {a, b}
  BlockSize = 2
  Capacity = 100
  SpillCapacity = 0
  TokenBytes = 2
  Group = 2
  Window = 2
  Prompts <- Turns
  Replies = {3}
  Lookaheads = {0}
  SpeculativeStops = FALSE
  RestoreFaults = {1}
  DiskWorks = {TRUE}
  Clears = {}
  MaxRequests = 2
INVARIANTS EntriesHoldTheirTokens
CHECK_DEADLOCK FALSE
