\* Dense units, a host tier, a plan and a budget that move, forwards that raise; a window of one, and
\* claims that nest.
CONSTANTS
  d1 = d1  d2 = d2  d3 = d3  e1 = e1  e2 = e2
  NoKey = NoKey
  Keys = {d1, d2, d3}
  Experts = {}
  Size <- MCSize
  Capacities = {0, 2, 4}
  HostCapacity = 2
  Window = 1
  Plans <- DensePlans
  AgingInterval = 2
  Unit = 4
  NestLimit = 2
  Events = {"forward_fails"}
  MaxClaims = 1
  MaxRefs = 2
  MaxReadBytes = 6
  MaxAccesses = 4
SPECIFICATION FairSpec
INVARIANTS BooksAgree
PROPERTIES ClaimsHold ReferencesAnswered WithinCapacity Promised PendingCapped OperationsEnd
