\* clear() drops the reads in flight, and the cap on them is not what it was.
CONSTANTS
  d1 = d1  d2 = d2  d3 = d3  e1 = e1  e2 = e2
  NoKey = NoKey
  Keys = {d1, d2, d3}
  Experts = {}
  Size <- MCSize
  Capacities = {0, 2}
  HostCapacity = 0
  Window = 2
  Plans <- DensePlans
  AgingInterval = 2
  Unit = 4
  NestLimit = 2
  Events = {"clear"}
  MaxClaims = 1
  MaxRefs = 2
  MaxReadBytes = 6
  MaxAccesses = 4
SPECIFICATION Spec
PROPERTIES CapHolds
