\* A placement that raises between two groups: what it has bound stays on the device.
CONSTANTS
  d1 = d1  d2 = d2  d3 = d3  e1 = e1  e2 = e2
  NoKey = NoKey
  Keys = {d1, d2}
  Experts = {}
  Size <- MCSize
  Capacities = {3}
  HostCapacity = 2
  Window = 1
  Plans <- DensePlans
  AgingInterval = 2
  Unit = 4
  NestLimit = 1
  Events = {"place_fails", "clear"}
  MaxClaims = 1
  MaxRefs = 2
  MaxReadBytes = 3
  MaxAccesses = 4
SPECIFICATION Spec
INVARIANTS StoredIsUnbound
