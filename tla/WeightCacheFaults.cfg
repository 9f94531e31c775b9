\* A layer and two experts: popularity and aging; reads and placements that fail, forwards that
\* raise, clear and close; a device that may be switched off.
CONSTANTS
  d1 = d1  d2 = d2  d3 = d3  e1 = e1  e2 = e2
  NoKey = NoKey
  Keys = {d1, e1, e2}
  Experts = {e1, e2}
  Size <- MCSize
  Capacities = {0, 2}
  HostCapacity = 2
  Window = 2
  Plans <- ExpertPlans
  AgingInterval = 2
  Unit = 4
  NestLimit = 1
  Events = {"read_fails", "place_fails", "forward_fails", "clear", "close"}
  MaxClaims = 1
  MaxRefs = 2
  MaxReadBytes = 3
  MaxAccesses = 2
SPECIFICATION Spec
INVARIANTS BoundIsKnown TiersAgree
PROPERTIES ProtectedStays
