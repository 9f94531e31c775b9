\* The engine packs a layer itself, and packing raises.
CONSTANTS
  Threads = {main, worker}
  Packers = {main}
  Owner = main
  Slots = {s1, s2}
  Sizes = {1}
  BufferSizes = {}
  Budget = 2
  Backends = {TRUE}
  Faults = TRUE
  MaxSends = 2
  Transient = Transient  None = None
SPECIFICATION Spec
INVARIANTS OneOwner
