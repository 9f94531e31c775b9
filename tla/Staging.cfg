\* Two threads, on a backend with copy streams and on one without: two size classes, buffers of
\* buffer(), a budget that runs out, and a loader that fails to fill.
CONSTANTS
  Threads = {main, worker}
  Packers = {}
  Owner = main
  Slots = {s1, s2}
  Sizes = {1, 2}
  BufferSizes = {1}
  Budget = 3
  Backends = {TRUE, FALSE}
  Faults = TRUE
  MaxSends = 2
  Transient = Transient  None = None
SPECIFICATION FairSpec
INVARIANTS NeverOverwritten Accounted
PROPERTIES DrainWaits OperationsEnd AllReturned
