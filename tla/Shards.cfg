SPECIFICATION Spec
CONSTANTS
    forward = forward
    prefetch = prefetch
    pool = pool
    a = a
    b = b
    Models = {"model"}
    Callers <- OneModel
    Pool = {pool}
    IoWorkers = 2
    Paths = {a, b}
    Declined = {b}
    Sizes <- MCSizes
    Settings <- MCSettings
    Machines <- SmallMachines
    ReaderThreads = 3
    MaxReaders = 1
    MaxRewrites = 1
    MaxFaults = 1
INVARIANTS
    BytesAreTheirs
    LayerIsWhole
    HandleLimit
    ClosedHoldsNothing
CHECK_DEADLOCK FALSE
SYMMETRY Alike
