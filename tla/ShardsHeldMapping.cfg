SPECIFICATION Spec
CONSTANTS
    forward = forward
    prefetch = prefetch
    pool = pool
    a = a
    b = b
    Models = {"model"}
    Callers <- OneModel
    Pool = {pool}
    IoWorkers = 2
    Paths = {a, b}
    Declined = {b}
    Sizes <- MCSizes
    Settings <- MCSettings
    Machines <- MCMachines
    ReaderThreads = 3
    MaxReaders = 2
    MaxRewrites = 1
    MaxFaults = 1
INVARIANT RewrittenIsReread
CHECK_DEADLOCK FALSE
SYMMETRY Alike
