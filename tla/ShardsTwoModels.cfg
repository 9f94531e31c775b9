SPECIFICATION Spec
CONSTANTS
    forward = forward
    prefetch = prefetch
    pool = pool
    a = a
    b = b
    Models = {"one", "two"}
    Callers <- TwoModels
    Pool = {}
    IoWorkers = 1
    Paths = {a, b}
    Declined = {b}
    Sizes <- MCSizes
    Settings <- MCSettings
    Machines <- MCMachines
    ReaderThreads = 3
    MaxReaders = 2
    MaxRewrites = 0
    MaxFaults = 0
INVARIANT BytesAreTheirs
CHECK_DEADLOCK FALSE
