\* Between two starts memory is used by others, or a package with kernels is installed.  TLC stops
\* at the first. To see the other, leave that invariant out.
CONSTANTS
    Procs = {p, q}
    Machines <- MCMachines
    Facts <- MCFacts
    Storage <- MCStorage
    Memory = {5, 90}
    Models <- MCModels
    Overrides <- MCOverrides
    MaxChanges = 1
    MaxStarts = 3
SPECIFICATION StartupSpec
INVARIANTS
    LiveMemoryIsRespected
    NothingIsStale
CHECK_DEADLOCK FALSE
SYMMETRY Symmetry
