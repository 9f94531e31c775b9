\* Two processes on one machine, a change of the machine, three starts.
CONSTANTS
    Procs = {p, q}
    Machines <- MCMachines
    Facts <- MCFacts
    Storage <- MCStorage
    Memory = {5, 90}
    Models <- MCModels
    Overrides <- MCOverrides
    MaxChanges = 1
    MaxStarts = 3
SPECIFICATION StartupSpec
INVARIANTS
    OwnMachine
    BudgetsFit
CHECK_DEADLOCK FALSE
SYMMETRY Symmetry
