SPECIFICATION Spec
CONSTANTS
    Files <- MCFiles
    Language <- MCLanguage
    Tests <- MCTests
    Vendored = {}
    Pruned = {}
    Fixtures <- MCFixtures
    UserExcluded <- MCExcluded
    Quoted <- MCQuoted
    Dirty <- MCDirty
    Routes <- MCRoutes
    Broken <- MCBroken
    Chains <- MCChains
    Requests <- MCWorkers
    MinParallel = 3
    MinCores = 3
    MaxDeletes = 0
    MaxFailures = 0
INVARIANT ParallelAsSerial
CHECK_DEADLOCK FALSE
