SPECIFICATION Spec
CONSTANTS
    Files <- MCFiles
    Language <- MCLanguage
    Tests <- MCTests
    Vendored = {}
    Pruned = {}
    Fixtures <- MCFixtures
    UserExcluded <- MCExcluded
    Quoted <- MCQuoted
    Dirty <- MCDirty
    Routes <- MCRoutes
    Broken <- MCBroken
    Chains <- MCChains
    Requests <- MCRequests
    MinParallel = 3
    MinCores = 3
    MaxDeletes = 1
    MaxFailures = 2
INVARIANTS
    PythonScannedOnce
    ChainsFoundOrDisclosed
    OneVerdictPerFile
    OnlyWhatWasAsked
    CleanExitIsEarned
    SkippedIsDisclosed
PROPERTIES
    Terminates
CHECK_DEADLOCK FALSE
