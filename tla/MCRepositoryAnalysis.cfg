CONSTANTS
    Files <- MCFiles
    Names <- MCNames
    Programs <- MCPrograms
    Rules <- MCRules
    Effects <- MCEffects
    MaxDepth <- MCMaxDepth
    SinkLists <- MCSinkLists
    Beside <- MCBeside
    LanguageMaxDepth <- MCLanguageMaxDepth
SPECIFICATION ScanSpec
INVARIANTS PlainCallsFollowed NewFindingsAreReached ReachedSinksAreReported ChainsAreCalls ReachedOrDisclosed
PROPERTIES NothingTakenBack
\* A scan ends.
CHECK_DEADLOCK FALSE
