SPECIFICATION Spec
CONSTANTS
    Scanners = {p1, p2}
    Paths = {"a", "b"}
    Contents <- MCContents
    Rulesets = {"r1", "r2"}
    Packages = {"pkg", "other"}
    Lines = {1, 2}
    Snippets = {"x", "y"}
    Analysis <- MCAnalysis
    Comments <- MCComments
    Calls <- MCCalls
    Disks <- MCDisks
    MaxEdits = 1
    MaxKills = 1
    MaxDamage = 1
    MaxDisturbances = 1
INVARIANTS
    ResultsAreFresh
    SuppressionIsCurrent
    TornOnlyByDamage
PROPERTIES
    EntriesSurvive
    ScansEnd
CHECK_DEADLOCK FALSE
