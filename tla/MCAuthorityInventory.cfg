CONSTANTS
    Hosts <- MCHosts
    GitHub = "https://api.github.com"
    Env <- MCEnv
    Inputs <- MCInputs
    MaxCalls = 2
    FileOrder <- MCFileOrder
    Secrets = {"TOKEN"}
    MaxDepth = 3
    MaxContexts = 2
    Changes <- MCChanges
SPECIFICATION Spec
INVARIANTS InventoryCovers EntriesAdmitRequests NewPowerIsShown
CHECK_DEADLOCK FALSE
