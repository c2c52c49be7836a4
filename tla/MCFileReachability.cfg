SPECIFICATION Spec
CONSTANTS
    Files <- MCFiles
    ToolBase = "Tool"
    ToolMethods <- MCToolMethods
    Protector = "ProtectedExecutor"
INVARIANTS
    RunIsReported
    ReportedIsCalled
    GuardedRunsAsked
\* The agent has nothing to call in some of the files.
CHECK_DEADLOCK FALSE
