SPECIFICATION Spec
CONSTANTS
    Nodes <- MCNodes
    Graphs <- MCGraphs
    EntrypointLists <- MCEntrypointLists
    MaxDepth = 2
INVARIANTS
    EvidenceIsReal
    CompleteWithinBound
    CutIsDisclosed
    NearestEntrypointFirst
PROPERTIES
    Terminates
CHECK_DEADLOCK FALSE
