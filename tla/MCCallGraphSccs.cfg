CONSTANTS
    Nodes <- MCNodes
    Sorted <- MCSorted
    Graphs <- MCGraphs
SPECIFICATION Spec
PROPERTIES ImplementsCondensation
CHECK_DEADLOCK FALSE
