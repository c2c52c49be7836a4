CONSTANTS
    Names <- MCNames
    Params <- MCParams
    Bodies <- MCBodies
SPECIFICATION Spec
INVARIANTS IdomIsDominance GraphDominanceHolds WalkDominanceHolds BoundSharesOrigin
CHECK_DEADLOCK FALSE
