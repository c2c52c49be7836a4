SPECIFICATION Spec
CONSTANTS
    Functions <- MCFunctions
    Sinks <- MCSinks
    EffectOf <- MCEffectOf
    Inputs <- MCInputs
    MaxIterations = 16
INVARIANTS
    OnlyCallableEffects
    NoEffectMissed
CHECK_DEADLOCK FALSE
