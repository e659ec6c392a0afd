SPECIFICATION ConsumedSpec
CONSTANTS
    Sym <- MCSym
    NumVals = 3
    Scenarios <- MCScenarios
    MaxSteps = 60
INVARIANTS
    TypeOK
    NoPanic
    ResultSound
    ErrorSound
    PathFaithful
PROPERTIES
    ExplorationSpec
    EventuallyExhausted
