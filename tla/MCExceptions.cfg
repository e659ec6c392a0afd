SPECIFICATION Spec
CONSTANTS
    Sym <- MCSym
    NumVals = 2
    Scenarios <- MCScenarios
    MaxSteps = 60
INVARIANTS
    CallstackUnwound
    ResultSound
    ErrorSound
    CaughtPathFaithful
    ReportedOnce
    ExhaustiveAtNone
