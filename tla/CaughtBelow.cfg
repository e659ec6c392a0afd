SPECIFICATION Spec
CONSTANTS
    Sym <- DivergenceSym
    NumVals = 2
    Scenarios <- MCCaughtBelow
    MaxSteps = 60
INVARIANTS
    ResultSound
