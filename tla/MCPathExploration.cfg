SPECIFICATION LibSpec
CONSTANTS
    Inputs = {1, 2, 3}
    Blocks = {b1, b2}
    Switches <- MCSwitches
    PathLens = {0, 1}
    Functions <- MCFunctions
    NonNull <- MCNonNull
    Consumers <- MCConsumers
INVARIANTS
    TypeOK
    LevelsMatch
    PathsDisjoint
    SavedIntact
    ZeroRight
    ValuesRight
PROPERTIES
    IteratorSpec
