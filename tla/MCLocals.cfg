SPECIFICATION LocalsSpec
CONSTANTS
    Funcs = {f, g}
    Names = {x}
    BVs = {v1, v2}
    LoopBound = 3
    MaxDepth = 3
    MaxNamed = 3
INVARIANTS
    LocalsVisible
    RestorePossible
    NamesUnique
CHECK_DEADLOCK FALSE
