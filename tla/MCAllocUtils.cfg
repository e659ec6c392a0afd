SPECIFICATION UtilsSpec
CONSTANTS
    Sizes <- MCSizes
    ByteSizes <- MCByteSizes
    Symbolic = Symbolic
    ElementSizes <- MCElementSizes
    MaxAllocs = 3
INVARIANTS
    Disjoint
    MallocFits
    WritesInside
    AllocasApart
CHECK_DEADLOCK FALSE
