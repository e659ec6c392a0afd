SPECIFICATION Spec
CONSTANTS
    BITS_IN_BYTE = 2
    POINTER_SIZE_BITS = 4
    NUM_BYTES = 16
    Code <- Intrinsics
    RegType <- MCRegType
    Starts <- MCStarts
    ObjType <- MCObjType
    ObjAddr = 4
    Contents <- MCContents
    MaxSteps = 1
INVARIANT
    SaturatesAsDocumented
