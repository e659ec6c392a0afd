SPECIFICATION Spec
CONSTANTS
    BITS_IN_BYTE = 2
    POINTER_SIZE_BITS = 4
    NUM_BYTES = 16
    Code <- MCCode
    RegType <- MCRegType
    Starts <- MCStarts
    ObjType <- MCObjType
    ObjAddr = 4
    Contents <- MCContents
    MaxSteps = 2
PROPERTIES
    ValuesSpec
