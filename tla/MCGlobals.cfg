SPECIFICATION Spec
CONSTANTS
    Projects <- MCProjects
    Modules <- MCModules
    Demangled <- MCDemangled
    Intrinsics = {"llvm.memcpy"}
    Unsupported = "unsupported"
    Stored <- MCStored
    MaxDepth = 1
    MaxHooks = 3
INVARIANTS
    StrongPrevails
    PointersAgreeWithNames
    PointerCallsEnter
    ContentsMeant
    StoresSurvive
CHECK_DEADLOCK FALSE
