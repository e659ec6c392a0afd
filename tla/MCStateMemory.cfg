SPECIFICATION Spec
CONSTANTS
    BITS_IN_BYTE = 2
    CELL_BYTES = 2
    NUM_CELLS = 4
    WORD = 3
    Inputs <- MCInputs
    Setups <- MCSetups
    Operations <- MCOperations
    Failures <- MCFailures
PROPERTIES
    ByteMemorySpec
    SimpleAgrees
    NullUntouched
    QueriesExact
    SolverRestored
    LengthPolicy
    WatchpointsExact
CHECK_DEADLOCK FALSE
