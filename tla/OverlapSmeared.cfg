SPECIFICATION Spec
CONSTANTS
    BITS_IN_BYTE = 2
    CELL_BYTES = 2
    NUM_CELLS = 4
    WORD = 3
    Inputs <- MCInputs
    Setups <- MCOverlapping
    Operations <- MCOverlapOps
    Failures <- MCFailures
PROPERTIES
    OverlapCopied
CHECK_DEADLOCK FALSE
