SPECIFICATION Spec
CONSTANTS
    NBlocks = 3
    ItemsPerBlock = 1
    FinalizersMoveBlocks = TRUE
INVARIANT LiveKept
