SPECIFICATION Spec
CONSTANTS
    NBlocks = 2
    ItemsPerBlock = 2
    FinalizersMoveBlocks = FALSE
INVARIANT LiveKept
INVARIANT ListsExact
INVARIANT SweepClean
INVARIANT DestroyedOnce
