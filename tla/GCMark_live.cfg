SPECIFICATION LiveSpec
CONSTANTS
    NObjects = 3
    NRoots = 1
    Large = {}
    LargeRoots = {}
    Leaf = {2}
    MarkCap = 1
    BarrierCap = 2
    SegmentsKept = 1
    StackCap = 1
    Weaklings = {1, 3}
    Deletable = {}
PROPERTY FinishEnds
PROPERTY GarbageFreed
