SPECIFICATION Spec
CONSTANTS
    NObjects = 2
    NRoots = 1
    Large = {2}
    LargeRoots = {3}
    Leaf = {}
    MarkCap = 3
    BarrierCap = 1
    SegmentsKept = 1
    StackCap = 1
    Weaklings = {1}
    Deletable = {2}
INVARIANT MarkerConsistent
INVARIANT NoBlackToWhite
PROPERTY IsCollector
