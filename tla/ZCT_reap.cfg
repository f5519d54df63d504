SPECIFICATION LiveSpec
CONSTANTS
    Objects = {o1, o2}
    o1 = o1
    o2 = o2
    Root = Root
    NULL = NULL
    SegCap = 2
    MaxSegs = 3
    StickyAt = 3
    SegAllocFails = TRUE
    StackCap = 2
    Deletable = {o1, o2}
    Stickable = {o1}
    Callback = Callback
    Builders = {o1}
    Careful = TRUE
INVARIANT CountExact
INVARIANT ZeroListed
INVARIANT TableExact
PROPERTY IsCollector
PROPERTY ReapEnds
