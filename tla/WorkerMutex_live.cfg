SPECIFICATION LiveSpec
CONSTANTS
    Workers = {w1, w2}
    Terminable = {w1, w2}
    MaxRecursion = 1
    ReentrantTry = FALSE
    UseTryLock = FALSE
    SpuriousWakes = TRUE
    NoWorker = NoWorker
    w1 = w1
    w2 = w2
PROPERTY LockReturns
PROPERTY TerminationUnblocks
CHECK_DEADLOCK FALSE
