SPECIFICATION Spec
CONSTANTS
    Workers = {w1, w2, w3}
    Terminable = {w1}
    MaxRecursion = 2
    ReentrantTry = FALSE
    UseTryLock = TRUE
    SpuriousWakes = TRUE
    NoWorker = NoWorker
    w1 = w1
    w2 = w2
    w3 = w3
INVARIANT MutexExact
INVARIANT FullyReleased
INVARIANT CountsExact
INVARIANT HeadNotStranded
