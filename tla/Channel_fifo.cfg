SPECIFICATION ReadingSpec
CONSTANTS
    InitLength = 3
    Tries = 2
    MaxItems = 8
    CloseAllowed = TRUE
    SpuriousWakes = TRUE
INVARIANT BuffersConsistent
PROPERTY IsFifo
PROPERTY GetServed
PROPERTY PutReturns
CHECK_DEADLOCK FALSE
