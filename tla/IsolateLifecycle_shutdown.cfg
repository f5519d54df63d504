SPECIFICATION LiveSpec
CONSTANTS
    Workers = {w1, w2}
    Main = Main
    NoIsolate = NoIsolate
    NumBlobs = 2
    Interrupts = FALSE
    w1 = w1
    w2 = w2
INVARIANT Accounted
INVARIANT NoCodeOutlives
PROPERTY ShutdownEnds
PROPERTY TerminatedStops
CHECK_DEADLOCK FALSE
