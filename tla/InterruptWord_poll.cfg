SPECIFICATION LiveSpec
CONSTANTS
    MaxRaises = 3
    Interrupts = TRUE
    NonInterruptible = TRUE
    OwnTasks = TRUE
INVARIANT TypeOK
PROPERTY RequestServed
CHECK_DEADLOCK FALSE
