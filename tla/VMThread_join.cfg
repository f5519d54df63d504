SPECIFICATION LiveSpec
CONSTANTS
    Joiners = {j1, j2, j3}
    Owner = Owner
    j1 = j1
    j2 = j2
    j3 = j3
    SpuriousWakes = TRUE
INVARIANT FreedUnused
INVARIANT JoinedEnded
PROPERTY JoinReturns
PROPERTY UnjoinedDtorReturns
CHECK_DEADLOCK FALSE
