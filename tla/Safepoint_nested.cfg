SPECIFICATION LiveSpec
CONSTANTS
    Threads = {t1, t2}
    Managers = {m1, m2}
    MaxDepth = 2
    Interruptible = {t1, t2}
    NoThread = NoThread
    NoManager = NoManager
    t1 = t1
    t2 = t2
    m1 = m1
    m2 = m2
INVARIANT RecordsConsistent
INVARIANT TaskExclusion
PROPERTY MembershipFrozen
PROPERTY StopsTheWorld
PROPERTY SpinEnds
PROPERTY GateReopens
