SPECIFICATION FairSpec
CONSTANTS
    Proc = {p1, p2}
    None = None
    LockTtl = 3
    ConnectTimeout = 4
INVARIANTS TypeOK ExclusiveUnlessBreached
PROPERTIES OrphanReclaimed ImplementsMutex
