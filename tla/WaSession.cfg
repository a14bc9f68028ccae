SPECIFICATION FairSpec
CONSTANTS
    Socket = {s1, s2}
    None = None
    Abandon = 1
    SoftAfter = 2
INVARIANTS TypeOK OneSocketUnlessStray
PROPERTY AttemptedAgain
