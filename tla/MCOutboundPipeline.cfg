SPECIFICATION Spec
CONSTANTS
    None = None
    p1 = p1
    p2 = p2
    c1 = c1
    d1 = d1
    d2 = d2
    Post = {p1, p2}
    Content = {c1}
    ContentOf <- SameContent
    Exempt = {}
    Image = {p1}
    FollowUp = {p1}
    Destination = {d1}
    Standing <- AllGranted
    Job = {j1, j2}
    Attempts = 2
    Concurrency = 2
    DailyLimit = 2
    MaxFaults = 1
    MaxDays = 0
VIEW NoHistoryView
INVARIANTS
    TypeOK
    OneJobPerContent
CHECK_DEADLOCK FALSE
