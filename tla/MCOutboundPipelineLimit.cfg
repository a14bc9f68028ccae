SPECIFICATION Spec
CONSTANTS
    None = None
    p1 = p1
    p2 = p2
    c1 = c1
    d1 = d1
    d2 = d2
    Post = {p1}
    Content = {c1}
    ContentOf <- SameContent
    Exempt = {}
    Image = {}
    FollowUp = {}
    Destination = {d1, d2}
    Standing <- AllGranted
    Job = {j1, j2}
    Attempts = 3
    Concurrency = 3
    DailyLimit = 1
    MaxFaults = 0
    MaxDays = 0
INVARIANT WithinDailyLimit
CHECK_DEADLOCK FALSE
