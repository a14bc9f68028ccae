SPECIFICATION FairSpec
CONSTANTS
    None = None
    p1 = p1
    p2 = p2
    c1 = c1
    d1 = d1
    d2 = d2
    Post = {p1}
    Content = {c1}
    ContentOf <- SameContent
    Exempt = {p1}
    Image = {p1}
    FollowUp = {p1}
    Destination = {d1}
    Standing <- Changing
    Job = {j1, j2}
    Attempts = 3
    Concurrency = 1
    DailyLimit = 1
    MaxFaults = 1
    MaxDays = 1
INVARIANTS CopiesCostAttempts KeyOnlyWhenDelivered
PROPERTY PostsSettle
CHECK_DEADLOCK FALSE
