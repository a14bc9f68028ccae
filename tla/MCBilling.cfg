CONSTANTS
    None = None
    s1 = s1
    w1 = w1
    w2 = w2
    Sale = {s1}
    Item = {"starter", "pro", "pack"}
    Worker = {w1, w2}
    MaxMonths = 1
    MaxFaults = 1
SPECIFICATION FairSpec
INVARIANTS TypeOK PackCreditedOnceUnlessTorn PlanEndsUnlessTorn
PROPERTIES RunningPlanKept PaymentSettles ExpiredPlanEnds
CHECK_DEADLOCK FALSE
