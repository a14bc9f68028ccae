CONSTANTS
    m1 = m1
    m2 = m2
    Msg = {m1, m2}
    Text = {"2", "sair", "nao quero", "aceito"}
    MaxPending = 2
    MaxApprovals = 1
    MaxPanel = 1
    MaxFaults = 1
SPECIFICATION Spec
SYMMETRY MsgSymmetry
VIEW WhatMatters
PROPERTY ImplementsHeldMessages
INVARIANTS TypeOK HeldOnce AcceptedByWord RefusalHeldUnlessUntold AcceptedFlushedUnlessTorn
CHECK_DEADLOCK FALSE
