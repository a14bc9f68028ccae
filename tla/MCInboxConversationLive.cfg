SPECIFICATION FairSpec
CONSTANTS
    None = None
    k1 = k1
    Agent = {a1}
    Supervisor = {a1}
    Contact = {k1}
    Monitor = {m1}
    Conv = {c1, c2}
    ContactOf <- OneContact
    Presence = {"away", "available"}
    PausarEnabled = FALSE
    MaxChats = 1
    MaxInFlight = 1
PROPERTY PriorityReleased
