SPECIFICATION Spec
CONSTANTS
    None = None
    k1 = k1
    Agent = {a1}
    Supervisor = {a1}
    Contact = {k1}
    Monitor = {}
    Conv = {c1, c2}
    ContactOf <- OneContact
    Presence = {"available"}
    PausarEnabled = FALSE
    MaxChats = 1
    MaxInFlight = 2
INVARIANT OneOpenByMessages
VIEW OneAgentView
