SPECIFICATION Spec
CONSTANTS
    None = None
    k1 = k1
    Agent = {a1, a2}
    Supervisor = {a1}
    Contact = {k1}
    Monitor = {m1}
    Conv = {c1}
    ContactOf <- OneContact
    Presence = {"offline", "available"}
    PausarEnabled = TRUE
    MaxChats = 1
    MaxInFlight = 2
CONSTRAINT NoneStale
VIEW NoOutsideView
INVARIANTS TypeOK RowSoundUnlessStale
PROPERTIES HolderKept EndedStaysEnded
