CONSTANTS
    o1 = o1
    shirt = shirt
    client = client
    p1 = p1
    operator = operator
    None = None
    Order = {o1}
    Product = {shirt}
    ProductOf <- MCProductOf
    Client = {client}
    Proof = {p1}
    Operator = {operator}
    HumanApproval = FALSE
    DistanceBased = TRUE
    Notify = TRUE
    AddressRequired = FALSE
    DeliveryNeedsAddress = TRUE
    MaxPanel = 1
    MaxInFlight = 2
SPECIFICATION FairSpec
INVARIANTS TypeOK KeyAfterFreight
PROPERTIES ApprovalKept ProofNoticed
CHECK_DEADLOCK FALSE
