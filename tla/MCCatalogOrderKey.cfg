CONSTANTS
    o1 = o1
    shirt = shirt
    client = client
    p1 = p1
    operator = operator
    None = None
    Order = {o1}
    Product = {shirt}
    ProductOf <- MCProductOf
    Client = {client}
    Proof = {p1}
    Operator = {operator}
    HumanApproval = TRUE
    DistanceBased = FALSE
    Notify = FALSE
    AddressRequired = TRUE
    DeliveryNeedsAddress = TRUE
    MaxPanel = 0
    MaxInFlight = 1
SPECIFICATION Spec
INVARIANT KeyNeverBeforeFreight
CHECK_DEADLOCK FALSE
