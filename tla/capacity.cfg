\* Two handlers that write leases overlap, three renters want one account.
SPECIFICATION Spec
CONSTANTS
    p1 = p1
    p2 = p2
    worker = worker
    a1 = a1
    a2 = a2
    u1 = u1
    None = None
    User = {u1, u2, u3}
    Account = {a1}
    Proc = {p1, p2}
    Ops <- WritingOps
    Env = {"expire"}
    Limit <- Exclusive
    Threshold = 1
    BillingMode = TRUE
    ExcludeSelf = FALSE
    Owner <- Strangers
    MaxSession = 4
    MaxCycle = 0
SYMMETRY RenterSymmetry
INVARIANT
    CapacityBound
PROPERTY
    ImplementsContract
