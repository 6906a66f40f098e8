\* A renew overlaps the release of the same lease.
SPECIFICATION Spec
CONSTANTS
    p1 = p1
    p2 = p2
    worker = worker
    a1 = a1
    a2 = a2
    u1 = u1
    None = None
    User = {u1}
    Account = {a1}
    Proc = {p1, p2}
    Ops <- RenewOps
    Env = {}
    Limit <- Exclusive
    Threshold = 1
    BillingMode = TRUE
    ExcludeSelf = FALSE
    Owner <- Strangers
    MaxSession = 3
    MaxCycle = 0
INVARIANT
    LeaseLoginAlive
