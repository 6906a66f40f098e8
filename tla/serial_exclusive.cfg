\* One handler at a time, one renter per account.
SPECIFICATION Spec
CONSTANTS
    p1 = p1
    p2 = p2
    worker = worker
    a1 = a1
    a2 = a2
    u1 = u1
    None = None
    User = {u1, u2}
    Account = {a1, a2}
    Proc = {p1}
    Ops <- SerialOps
    Env = {"expire", "cycle", "sync", "toggle"}
    Limit <- Exclusive
    Threshold = 1
    BillingMode = TRUE
    ExcludeSelf = FALSE
    Owner <- Strangers
    MaxSession = 3
    MaxCycle = 0
SYMMETRY Symmetry
INVARIANTS
    MetaMirrorsLease
    LeaseLoginAlive
    RemovedAccountIsFree
PROPERTIES
    ImplementsContract
    
    SweepTakesOnlyDue
    RenterKeepsAccount
