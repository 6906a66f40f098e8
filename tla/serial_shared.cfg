\* One handler at a time, two renters of one account, billing cycles end and begin; nobody renews.
SPECIFICATION Spec
CONSTANTS
    p1 = p1
    p2 = p2
    worker = worker
    a1 = a1
    a2 = a2
    u1 = u1
    None = None
    User = {u1, u2}
    Account = {a1}
    Proc = {p1}
    Ops <- NoRenewOps
    Env = {"expire", "cycle", "sync"}
    Limit <- Unlimited
    Threshold = 1
    BillingMode = TRUE
    ExcludeSelf = FALSE
    Owner <- Strangers
    MaxSession = 4
    MaxCycle = 1
SYMMETRY RenterSymmetry
INVARIANT
    LeaseLoginAlive
PROPERTIES
    ReleaseSparesOthers
    DueStaysDue
