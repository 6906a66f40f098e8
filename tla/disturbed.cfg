\* One handler at a time; calls fail, processes die, accounts come and go.
SPECIFICATION Spec
CONSTANTS
    p1 = p1
    p2 = p2
    worker = worker
    a1 = a1
    a2 = a2
    u1 = u1
    None = None
    User = {u1, u2}
    Account = {a1}
    Proc = {p1}
    Ops <- SerialOps
    Env = {"expire", "metaExpire", "unbind", "recover", "denied", "httpError", "crash"}
    Limit <- Unlimited
    Threshold = 2
    BillingMode = TRUE
    ExcludeSelf = FALSE
    Owner <- Strangers
    MaxSession = 3
    MaxCycle = 0
SYMMETRY RenterSymmetry
INVARIANT
    TypeOK

    
