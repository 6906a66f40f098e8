\* A web handler and the Celery worker, both scheduled; the renter has an account of his own.
SPECIFICATION FairSpec
CONSTANTS
    p1 = p1
    p2 = p2
    worker = worker
    a1 = a1
    a2 = a2
    u1 = u1
    None = None
    User = {u1}
    Account = {a1, a2}
    Proc = {p1, worker}
    Ops <- WorkerOps
    Env = {"expire", "cycle"}
    Limit <- Exclusive
    Threshold = 1
    BillingMode = TRUE
    ExcludeSelf = TRUE
    Owner <- OneOwner
    MaxSession = 2
    MaxCycle = 0
PROPERTIES
    
    HandlersReturn
    
    DueLeaseIsReclaimed
