\* One user with two logins, two web handlers and the worker.  A row, once given
\* up for good, leaves nothing to do.
SPECIFICATION FairSpec
CONSTANTS
    None = None
    User = {u1}
    Login = {g1, g2}
    LoginId = {l1}
    Web = {w1, w2}
    Worker = {worker}
    MaxId = 2
    MaxDeaths = 1
INVARIANTS
    TypeOK
    RowOfOneLogin
PROPERTY
    BadBindingIsTold
CHECK_DEADLOCK FALSE
