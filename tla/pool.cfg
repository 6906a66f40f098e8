\* An administrator, the worker and two renters on two accounts; the calls run
\* out, and nothing is left to do then.
SPECIFICATION Spec
CONSTANTS
    None = None
    Account = {1, 2}
    Admin = {admin}
    Worker = {worker}
    Renter = {u1, u2}
    Payload <- Switches
    Stored <- OneRow
    Levels = {0, 60}
    CycleDays = 1
    Limit = 1
    Attempts = 2
    ReviewAt = 2
    MaxDay = 2
    MaxCalls = 4
SYMMETRY RenterSymmetry
INVARIANTS
    TypeOK
    CircuitCounts
    ConfigReadsBack
PROPERTIES
    PolicySettles
    ManualStays
    
CHECK_DEADLOCK FALSE
