\* One account, synced by the worker alone, and a cycle in which nothing is spent.
SPECIFICATION Spec
CONSTANTS
    None = None
    MonthDays = 4
    CycleDays = 1
    Account = {a1}
    Web = {}
    Worker = {worker}
    Created = 0
    Lead = 0
    Plan = 2
    LogDays = 4
    KeptMonths = 1
    KeptCycles = 1
    Env = {"cleanup"}
    MaxDay = 3
    MaxUsed = 3
    MaxSyncs = 4
INVARIANT
    CycleTotalIsSpent
