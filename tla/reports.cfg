\* Two accounts, one sync at a time; two billing cycles end in a month.  The
\* bounds on days and syncs are reached, and nothing is left to do then.
SPECIFICATION Spec
CONSTANTS
    None = None
    MonthDays = 2
    CycleDays = 1
    Account = {1, 2}
    Web = {p}
    Worker = {p}
    Created = 1
    Lead = 0
    Plan = 2
    LogDays = 1
    KeptMonths = 1
    KeptCycles = 1
    Env = {"unbind", "repair", "cleanup"}
    MaxDay = 3
    MaxUsed = 3
    MaxSyncs = 3
    Top = 2
    TrendDays = 2
    RankDays = 1
INVARIANTS
    TeamTrendAddsUp
    MonthEndOnce
    PagesCoverAll

    
CHECK_DEADLOCK FALSE
