\* One account, a web handler and the worker: overlapping, failing and cancelled syncs,
\* counts that are reset late, and the clean-up.
SPECIFICATION Spec
CONSTANTS
    None = None
    MonthDays = 2
    CycleDays = 2
    Account = {1}
    Web = {web}
    Worker = {worker}
    Created = 0
    Lead = 1
    Plan = 2
    LogDays = 1
    KeptMonths = 2
    KeptCycles = 1
    Env = {"midway", "failed", "cancel", "lag", "cleanup"}
    MaxDay = 2
    MaxUsed = 3
    MaxSyncs = 3
    Top = 1
    TrendDays = 1
    RankDays = 1
INVARIANTS
    TypeOK
    CountedOnce
    
    
    PreviousCycleIsFinal
PROPERTIES
    SealedBeforeOverwrite
    
    
