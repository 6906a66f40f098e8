---------------------------- MODULE UsageMetrics ----------------------------
(***************************************************************************)
(* The token arithmetic of backend/app/api/cursor/usage_metrics.py: what a *)
(* sync adds to the one before it, and what a calendar month amounts to.   *)
(* A day is a number, a calendar month is MonthDays days, and a billing    *)
(* cycle is named by its first day.                                        *)
(***************************************************************************)
EXTENDS Integers, FiniteSets, FiniteSetsExt

CONSTANTS
    None,
    MonthDays,   \* days of a calendar month
    CycleDays    \* days of a billing cycle

ASSUME MetricsAssumption ==
    /\ MonthDays \in Nat \ {0}
    /\ CycleDays \in Nat \ {0}

Month(day) == day \div MonthDays
MonthStart(month) == month * MonthDays
EndOf(start) == start + CycleDays

TotalOf(S, F(_)) == MapThenSumSet(F, S)
TotalOver(f) == TotalOf(DOMAIN f, LAMBDA x : f[x])
DeltaSum(logs) == TotalOf(logs, LAMBDA l : l.delta)

-----------------------------------------------------------------------------
\* The log rows of an account carry the instant (at) and the day of the sync,
\* the cycle and the total Cursor reported, and the increment booked.
Newest(logs) ==
    IF logs = {} THEN None
    ELSE CHOOSE l \in logs : \A k \in logs : k.at <= l.at

Previous(logs, l) == Newest({k \in logs : k.at < l.at})

\* The difference, whatever became of the count.
DeltaUnclamped(prev, cycle, total) ==
    IF prev = None THEN 0
    ELSE IF prev.cycle = cycle THEN total - prev.total
    ELSE IF total >= prev.total THEN 0 ELSE total

\* New dates are taken to mean that the count was reset with them.
DeltaTrustsDates(prev, cycle, total) ==
    IF prev = None THEN 0
    ELSE IF prev.cycle = cycle
    THEN IF total < prev.total THEN total ELSE total - prev.total
    ELSE total

\* The first sync books what was spent before it.
DeltaCountsFirst(prev, cycle, total) ==
    IF prev = None THEN total
    ELSE IF prev.cycle = cycle
    THEN IF total < prev.total THEN total ELSE total - prev.total
    ELSE IF total >= prev.total THEN 0 ELSE total

compute_sync_delta(prev, cycle, total) ==
    IF prev = None THEN 0
    ELSE IF prev.cycle = cycle
    THEN IF total < prev.total THEN total ELSE total - prev.total
    ELSE IF total >= prev.total THEN 0 ELSE total

\* Every row is compared with the oldest one.
RecomputeFromOldest(logs) ==
    LET oldest == CHOOSE l \in logs : \A k \in logs : l.at <= k.at
    IN  {[l EXCEPT !.delta = compute_sync_delta(oldest, l.cycle, l.total)] : l \in logs}

recompute_sync_log_deltas(logs) ==
    {[l EXCEPT !.delta = compute_sync_delta(Previous(logs, l), l.cycle, l.total)] : l \in logs}

-----------------------------------------------------------------------------
\* The part of a cycle's total that falls into the month, by days.
_prorate_first_month(total, start, month, today) ==
    LET end == Min({today, MonthStart(month + 1) - 1})
        elapsed == end - start + 1
        overlap == end - Max({start, MonthStart(month)}) + 1
    IN  IF elapsed <= 0 THEN total
        ELSE IF overlap <= 0 THEN 0
        ELSE (total * overlap) \div elapsed

_incremental_month_tokens(logs, month) ==
    DeltaSum({l \in logs : Month(l.day) = month})

ResolveFromCycle(usage, month, logs, created, today) ==
    IF month = Month(today) /\ usage # None THEN usage.total ELSE _incremental_month_tokens(logs, month)

\* The tokens of a calendar month, 0 for no figure.  In the month the account
\* was bound the cycle's own total stands in for the increments.
resolve_calendar_month(usage, month, logs, created, today) ==
    IF month = Month(created) /\ month = Month(today)
    THEN IF usage = None \/ usage.total = 0 THEN 0
         ELSE IF usage.start >= MonthStart(month) THEN usage.total
         ELSE _prorate_first_month(usage.total, usage.start, month, today)
    ELSE _incremental_month_tokens(logs, month)

=============================================================================
