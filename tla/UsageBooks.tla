----------------------------- MODULE UsageBooks -----------------------------
(***************************************************************************)
(* What the usage ledgers promise.  Most of it holds of an account as long *)
(* as no two of its syncs have overlapped, and nothing in the code keeps   *)
(* them apart: two that take their increments from the same log row count  *)
(* the tokens since then twice.                                            *)
(***************************************************************************)
EXTENDS UsageLedger

SpentOn(a) == TotalOf(Start, LAMBDA s : spent[a][s])
Serial(a) == ~overlap[a]

\* The increments booked for an account never exceed the tokens spent on it
\* since it was bound: whatever cycles begin, counts that are reset late,
\* answers without tokens, syncs cut short and logs cleaned, no token is
\* counted twice (compute_sync_delta, _record_token_sync).
CountedOnce == \A a \in Account : Serial(a) => counted[a] <= SpentOn(a) - Before

\* A sync that was cut short is made up for by the next one: as long as the
\* first cycle lasts and its log is kept, what was booked is the growth of
\* the total from the first log row to the newest.
CatchesUp ==
    \A a \in Account :
        LET kept == {l \in logs[a] : l.cycle = FirstStart}
        IN  Serial(a) /\ logs[a] # {} /\ kept = logs[a] /\ today <= LogDays
            => counted[a] = Newest(logs[a]).total
                            - (CHOOSE l \in logs[a] : \A k \in logs[a] : l.at <= k.at).total

\* The rows made from the increments agree with the log: a day's row with the
\* increments of that day, a month's (but the first) with those of the month.
BooksAgree ==
    \A a \in Account : Serial(a) =>
        /\ \A d \in Day : d >= today - LogDays =>
             (IF d \in DOMAIN daily[a] THEN daily[a][d] ELSE 0)
                 = DeltaSum({l \in logs[a] : l.day = d})
        /\ \A m \in DOMAIN calendar[a] :
             m # Month(Created) /\ MonthStart(m) >= today - LogDays
                 => calendar[a][m] = _incremental_month_tokens(logs[a], m)

\* Before the account row takes up a new cycle, the last it knew of the old
\* one is sealed in the row of that cycle, across cancelled and repeated syncs.
SealedBeforeOverwrite ==
    [][\A a \in Account :
         LET old == usage[a]
             new == usage'[a]
         IN  Serial(a) /\ old # None /\ new # None /\ old.start # new.start
                 /\ EndOf(old.start) >= today - KeptCycles * MonthDays
             => /\ old.start \in DOMAIN cycles[a]
                /\ cycles[a][old.start] = [total |-> old.total, pct |-> old.pct, final |-> TRUE]]_vars

\* On an account whose syncs never overlapped a sealed row stays as it is.  A
\* sync that starts from an older copy than another wrote may seal it again,
\* with what that copy knew, but no sync opens it again.
SealedStays ==
    [][\A a \in Account : \A s \in DOMAIN cycles[a] \cap DOMAIN cycles'[a] :
         cycles[a][s].final /\ cycles'[a][s] # cycles[a][s]
             => /\ cycles'[a][s].final
                /\ ~Serial(a)
                /\ \E p \in Proc : sync[p].pc = "seal" /\ sync[p].acct = a]_vars

\* What overlapping syncs did to a calendar month does not last: a sync that
\* ran alone leaves the month's row equal to the increments in the log, where
\* the log still holds the whole month.
MonthIsMended ==
    [][\A p \in Proc :
         LET a == sync[p].acct
             m == Month(sync[p].day)
         IN  /\ sync[p].pc = "commit" /\ sync'[p].pc # "commit" /\ sync[p].alone
             /\ logs'[a] # logs[a] /\ m \in DOMAIN calendar'[a]
             /\ m # Month(Created) /\ MonthStart(m) >= today - LogDays
             => calendar'[a][m] = _incremental_month_tokens(logs'[a], m)]_vars

\* On an account whose syncs never overlapped and whose log is whole, a repair
\* finds nothing to correct: the increments booked sync by sync are those that
\* recompute_sync_log_deltas makes of the log at once.  (The first month, which
\* is not made of increments, is left out.)
RepairChangesNothing ==
    [][\A a \in Account :
         repair_calendar_token_deltas(a) /\ Serial(a) /\ today <= LogDays
           => /\ logs'[a] = logs[a] /\ daily'[a] = daily[a]
              /\ \A m \in DOMAIN calendar'[a] \ {Month(Created)} :
                   m \in DOMAIN calendar[a] /\ calendar'[a][m] = calendar[a][m]]_vars

-----------------------------------------------------------------------------
\* A cycle's row holds the tokens of that cycle: no more than were spent in it.
CycleTotalIsSpent ==
    \A a \in Account : \A s \in DOMAIN cycles[a] :
        cycles[a][s].final => cycles[a][s].total <= spent[a][s]

=============================================================================
