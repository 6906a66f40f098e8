---------------------------- MODULE UsageLedger ----------------------------
(***************************************************************************)
(* The usage sync of backend/app/api/cursor/service.py and the four ledgers *)
(* it keeps for every account: the sync log, the daily and the calendar    *)
(* rows made from its increments, and one row for each billing cycle.      *)
(*                                                                         *)
(* A sync reads the account row first and works from that copy across its  *)
(* calls to Cursor and five transactions.  Web handlers sync one account,  *)
(* the Celery worker all of them from one copy of the table; nothing keeps *)
(* two syncs of an account apart, and a web handler is cancelled when its  *)
(* 45 seconds are over.                                                    *)
(***************************************************************************)
EXTENDS UsageMetrics

CONSTANTS
    Account,
    Web,        \* processes that serve /my/sync and /admin/sync
    Worker,     \* processes that run sync_all_accounts
    Created,    \* the day the accounts were bound
    Lead,       \* days its billing cycle had run when an account was bound
    Plan,       \* tokens the plan of an account includes
    LogDays,    \* days daily rows and sync logs are kept
    KeptMonths, \* calendar rows kept, in months
    KeptCycles, \* cycle rows kept, in months
    Env,        \* what else may happen
    MaxDay, MaxUsed, MaxSyncs  \* bounds: days, tokens spent, syncs

Proc == Web \cup Worker
Disturbance == {"midway", "cancel", "lag", "noTokens", "failed", "unbind", "cleanup", "repair"}

ASSUME LedgerAssumption ==
    /\ Created \in 0..MaxDay
    /\ Lead \in Nat /\ Lead < CycleDays
    /\ Plan \in Nat \ {0}
    /\ LogDays \in Nat /\ KeptMonths \in Nat \ {0} /\ KeptCycles \in Nat
    /\ Env \subseteq Disturbance
    /\ MaxDay \in Nat /\ MaxUsed \in Nat /\ MaxSyncs \in Nat

VARIABLES
    today,
    stamp,    \* synced_at: how many syncs have taken their time
    remote,   \* what Cursor knows of an account
    usage,    \* usage_raw of the account row, None before the first sync
    bound,    \* the account rows that exist
    logs,     \* CursorUsageSyncLog
    daily,    \* CursorDailyUsage: tokens by day
    calendar, \* CursorCalendarMonthUsage: tokens by month
    cycles,   \* CursorMonthlyUsage: a row for each billing cycle
    sync,     \* the sync process p is in
    spent,    \* ghost. tokens spent on the account, by cycle
    counted,  \* ghost. the increments booked for it
    overlap   \* ghost. two syncs of it, or one and a repair, have been under way at once

tables == <<logs, daily, calendar, cycles>>
ghosts == <<spent, counted, overlap>>
vars == <<today, stamp, remote, usage, bound, tables, sync, ghosts>>

-----------------------------------------------------------------------------
Day == 0..MaxDay
FirstStart == Created - Lead
Start == {FirstStart + k * CycleDays : k \in 0..(MaxDay + 1)}
Tokens == 0..(MaxUsed + 1)

\* start: the first day of the cycle Cursor reports; used: the tokens spent in
\* it; shown: the count its events service answers, which lags behind when a
\* cycle begins.
Remote == [start : Start, used : Tokens, shown : Tokens]

Snapshot == [start : Start, total : Tokens, pct : 0..100]
ASSUME NoneAssumption ==
    None \notin Int \cup [start : Int, total : Int, pct : Int]
                    \cup [at : Int, day : Int, cycle : Int, total : Int, delta : Int]
Percent(used) == Min({100, (100 * used) \div Plan})

LogRow == [at : 1..MaxSyncs, day : Day, cycle : Start, total : Tokens, delta : Tokens]
CycleRow == [total : Tokens, pct : 0..100, final : BOOLEAN]

\* Each transaction of a sync is a label; copy holds the usage_raw of the
\* accounts it read at the start, plan what the last transaction will write.
Sync == [pc : {"idle", "fetch", "seal", "update", "monthly", "record", "commit"},
         acct : Account \cup {None},
         todo : SUBSET Account,
         copy : [Account -> Snapshot \cup {None}],
         new : Snapshot \cup {None},
         at : 0..MaxSyncs, day : Day,
         delta : Tokens,          \* the increment, against the log it read
         base : Nat \cup {None},  \* the daily row it read
         month : Nat,             \* the calendar total it resolved
         fresh : BOOLEAN,         \* it found no calendar row
         alone : BOOLEAN]         \* ghost. no other sync, or repair, of acct came in

Idle == [pc |-> "idle", acct |-> None, todo |-> {}, copy |-> [a \in Account |-> None],
         new |-> None, at |-> 0, day |-> 0, delta |-> 0, base |-> None, month |-> 0,
         fresh |-> FALSE, alone |-> TRUE]

IsRows(f, Key, Row) == DOMAIN f \subseteq Key /\ \A k \in DOMAIN f : f[k] \in Row

\* Every variable holds what its comment above says.
TypeOK ==
    /\ today \in Day
    /\ stamp \in 0..MaxSyncs
    /\ remote \in [Account -> Remote]
    /\ usage \in [Account -> Snapshot \cup {None}]
    /\ bound \subseteq Account
    /\ \A a \in Account :
         /\ logs[a] \subseteq LogRow
         /\ IsRows(daily[a], Day, Nat)
         /\ IsRows(calendar[a], 0..MaxDay, Nat)
         /\ IsRows(cycles[a], Start, CycleRow)
    /\ sync \in [Proc -> Sync]
    /\ spent \in [Account -> [Start -> Nat]]
    /\ counted \in [Account -> Nat]
    /\ overlap \in [Account -> BOOLEAN]

\* An account is bound with a token already spent in its cycle.
Before == 1

Init ==
    /\ today = Created
    /\ stamp = 0
    /\ remote = [a \in Account |-> [start |-> FirstStart, used |-> Before, shown |-> Before]]
    /\ usage = [a \in Account |-> None]
    /\ bound = Account
    /\ logs = [a \in Account |-> {}]
    /\ daily = [a \in Account |-> <<>>]
    /\ calendar = [a \in Account |-> <<>>]
    /\ cycles = [a \in Account |-> <<>>]
    /\ sync = [p \in Proc |-> Idle]
    /\ spent = [a \in Account |-> [s \in Start |-> IF s = FirstStart THEN Before ELSE 0]]
    /\ counted = [a \in Account |-> 0]
    /\ overlap = [a \in Account |-> FALSE]

Put(f, k, v) == [x \in DOMAIN f \cup {k} |-> IF x = k THEN v ELSE f[x]]
Keep(f, K) == [x \in DOMAIN f \cap K |-> f[x]]

-----------------------------------------------------------------------------
\* The world outside: days pass, tokens are spent, billing cycles begin, in
\* the middle of a sync too where "midway" is in Env.  A sync takes less than
\* a day.
Open == "midway" \in Env \/ \A p \in Proc : sync[p].pc = "idle"

NextDay ==
    /\ Open
    /\ today < MaxDay
    /\ \A p \in Proc : sync[p].pc # "idle" => sync[p].day = today
    /\ today' = today + 1
    /\ UNCHANGED <<stamp, remote, usage, bound, tables, sync, ghosts>>

Spend(a) ==
    LET r == remote[a]
    IN  /\ Open
        /\ TotalOf(Account, LAMBDA b : TotalOf(Start, LAMBDA s : spent[b][s])) < MaxUsed
        /\ remote' = [remote EXCEPT ![a] = [r EXCEPT !.used = @ + 1,
                            !.shown = IF @ = r.used THEN @ + 1 ELSE @]]
        /\ spent' = [spent EXCEPT ![a][r.start] = @ + 1]
        /\ UNCHANGED <<today, stamp, usage, bound, tables, sync, counted, overlap>>

\* The dates of the next cycle are out; the count is reset with them, or later.
NextCycle(a) ==
    LET r == remote[a]
    IN  /\ Open
        /\ today >= EndOf(r.start)
        /\ \E shown \in {0} \cup (IF "lag" \in Env THEN {r.shown} ELSE {}) :
             remote' = [remote EXCEPT ![a] =
                            [start |-> EndOf(r.start), used |-> 0, shown |-> shown]]
        /\ UNCHANGED <<today, stamp, usage, bound, tables, sync, ghosts>>

CatchUp(a) ==
    /\ Open
    /\ remote[a].shown # remote[a].used
    /\ remote' = [remote EXCEPT ![a].shown = remote[a].used]
    /\ UNCHANGED <<today, stamp, usage, bound, tables, sync, ghosts>>

-----------------------------------------------------------------------------
Goto(p, r, label) == sync' = [sync EXCEPT ![p] = [r EXCEPT !.pc = label]]

\* The accounts process p works for, from its copy of their rows.
Under(p) == IF sync[p].pc = "idle" THEN {} ELSE sync[p].todo \cup {sync[p].acct}

\* A process goes on with account a of the copy it holds.
TakeUp(a, todo, copy, alone) ==
    [Idle EXCEPT !.pc = "fetch", !.acct = a, !.todo = todo \ {a}, !.copy = copy,
                 !.day = today, !.alone = alone]

\* Syncs under way that have still to take their time.
Due == TotalOf(Proc, LAMBDA p : Cardinality(sync[p].todo)
                                + (IF sync[p].pc \in {"fetch", "seal"} THEN 1 ELSE 0))

\* The copy of the rows of S is taken.
SyncStart(p, S) ==
    LET met == {a \in S : \E q \in Proc \ {p} : a \in Under(q)}
    IN  /\ sync[p].pc = "idle"
        /\ stamp + Due + Cardinality(S) <= MaxSyncs
        /\ \E a \in S :
             sync' = [q \in Proc |->
                IF q = p
                THEN TakeUp(a, S, [b \in Account |-> IF b \in S THEN usage[b] ELSE None],
                            met = {})
                ELSE [sync[q] EXCEPT !.alone = @ /\ Under(q) \cap S = {}]]
        /\ overlap' = [a \in Account |-> overlap[a] \/ a \in met]
        /\ UNCHANGED <<today, stamp, remote, usage, bound, tables, spent, counted>>

sync_my_account(p, a) == p \in Web /\ a \in bound /\ SyncStart(p, {a})
sync_all_accounts(p) == p \in Worker /\ bound # {} /\ SyncStart(p, bound)

\* The account is done with, or its sync raised; the worker takes the next.
Proceed(p) ==
    LET r == sync[p]
    IN  IF r.todo = {} THEN sync' = [sync EXCEPT ![p] = Idle]
        ELSE \E a \in r.todo :
               sync' = [sync EXCEPT ![p] =
                    TakeUp(a, r.todo, r.copy, r.alone)]

\* Cursor answers.  Where its events service has no tokens to report, or
\* fails, the total of the copy is kept under the dates that came now.
SyncFetch(p) ==
    LET r == sync[p]
        cur == remote[r.acct]
        old == IF r.copy[r.acct] = None THEN 0 ELSE r.copy[r.acct].total
        totals == {IF cur.shown > 0 THEN cur.shown ELSE old}
                    \cup (IF "noTokens" \in Env THEN {old} ELSE {})
    IN  /\ r.pc = "fetch"
        /\ \E total \in totals :
             Goto(p, [r EXCEPT !.new = [start |-> cur.start, total |-> total,
                                        pct |-> Percent(cur.used)]], "seal")
        /\ UNCHANGED <<today, stamp, remote, usage, bound, tables, ghosts>>

\* A call to Cursor fails: only the state of the binding changes.
SyncFails(p) ==
    /\ "failed" \in Env
    /\ sync[p].pc = "fetch"
    /\ Proceed(p)
    /\ UNCHANGED <<today, stamp, remote, usage, bound, tables, ghosts>>

SealsNewFigures(a, old, new) ==
    cycles' = IF old = None \/ old.start = new.start THEN cycles
              ELSE [cycles EXCEPT ![a] =
                        Put(@, old.start, [total |-> new.total, pct |-> old.pct, final |-> TRUE])]

\* A new cycle: what the copy held is the final state of the old one.
_finalize_monthly_usage_if_cycle_changed(a, old, new) ==
    cycles' = IF old = None \/ old.start = new.start THEN cycles
              ELSE [cycles EXCEPT ![a] =
                        Put(@, old.start, [total |-> old.total, pct |-> old.pct, final |-> TRUE])]

SyncSeal(p) ==
    LET r == sync[p]
    IN  /\ r.pc = "seal"
        /\ _finalize_monthly_usage_if_cycle_changed(r.acct, r.copy[r.acct], r.new)
        /\ stamp' = stamp + 1
        /\ Goto(p, [r EXCEPT !.at = stamp + 1, !.day = today, !.copy[r.acct] = None], "update")
        /\ UNCHANGED <<today, remote, usage, bound, logs, daily, calendar, ghosts>>

SyncUpdate(p) ==
    LET r == sync[p]
    IN  /\ r.pc = "update"
        /\ IF r.acct \in bound
           THEN /\ usage' = [usage EXCEPT ![r.acct] = r.new]
                /\ Goto(p, r, "monthly")
           ELSE Proceed(p) /\ UNCHANGED usage
        /\ UNCHANGED <<today, stamp, remote, bound, tables, ghosts>>

UpsertIgnoresSeal(a, new) ==
    cycles' = [cycles EXCEPT ![a] =
                    Put(@, new.start, [total |-> new.total, pct |-> new.pct, final |-> FALSE])]

\* A sealed row is left as it is.
_upsert_monthly_usage(a, new) ==
    cycles' = IF new.start \in DOMAIN cycles[a] /\ cycles[a][new.start].final THEN cycles
              ELSE [cycles EXCEPT ![a] =
                        Put(@, new.start, [total |-> new.total, pct |-> new.pct, final |-> FALSE])]

SyncMonthly(p) ==
    LET r == sync[p]
    IN  /\ r.pc = "monthly"
        /\ _upsert_monthly_usage(r.acct, r.new)
        /\ IF r.new.total = 0 THEN Proceed(p) ELSE Goto(p, r, "record")
        /\ UNCHANGED <<today, stamp, remote, usage, bound, logs, daily, calendar, ghosts>>

\* _record_token_sync is one transaction on one snapshot: what it reads of
\* the log, the day and the month here is what its commit builds on.
SyncRecord(p) ==
    LET r == sync[p]
        a == r.acct
        delta == compute_sync_delta(Newest(logs[a]), r.new.start, r.new.total)
        own == [at |-> r.at, day |-> r.day, cycle |-> r.new.start, total |-> r.new.total,
                delta |-> delta]
    IN  /\ r.pc = "record"
        /\ Goto(p, [r EXCEPT !.delta = delta,
                !.base = IF r.day \in DOMAIN daily[a] THEN daily[a][r.day] ELSE None,
                !.month = resolve_calendar_month(r.new, Month(r.day), logs[a] \cup {own},
                                                 Created, today),
                !.fresh = Month(r.day) \notin DOMAIN calendar[a]], "commit")
        /\ UNCHANGED <<today, stamp, remote, usage, bound, tables, ghosts>>

\* A row that another transaction has inserted meanwhile fails the commit.
Conflict(r) ==
    \/ r.delta > 0 /\ r.base = None /\ r.day \in DOMAIN daily[r.acct]
    \/ r.month > 0 /\ r.fresh /\ Month(r.day) \in DOMAIN calendar[r.acct]

SyncCommit(p) ==
    LET r == sync[p]
        a == r.acct
    IN  /\ r.pc = "commit"
        /\ IF Conflict(r) THEN UNCHANGED <<logs, daily, calendar, counted>>
           ELSE /\ logs' = [logs EXCEPT ![a] = @ \cup
                    {[at |-> r.at, day |-> r.day, cycle |-> r.new.start,
                      total |-> r.new.total, delta |-> r.delta]}]
                /\ daily' = IF r.delta = 0 THEN daily
                            ELSE [daily EXCEPT ![a] = Put(@, r.day,
                                    r.delta + IF r.base = None THEN 0 ELSE r.base)]
                /\ calendar' = IF r.month = 0 THEN calendar
                               ELSE [calendar EXCEPT ![a] = Put(@, Month(r.day), r.month)]
                /\ counted' = [counted EXCEPT ![a] = @ + r.delta]
        /\ Proceed(p)
        /\ UNCHANGED <<today, stamp, remote, usage, bound, cycles, spent, overlap>>

\* The time limit of a request, or a crash: the open transaction is lost.
Cancel(p) ==
    /\ "cancel" \in Env
    /\ sync[p].pc # "idle"
    /\ sync' = [sync EXCEPT ![p] = Idle]
    /\ UNCHANGED <<today, stamp, remote, usage, bound, tables, ghosts>>

-----------------------------------------------------------------------------
unbind(a) ==
    /\ "unbind" \in Env
    /\ Open
    /\ a \in bound
    /\ bound' = bound \ {a}
    /\ UNCHANGED <<today, stamp, remote, usage, tables, sync, ghosts>>

cleanup_cursor_usage_history ==
    /\ "cleanup" \in Env
    /\ daily' = [a \in Account |-> Keep(daily[a], {d \in Day : d >= today - LogDays})]
    /\ logs' = [a \in Account |-> {l \in logs[a] : l.day >= today - LogDays}]
    /\ calendar' = [a \in Account |->
            Keep(calendar[a], {m \in 0..MaxDay : m >= Month(today) - (KeptMonths - 1)})]
    /\ cycles' = [a \in Account |->
            Keep(cycles[a], {s \in DOMAIN cycles[a] : EndOf(s) >= today - KeptCycles * MonthDays})]
    /\ UNCHANGED <<today, stamp, remote, usage, bound, sync, ghosts>>

\* The increments are taken anew from the log, the rows made from them rebuilt.
repair_calendar_token_deltas(a) ==
    LET rebuilt == recompute_sync_log_deltas(logs[a])
        total(m) == resolve_calendar_month(usage[a], m, rebuilt, Created, today)
        tokens(d) == DeltaSum({l \in rebuilt : l.day = d})
        months == {Month(l.day) : l \in rebuilt}
        booked == {l.day : l \in {k \in rebuilt : k.delta > 0}}
    IN  /\ "repair" \in Env
        /\ a \in bound /\ logs[a] # {}
        /\ logs' = [logs EXCEPT ![a] = rebuilt]
        /\ calendar' = [calendar EXCEPT ![a] =
                [m \in DOMAIN @ \cup {n \in months : total(n) > 0} |->
                    IF m \in months THEN total(m) ELSE @[m]]]
        /\ daily' = [daily EXCEPT ![a] = [d \in DOMAIN @ \cup booked |-> tokens(d)]]
        /\ sync' = [p \in Proc |-> [sync[p] EXCEPT !.alone = @ /\ a \notin Under(p)]]
        /\ overlap' = [overlap EXCEPT ![a] = @ \/ \E p \in Proc : a \in Under(p)]
        /\ UNCHANGED <<today, stamp, remote, usage, bound, cycles, spent, counted>>

-----------------------------------------------------------------------------
World == NextDay \/ \E a \in Account : Spend(a) \/ NextCycle(a) \/ CatchUp(a)

Step(p) ==
    \/ SyncFetch(p) \/ SyncFails(p) \/ SyncSeal(p) \/ SyncUpdate(p)
    \/ SyncMonthly(p) \/ SyncRecord(p) \/ SyncCommit(p) \/ Cancel(p)

Next ==
    \/ World
    \/ \E p \in Proc : \/ Step(p) \/ sync_all_accounts(p)
                        \/ \E a \in Account : sync_my_account(p, a)
    \/ \E a \in Account : unbind(a) \/ repair_calendar_token_deltas(a)
    \/ cleanup_cursor_usage_history

Spec == Init /\ [][Next]_vars

=============================================================================
