---------------------------- MODULE UsageReports ----------------------------
(***************************************************************************)
(* What the administrators' dashboard makes of the account rows and the    *)
(* usage ledgers: the list of accounts and its pages, the rankings, the    *)
(* daily trends, the previous billing cycle of every account, and the      *)
(* cycles that end in a calendar month.  Reports change nothing; they are  *)
(* operators on the state of UsageLedger, each one read in one step.       *)
(***************************************************************************)
EXTENDS UsageBooks, SequencesExt

CONSTANTS
    Top,       \* rows a ranking shows
    TrendDays, \* days of the daily trend
    RankDays   \* days of the daily ranking

ASSUME ReportAssumption ==
    /\ Account \subseteq Nat
    /\ Top \in Nat /\ TrendDays \in Nat \ {0} /\ RankDays \in 1..TrendDays

\* The members of S one after the other; Precedes is a total order of them.
SortedBy(S, Precedes(_, _)) ==
    CHOOSE s \in [1..Cardinality(S) -> S] :
        \A i, j \in 1..Cardinality(S) : i < j => Precedes(s[i], s[j])

-----------------------------------------------------------------------------
\* A row of the account list, None where there is no figure.
_to_admin_schema(a, month) ==
    LET raw == usage[a]
        tokens == resolve_calendar_month(raw, month, logs[a], Created, today)
    IN  [id |-> a,
         billing_cycle_start |-> IF raw = None THEN None ELSE raw.start,
         usage_total |-> IF raw = None THEN None ELSE raw.pct,
         cycle_total_tokens |-> IF raw = None \/ raw.total = 0 THEN None ELSE raw.total,
         calendar_total_tokens |-> IF tokens = 0 THEN None ELSE tokens]

list_admin_accounts(month) == {_to_admin_schema(a, month) : a \in bound}

\* By the field, then by id; accounts without a figure come last, by id.
_sort_admin_accounts(rows, field, reverse) ==
    LET valued == {r \in rows : r[field] # None}
        Before_(x, y) == \/ x[field] < y[field]
                         \/ x[field] = y[field] /\ x.id < y.id
    IN  (IF reverse THEN SortedBy(valued, LAMBDA x, y : Before_(y, x))
                    ELSE SortedBy(valued, Before_))
        \o SortedBy(rows \ valued, LAMBDA x, y : x.id < y.id)

PageFromLast(rows, page, per) ==
    SubSeq(rows, Max({1, (page - 1) * per}), Min({page * per, Len(rows)}))

PageOf(rows, page, per) ==
    SubSeq(rows, (page - 1) * per + 1, Min({page * per, Len(rows)}))

\* The first Top rows that have a figure, largest first.
Ranking(rows, field) ==
    LET ranked == SortedBy({r \in rows : r[field] # None},
                           LAMBDA x, y : \/ x[field] > y[field]
                                         \/ x[field] = y[field] /\ x.id < y.id)
    IN  SubSeq(ranked, 1, Min({Top, Len(ranked)}))

_usage_bucket(total) ==
    IF total = None THEN "none"
    ELSE IF total >= 90 THEN "90-100%"
    ELSE IF total >= 70 THEN "70-90%"
    ELSE IF total >= 50 THEN "50-70%" ELSE "0-50%"

build_admin_dashboard(rows) ==
    [usage_distribution |->
        [b \in {_usage_bucket(r.usage_total) : r \in rows} |->
            Cardinality({r \in rows : _usage_bucket(r.usage_total) = b})],
     total_calendar_tokens |->
        TotalOver([r \in {q \in rows : q.calendar_total_tokens # None} |->
                        r.calendar_total_tokens]),
     rankings |-> Ranking(rows, "usage_total"),
     token_rankings |-> Ranking(rows, "calendar_total_tokens"),
     cycle_token_rankings |-> Ranking(rows, "cycle_total_tokens")]

-----------------------------------------------------------------------------
_fetch_daily_usage_rows ==
    UNION {{[account_id |-> a, usage_date |-> d, total_tokens |-> daily[a][d]] :
                d \in DOMAIN daily[a]} : a \in bound}

\* The first day of a month is left out.
SpanFromSecond(month) ==
    IF month = None
    THEN [from |-> today - TrendDays + 1, to |-> today, rank |-> today - RankDays + 1]
    ELSE LET from == MonthStart(month) + 1
             end == IF month = Month(today) THEN today ELSE MonthStart(month + 1) - 1
         IN  [from |-> from, to |-> end, rank |-> Max({from, end - RankDays + 1})]

\* The days of a trend: the last TrendDays, or those of a month until today.
TrendSpan(month) ==
    IF month = None
    THEN [from |-> today - TrendDays + 1, to |-> today, rank |-> today - RankDays + 1]
    ELSE LET from == MonthStart(month)
             end == IF month = Month(today) THEN today ELSE MonthStart(month + 1) - 1
         IN  [from |-> from, to |-> end, rank |-> Max({from, end - RankDays + 1})]

build_daily_dashboard_stats(rows, month) ==
    LET span == TrendSpan(month)
        within(from) == {r \in rows : r.usage_date >= from /\ r.usage_date <= span.to}
        sum(R) == TotalOver([r \in R |-> r.total_tokens])
        users(R) == {r.account_id : r \in {q \in R : q.total_tokens > 0}}
        totals(R) == {[id |-> a, total_tokens |-> sum({r \in R : r.account_id = a})] : a \in users(R)}
    IN  [daily_team_trend |->
            [d \in span.from..span.to |-> sum({r \in rows : r.usage_date = d})],
         daily_user_trends |-> Ranking(totals(within(span.from)), "total_tokens"),
         daily_user_rankings |-> Ranking(totals(within(span.rank)), "total_tokens")]

-----------------------------------------------------------------------------
CycleRecord(a, s) ==
    [account_id |-> a, billing_cycle_start |-> s, usage_total_pct |-> cycles[a][s].pct,
     total_tokens |-> cycles[a][s].total, is_finalized |-> cycles[a][s].final]

\* The newest row is taken, without a look at the current cycle.
LoadNewestCycle ==
    {CycleRecord(a, Max(DOMAIN cycles[a])) : a \in {b \in bound : DOMAIN cycles[b] # {}}}

\* The newest cycle before the current one of each account.
_load_previous_cycle_rows ==
    LET earlier(a) == {s \in DOMAIN cycles[a] : s < usage[a].start}
        latest(a) == Max(DOMAIN cycles[a])
    IN  {CycleRecord(a, Max(earlier(a))) : a \in {b \in bound : usage[b] # None /\ earlier(b) # {}}}
        \cup
        {CycleRecord(a, IF Cardinality(DOMAIN cycles[a]) >= 2
                        THEN Max(DOMAIN cycles[a] \ {latest(a)}) ELSE latest(a)) :
            a \in {b \in bound : /\ usage[b] = None
                                 /\ \/ Cardinality(DOMAIN cycles[b]) >= 2
                                    \/ DOMAIN cycles[b] # {} /\ cycles[b][latest(b)].final}}

_load_cycle_end_month_rows(month) ==
    UNION {{CycleRecord(a, s) : s \in {t \in DOMAIN cycles[a] : Month(EndOf(t)) = month}} :
                a \in bound}

accounts_ending_in_month(rows, month) ==
    {[account_id |-> r.id, billing_cycle_start |-> r.billing_cycle_start,
      usage_total_pct |-> r.usage_total, is_finalized |-> FALSE,
      total_tokens |-> IF r.cycle_total_tokens = None THEN 0 ELSE r.cycle_total_tokens] :
        r \in {q \in rows : q.billing_cycle_start # None /\ Month(EndOf(q.billing_cycle_start)) = month}}

\* The two are merged by account alone.
MergeByAccount(db, live) ==
    live \cup {r \in db : \A l \in live : l.account_id # r.account_id}

\* Of the same cycle of the same account, what the account row says is shown.
merge_cycle_end_rows(db, live) ==
    live \cup {r \in db : \A l \in live :
                    \/ l.account_id # r.account_id
                    \/ l.billing_cycle_start # r.billing_cycle_start}

get_account_billing_cycles(a) ==
    SortedBy({CycleRecord(a, s) : s \in DOMAIN cycles[a]},
             LAMBDA x, y : x.billing_cycle_start > y.billing_cycle_start)

build_account_daily_usage(a, days) ==
    [d \in (today - days + 1)..today |-> IF d \in DOMAIN daily[a] THEN daily[a][d] ELSE 0]

\* Rankings of cycle rows: by what was used, by tokens, by what was left of the
\* plan, least used first.
build_cycle_end_usage_rankings(R) ==
    Ranking({[id |-> r.account_id, usage_total |-> r.usage_total_pct] : r \in R}, "usage_total")

build_cycle_end_token_rankings(R) ==
    Ranking({[id |-> r.account_id, cycle_total_tokens |-> r.total_tokens] :
                r \in {q \in R : q.total_tokens > 0}}, "cycle_total_tokens")

build_previous_cycle_dashboard(R) ==
    LET least(x, y) ==
            \/ x.usage_total_pct < y.usage_total_pct
            \/ /\ x.usage_total_pct = y.usage_total_pct
               /\ \/ x.account_id < y.account_id
                  \/ /\ x.account_id = y.account_id
                     /\ x.billing_cycle_start < y.billing_cycle_start
    IN  SubSeq(SortedBy(R, least), 1, Min({Top, Cardinality(R)}))

\* Where a month is asked for, its cycle rankings are of the cycles that end in
\* it; otherwise they are those of the main list and of the previous cycles.
get_admin_dashboard(month) ==
    LET rows == list_admin_accounts(IF month = None THEN Month(today) ELSE month)
        board == build_admin_dashboard(rows)
        previous == build_previous_cycle_dashboard(_load_previous_cycle_rows)
        ended == merge_cycle_end_rows(_load_cycle_end_month_rows(month),
                                      accounts_ending_in_month(rows, month))
    IN  [board |-> board,
         daily |-> build_daily_dashboard_stats(_fetch_daily_usage_rows, month),
         prev_cycle_remaining_rankings |-> previous,
         month_usage_rankings |->
            IF month \in {None, Month(today)} THEN board.rankings
            ELSE build_cycle_end_usage_rankings(ended),
         month_cycle_token_rankings |->
            IF month = None THEN board.cycle_token_rankings
            ELSE build_cycle_end_token_rankings(ended),
         month_cycle_remaining_rankings |->
            IF month = None THEN previous ELSE build_previous_cycle_dashboard(ended)]

-----------------------------------------------------------------------------
AllSerial == \A a \in Account : Serial(a)
\* The log and the calendar still hold the month.
Retained(month) == MonthStart(month) >= today - LogDays /\ month > Month(today) - KeptMonths
CalendarOf(a, m) == IF m \in DOMAIN calendar[a] THEN calendar[a][m] ELSE 0

\* Three tables, one figure: on the dashboard of a month the team's daily trend
\* adds up to the month's total in the summary, which is made of the log, and to
\* the calendar rows of the accounts; and the trends of the users shown add up
\* to it too where the ranking has room for all of them.  Day by day the trend
\* is the sum of the pages of the accounts.
TeamTrendAddsUp ==
    /\ LET trend == get_admin_dashboard(None).daily.daily_team_trend
           of == [a \in bound |-> build_account_daily_usage(a, TrendDays)]
       IN  \A d \in DOMAIN trend : trend[d] = TotalOver([a \in bound |-> of[a][d]])
    /\ AllSerial => \A m \in (0..Month(today)) \ {Month(Created)} : Retained(m) =>
        LET page == get_admin_dashboard(m)
            shown == page.daily.daily_user_trends
            team == TotalOver(page.daily.daily_team_trend)
            users == TotalOver([i \in DOMAIN shown |-> shown[i].total_tokens])
        IN  /\ team = TotalOver([a \in bound |-> CalendarOf(a, m)])
            /\ team = page.board.total_calendar_tokens
            /\ users <= team
            /\ Cardinality(bound) <= Top => users = team

\* The previous cycle the dashboard ranks is over and sealed: no sync that was
\* cut short leaves an open row to be reported as final.
PreviousCycleIsFinal ==
    \A r \in _load_previous_cycle_rows :
        Serial(r.account_id) => r.is_finalized /\ usage[r.account_id].start # r.billing_cycle_start

\* Every cycle of an account's history, and its current one, is ranked once for
\* the month in which it ends: the current one with the figures of the account
\* row, another with those of its history.
MonthEndOnce ==
    \A m \in 0..Month(today) :
        LET merged == merge_cycle_end_rows(_load_cycle_end_month_rows(m),
                                           accounts_ending_in_month(list_admin_accounts(m), m))
        IN  \A a \in bound : \A s \in {t \in Start : Month(EndOf(t)) = m} :
              LET ranked == {r \in merged : r.account_id = a /\ r.billing_cycle_start = s}
                  history == {r \in ToSet(get_account_billing_cycles(a)) :
                                r.billing_cycle_start = s}
                  live == usage[a] # None /\ usage[a].start = s
              IN  /\ Cardinality(ranked) = IF live THEN 1 ELSE Cardinality(history)
                  /\ \A r \in ranked :
                       IF live THEN r.total_tokens = usage[a].total ELSE r \in history

\* Page after page, in every order, the account list shows each account once,
\* and those without a figure last.
PagesCoverAll ==
    \A field \in {"usage_total", "cycle_total_tokens", "calendar_total_tokens"}, reverse \in BOOLEAN :
        LET rows == list_admin_accounts(Month(today))
            sorted == _sort_admin_accounts(rows, field, reverse)
            shown == FlattenSeq([i \in 1..Cardinality(rows) |-> PageOf(sorted, i, 1)])
        IN  /\ Len(shown) = Cardinality(rows) /\ ToSet(shown) = rows
            /\ \A i \in 2..Len(shown) : shown[i][field] # None => shown[i - 1][field] # None

=============================================================================
