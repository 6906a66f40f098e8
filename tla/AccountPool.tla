---------------------------- MODULE AccountPool ----------------------------
(***************************************************************************)
(* Who is in the pool, and how good a member is taken to be:               *)
(* backend/app/api/cursor/pool/service.py with the administrators' calls   *)
(* and the automatic policy, proxy/scheduler.py, proxy/circuit.py and the  *)
(* review of bindings in tasks.py.  Every transaction is a step, and       *)
(* nothing keeps the administrators, the Celery worker and the renters     *)
(* apart.  What a lease is made of is left to LeaseService: here it is an  *)
(* account a renter holds.                                                 *)
(***************************************************************************)
EXTENDS PoolConfig, FiniteSets, SequencesExt

CONSTANTS
    Account,
    Admin,     \* processes that serve administrators
    Worker,    \* processes that run apply_auto_pool_policy
    Renter,    \* processes that acquire a lease, each for a renter of its own
    Payload,   \* what update_config is called with
    Stored,    \* what the configuration row may hold at the start
    Levels,    \* the percentages of its plan an account may have used
    CycleDays, \* days of a billing cycle
    Limit,     \* renters an account may have at once, 0 for any number
    Attempts,  \* accounts one acquire may try
    ReviewAt,  \* failures that make the review of bindings doubt an account
    MaxDay, MaxCalls  \* bounds: days; calls, and changes from outside

Proc == Admin \cup Worker \cup Renter

ASSUME PoolAssumption ==
    /\ Account \subseteq Nat /\ IsFiniteSet(Account) /\ IsFiniteSet(Renter)
    /\ Admin \cap Worker = {} /\ Admin \cap Renter = {} /\ Worker \cap Renter = {}
    /\ Levels \subseteq 0..100 /\ Levels # {}
    /\ CycleDays \in Nat \ {0} /\ Limit \in Nat /\ Attempts \in Nat \ {0} /\ ReviewAt \in Nat \ {0}
    /\ MaxDay \in Nat /\ MaxCalls \in Nat

\* The configuration row is there or not; one that has every field was written
\* by update_config.
ASSUME ConfigAssumption ==
    /\ \A payload \in Payload : DOMAIN payload \subseteq Fields /\ Readable(payload)
    /\ \A stored \in Stored \ {None} :
         /\ Readable(stored)
         /\ DOMAIN stored = Fields => Normal(stored) /\ stored = [f \in Fields |-> stored[f]]

VARIABLES
    today,
    row,     \* CursorAccount, None once it is unbound
    member,  \* CursorPoolMember
    config,  \* the row of CursorProxyConfig, None when there is none
    held,    \* the account a renter holds
    op,      \* the call process p is in
    calls,   \* calls and changes from outside so far
    alone,   \* ghost. nobody else has changed a thing since policy run p began
    settled, \* ghost. nor anybody at all since a policy run ended that was alone
    failures,\* ghost. the failures of an account since it last succeeded
    mixed    \* ghost. two records of one of them overlapped

tables == <<today, row, member, config>>
ghosts == <<alone, settled, failures, mixed>>
vars == <<tables, held, op, calls, ghosts>>

-----------------------------------------------------------------------------
\* A cycle is named by its first day; raw is None before the first sync.
Raw == [start : 0..MaxDay, used : Levels]
Row == [ok : BOOLEAN, raw : Raw \cup {None}]
Snap == 0..MaxDay \cup {None}
Source == {"manual", "auto"}

\* A removed row stays in the table, a row there never was is "none".
Member == [state : {"none", "enabled", "disabled", "removed"}, source : Source, snap : Snap,
           fails : Nat, open : BOOLEAN]
Listed(m) == m.state \in {"enabled", "disabled"}
NoMember == [state |-> "none", source |-> "manual", snap |-> None, fails |-> 0, open |-> FALSE]

\* todo: the accounts still to do; make: how add_member is called; conf: the
\* configuration it read; rows, members: the policy's copy; tried: the accounts
\* an acquire has left behind; current: the one its renter held; prefer: the
\* one it wants, or tries; left: attempts it has; base: the count it read.
Idle == [pc |-> "idle", todo |-> <<>>, source |-> "manual", snap |-> None, conf |-> None,
         rows |-> None, members |-> None, tried |-> {}, current |-> None, prefer |-> None,
         left |-> 0, base |-> 0]

Label(p) ==
    {"idle"} \cup
    (CASE p \in Admin  -> {"add", "addWrite", "drop", "release", "config"}
       [] p \in Worker -> {"snapshot", "drop", "release", "refresh", "add", "addWrite", "mark"}
       [] p \in Renter -> {"select", "try", "fail", "failWrite", "succeed"})

\* Every variable holds what its comment says, and a process is at a label of
\* its kind with the copies that label needs.
TypeOK ==
    /\ today \in 0..MaxDay
    /\ row \in [Account -> Row \cup {None}]
    /\ member \in [Account -> Member]
    /\ held \in [Renter -> Account \cup {None}]
    /\ calls \in 0..MaxCalls
    /\ \A p \in Proc :
         LET r == op[p]
         IN  /\ r.pc \in Label(p)
             /\ r.pc \in {"add", "addWrite", "drop", "release", "mark"} => r.todo # <<>>
             /\ r.pc \in {"refresh", "select", "try", "fail", "failWrite"} => DOMAIN r.conf = Fields
             /\ r.pc \in {"try", "fail", "failWrite", "succeed"} => r.prefer \in Account
             /\ r.pc = "select" => r.left = Attempts - Cardinality(r.tried)
    /\ alone \in [Worker -> BOOLEAN] /\ settled \in BOOLEAN
    /\ failures \in [Account -> Nat] /\ mixed \in [Account -> BOOLEAN]

Init ==
    /\ today = 0
    /\ \E known \in SUBSET Account :
         row = [a \in Account |-> [ok |-> TRUE,
                    raw |-> IF a \in known THEN [start |-> 0, used |-> Min(Levels)] ELSE None]]
    /\ member = [a \in Account |-> NoMember]
    /\ config \in Stored
    /\ held = [u \in Renter |-> None]
    /\ op = [p \in Proc |-> Idle]
    /\ calls = 0
    /\ alone = [p \in Worker |-> FALSE]
    /\ settled = FALSE
    /\ failures = [a \in Account |-> 0]
    /\ mixed = [a \in Account |-> FALSE]

-----------------------------------------------------------------------------
Become(p, r) == op' = [op EXCEPT ![p] = r]
Goto(p, label) == Become(p, [op[p] EXCEPT !.pc = label])
Call == calls < MaxCalls /\ calls' = calls + 1
Starts(p) == Call /\ op[p].pc = "idle"

\* One account too many.
FollowingTooFar(p, label, after) ==
    IF Len(op[p].todo) > 0 THEN Become(p, [op[p] EXCEPT !.pc = label, !.todo = Tail(@)])
    ELSE IF after = "idle" THEN Become(p, Idle) ELSE Goto(p, after)

\* The next of the accounts, or what follows the last of them.
Following(p, label, after) ==
    IF Len(op[p].todo) > 1 THEN Become(p, [op[p] EXCEPT !.pc = label, !.todo = Tail(@)])
    ELSE IF after = "idle" THEN Become(p, Idle) ELSE Goto(p, after)

\* The accounts of S in the order of their ids.
Sorted(S) == CHOOSE s \in SetToSeqs(S) : \A i, j \in DOMAIN s : i < j => s[i] < s[j]

remaining_days(r) == r.raw.start + CycleDays - today
Ended(r) == r.raw # None /\ remaining_days(r) < 0

matches_auto_join(r, conf) ==
    /\ r.ok
    /\ r.raw # None
    /\ \E i \in DOMAIN conf.auto_pool_join_rules :
         LET rule == conf.auto_pool_join_rules[i]
         IN  /\ remaining_days(r) <= rule.remaining_days
             /\ 100 - r.raw.used >= rule.remaining_usage_percent

\* A failure is recorded by a read and a write: who else touches the counter
\* of a between the two is not seen.
Overlaps(p, a) == \E q \in Renter \ {p} : op[q].pc = "failWrite" /\ op[q].prefer = a

-----------------------------------------------------------------------------
\* batch_set_enabled, add_member and remove_member for one account or several.
StartAdd(p, accounts) ==
    /\ Starts(p)
    /\ Become(p, [Idle EXCEPT !.pc = "add", !.todo = accounts])
    /\ UNCHANGED <<tables, held, failures, mixed>>

StartRemove(p, accounts) ==
    /\ Starts(p)
    /\ Become(p, [Idle EXCEPT !.pc = "drop", !.todo = accounts])
    /\ UNCHANGED <<tables, held, failures, mixed>>

\* An exception ends an administrator's call; the policy goes on.
Fails(p, label, after) ==
    IF p \in Admin THEN Become(p, Idle) ELSE Following(p, label, after)

\* add_member reads the account in a transaction of its own.
AddRead(p) ==
    LET r == op[p]
        a == Head(r.todo)
    IN  /\ r.pc = "add"
        /\ IF row[a] = None \/ ~row[a].ok THEN Fails(p, "add", "idle")
           ELSE Become(p, [r EXCEPT !.pc = "addWrite",
                    !.snap = IF r.source = "manual" THEN None ELSE r.rows[a].raw.start])
        /\ UNCHANGED <<tables, held, calls, failures, mixed>>

\* A row that was removed comes back with the count it had.
AddRevivesCount(p) ==
    LET r == op[p]
        a == Head(r.todo)
    IN  /\ r.pc = "addWrite"
        /\ member' = [member EXCEPT ![a] =
                [@ EXCEPT !.state = "enabled", !.source = r.source, !.snap = r.snap]]
        /\ IF Listed(member[a]) THEN UNCHANGED <<failures, mixed>>
           ELSE /\ failures' = [failures EXCEPT ![a] = 0]
                /\ mixed' = [mixed EXCEPT ![a] = Overlaps(p, a)]
        /\ Following(p, "add", "idle")
        /\ UNCHANGED <<today, row, config, held, calls>>

\* A row that exists is enabled, one that was removed starts with a clean count.
AddWrite(p) ==
    LET r == op[p]
        a == Head(r.todo)
        made == [NoMember EXCEPT !.state = "enabled", !.source = r.source, !.snap = r.snap]
    IN  /\ r.pc = "addWrite"
        /\ IF Listed(member[a])
           THEN /\ member' = [member EXCEPT ![a] =
                        [made EXCEPT !.fails = member[a].fails, !.open = member[a].open]]
                /\ UNCHANGED <<failures, mixed>>
           ELSE /\ member' = [member EXCEPT ![a] = made]
                /\ failures' = [failures EXCEPT ![a] = 0]
                /\ mixed' = [mixed EXCEPT ![a] = Overlaps(p, a)]
        /\ Following(p, "add", "idle")
        /\ UNCHANGED <<today, row, config, held, calls>>

RemoveWrite(p) ==
    LET a == Head(op[p].todo)
    IN  /\ op[p].pc = "drop"
        /\ IF Listed(member[a])
           THEN member' = [member EXCEPT ![a].state = "removed"] /\ Goto(p, "release")
           ELSE UNCHANGED member /\ Fails(p, "drop", "refresh")
        /\ UNCHANGED <<today, row, config, held, calls, failures, mixed>>

release_by_account(p) ==
    /\ op[p].pc = "release"
    /\ held' = [u \in Renter |-> IF held[u] = Head(op[p].todo) THEN None ELSE held[u]]
    /\ Following(p, "drop", IF p \in Admin THEN "idle" ELSE "refresh")
    /\ UNCHANGED <<tables, calls, failures, mixed>>

update_member(p, a, enabled) ==
    /\ Starts(p)
    /\ Listed(member[a])
    /\ member' = [member EXCEPT ![a].state = IF enabled THEN "enabled" ELSE "disabled"]
    /\ UNCHANGED <<today, row, config, held, op, failures, mixed>>

\* update_config merges the payload into the configuration it read before.
ConfigRead(p) ==
    /\ Starts(p)
    /\ Become(p, [Idle EXCEPT !.pc = "config", !.conf = get_config(config)])
    /\ UNCHANGED <<tables, held, failures, mixed>>

ConfigWrite(p, payload) ==
    /\ op[p].pc = "config"
    /\ config' = MergedConfig(op[p].conf, payload)
    /\ Become(p, Idle)
    /\ UNCHANGED <<today, row, member, held, calls, failures, mixed>>

-----------------------------------------------------------------------------
\* apply_auto_pool_policy: the members of an ended cycle, then those to join.
StartPolicy(p) ==
    LET conf == get_config(config)
    IN  /\ Starts(p)
        /\ conf.auto_pool_enabled
        /\ Become(p, [Idle EXCEPT !.pc = "snapshot", !.conf = conf, !.source = "auto"])
        /\ UNCHANGED <<tables, held, failures, mixed>>

\* The policy takes whatever its cycle has changed for.
StaleOfAnySource(rows, members) ==
    {a \in Account : /\ Listed(members[a]) /\ members[a].state = "enabled"
                     /\ rows[a] # None /\ rows[a].raw # None
                     /\ rows[a].raw.start # members[a].snap}

Stale(rows, members) ==
    {a \in Account : /\ Listed(members[a]) /\ members[a].source = "auto"
                     /\ rows[a] # None /\ rows[a].raw # None
                     /\ members[a].snap \notin {None, rows[a].raw.start}}

\* Removed accounts are taken for members still.
JoinsFromSnapshot(rows, conf, members, snapshot) ==
    {a \in Account : /\ rows[a] # None /\ matches_auto_join(rows[a], conf)
                     /\ snapshot[a].state # "enabled"}

Joins(rows, conf, members, snapshot) ==
    {a \in Account : /\ rows[a] # None /\ matches_auto_join(rows[a], conf)
                     /\ members[a].state # "enabled"}

JoinPhase(p, r, members) ==
    LET joins == Joins(r.rows, r.conf, members, r.members)
    IN  IF joins = {} THEN Become(p, Idle)
        ELSE Become(p, [r EXCEPT !.pc = "add", !.todo = Sorted(joins), !.members = None])

PolicySnapshot(p) ==
    LET r == [op[p] EXCEPT !.rows = row, !.members = member]
        stale == IF r.conf.auto_pool_remove_on_cycle_refresh THEN Stale(row, member) ELSE {}
    IN  /\ r.pc = "snapshot"
        /\ IF stale # {} THEN Become(p, [r EXCEPT !.pc = "drop", !.todo = Sorted(stale)])
           ELSE IF r.conf.auto_pool_remove_on_cycle_refresh THEN Become(p, [r EXCEPT !.pc = "refresh"])
           ELSE JoinPhase(p, r, member)
        /\ UNCHANGED <<tables, held, calls, failures, mixed>>

\* The members are read again after the removals, the accounts are not.
PolicyRefresh(p) ==
    /\ op[p].pc = "refresh"
    /\ JoinPhase(p, op[p], member)
    /\ UNCHANGED <<tables, held, calls, failures, mixed>>

\* review_cursor_proxy_bind_status: the members that failed often, each looked
\* at again before its account is marked.
StartReview(p) ==
    LET doubted == {a \in Account : /\ member[a].state = "enabled" /\ row[a] # None
                                    /\ member[a].fails >= ReviewAt}
    IN  /\ Starts(p)
        /\ doubted # {}
        /\ Become(p, [Idle EXCEPT !.pc = "mark", !.todo = Sorted(doubted)])
        /\ UNCHANGED <<tables, held, failures, mixed>>

_maybe_mark_bind_invalid(p) ==
    LET a == Head(op[p].todo)
    IN  /\ op[p].pc = "mark"
        /\ row' = IF Listed(member[a]) /\ member[a].fails >= ReviewAt /\ row[a] # None
                  THEN [row EXCEPT ![a].ok = FALSE] ELSE row
        /\ Following(p, "mark", "idle")
        /\ UNCHANGED <<today, member, config, held, calls, failures, mixed>>

-----------------------------------------------------------------------------
Others(u, a) == Cardinality({v \in Renter \ {u} : held[v] = a})
FullFor(u, a) == Limit > 0 /\ Others(u, a) >= Limit

Candidates(u, exclude) ==
    {a \in Account \ exclude :
        /\ member[a].state = "enabled" /\ ~member[a].open
        /\ row[a] # None /\ row[a].ok
        /\ ~FullFor(u, a)}

compute_schedule_score(u, a) ==
    (IF row[a].raw = None THEN 100 ELSE (100 - row[a].raw.used) * 10) - 5 * Others(u, a)

\* The account of candidates that comes first: by the days its cycle has left,
\* then by its renters; or by what it has left, less for every renter.
_pick_candidate(u, candidates, strategy) ==
    LET key(a) == IF strategy = "expiry_first"
                  THEN <<IF row[a].raw = None THEN 1000000000 ELSE remaining_days(row[a]), Others(u, a), a>>
                  ELSE <<-compute_schedule_score(u, a), 0, a>>
        before(a, b) == \E i \in 1..3 : key(a)[i] < key(b)[i] /\ \A j \in 1..(i - 1) : key(a)[j] = key(b)[j]
    IN  CHOOSE a \in candidates : \A b \in candidates \ {a} : before(a, b)

StartAcquire(u) ==
    /\ Starts(u)
    /\ Become(u, [Idle EXCEPT !.pc = "select", !.conf = get_config(config), !.left = Attempts,
                              !.current = held[u], !.prefer = held[u]])
    /\ UNCHANGED <<tables, held, failures, mixed>>

\* The account the renter holds comes first while it is a candidate.
select_account(u) ==
    LET r == op[u]
        candidates == Candidates(u, r.tried)
    IN  /\ r.pc = "select"
        /\ IF candidates = {} \/ r.left = 0 THEN Become(u, Idle)
           ELSE Become(u, [r EXCEPT !.pc = "try", !.left = @ - 1,
                    !.prefer = IF r.prefer \in candidates THEN r.prefer
                               ELSE _pick_candidate(u, candidates, r.conf.scheduler_strategy)])
        /\ UNCHANGED <<tables, held, calls, failures, mixed>>

\* The account may be selected once more.
TriesAgain(r) == [r EXCEPT !.pc = "select", !.prefer = None]

\* The account is left behind and another one selected.
Excluded(r) == [r EXCEPT !.pc = "select", !.tried = @ \cup {r.prefer}, !.prefer = None]

\* It is unbound by now, which the acquire does not survive; it has filled up;
\* its credentials cannot be had; its cycle is over; or it is leased.
Try(u) ==
    LET r == op[u]
        a == r.prefer
        full == FullFor(u, a) /\ r.current # a
    IN  /\ r.pc = "try"
        /\ \/ row[a] = None /\ Become(u, Idle) /\ UNCHANGED held
           \/ row[a] # None /\ full /\ Become(u, Excluded(r)) /\ UNCHANGED held
           \/ row[a] # None /\ ~full /\ Goto(u, "fail") /\ UNCHANGED held
           \/ /\ row[a] # None /\ ~full
              /\ IF Ended(row[a]) THEN Become(u, Excluded(r)) /\ UNCHANGED held
                 ELSE Goto(u, "succeed") /\ held' = [held EXCEPT ![u] = a]
        /\ UNCHANGED <<tables, calls, failures, mixed>>

\* record_account_failure: the count is read, and written back plus one.
FailRead(u) ==
    LET r == op[u]
        m == member[r.prefer]
    IN  /\ r.pc = "fail"
        /\ IF Listed(m)
           THEN /\ Become(u, [r EXCEPT !.pc = "failWrite", !.base = m.fails])
                /\ mixed' = [mixed EXCEPT ![r.prefer] = @ \/ Overlaps(u, r.prefer)]
           ELSE Become(u, Excluded(r)) /\ UNCHANGED mixed
        /\ UNCHANGED <<tables, held, calls, failures>>

FailWrite(u) ==
    LET r == op[u]
        a == r.prefer
    IN  /\ r.pc = "failWrite"
        /\ member' = [member EXCEPT ![a].fails = r.base + 1,
                        ![a].open = @ \/ r.base + 1 >= r.conf.circuit_fail_threshold]
        /\ failures' = [failures EXCEPT ![a] = @ + 1]
        /\ Become(u, Excluded(r))
        /\ UNCHANGED <<today, row, config, held, calls, mixed>>

record_account_success(u) ==
    LET a == op[u].prefer
    IN  /\ op[u].pc = "succeed"
        /\ IF Listed(member[a])
           THEN /\ member' = [member EXCEPT ![a].fails = 0, ![a].open = FALSE]
                /\ failures' = [failures EXCEPT ![a] = 0]
                /\ mixed' = [mixed EXCEPT ![a] = Overlaps(u, a)]
           ELSE UNCHANGED <<member, failures, mixed>>
        /\ Become(u, Idle)
        /\ UNCHANGED <<today, row, config, held, calls>>

Return(u) ==
    /\ Starts(u)
    /\ held[u] # None
    /\ held' = [held EXCEPT ![u] = None]
    /\ UNCHANGED <<tables, op, failures, mixed>>

-----------------------------------------------------------------------------
\* Days pass, circuits close, and the accounts are synced, fail and are bound anew.
NextDay ==
    /\ today < MaxDay
    /\ today' = today + 1
    /\ UNCHANGED <<row, member, config, held, op, calls, failures, mixed>>

CloseCircuit(a) ==
    /\ Call
    /\ member[a].open
    /\ member' = [member EXCEPT ![a].open = FALSE]
    /\ UNCHANGED <<today, row, config, held, op, failures, mixed>>

Sync(a) ==
    /\ Call
    /\ row[a] # None
    /\ \E raw \in Raw :
         /\ \/ row[a].raw = None /\ raw.start = today /\ raw.used = Min(Levels)
            \/ row[a].raw # None /\ raw.start = row[a].raw.start /\ raw.used > row[a].raw.used
            \/ row[a].raw # None /\ raw.start = row[a].raw.start + CycleDays /\ raw.start <= today
         /\ row' = [row EXCEPT ![a].raw = raw]
    /\ UNCHANGED <<today, member, config, held, op, failures, mixed>>

BindStatus(a) ==
    /\ Call
    /\ row[a] # None
    /\ row' = [row EXCEPT ![a].ok = ~@]
    /\ UNCHANGED <<today, member, config, held, op, failures, mixed>>

Unbind(a) ==
    /\ Call
    /\ row[a] # None
    /\ row' = [row EXCEPT ![a] = None]
    /\ UNCHANGED <<today, member, config, held, op, failures, mixed>>

-----------------------------------------------------------------------------
AdminStep(p) ==
    \/ \E S \in (SUBSET Account) \ {{}} : \E accounts \in SetToSeqs(S) :
           StartAdd(p, accounts) \/ StartRemove(p, accounts)
    \/ \E a \in Account, enabled \in BOOLEAN : update_member(p, a, enabled)
    \/ ConfigRead(p)
    \/ \E payload \in Payload : ConfigWrite(p, payload)

WorkerStep(p) ==
    StartPolicy(p) \/ PolicySnapshot(p) \/ PolicyRefresh(p)
        \/ StartReview(p) \/ _maybe_mark_bind_invalid(p)

MemberStep(p) == AddRead(p) \/ AddWrite(p) \/ RemoveWrite(p) \/ release_by_account(p)

RenterStep(u) ==
    StartAcquire(u) \/ select_account(u) \/ Try(u) \/ FailRead(u) \/ FailWrite(u)
        \/ record_account_success(u) \/ Return(u)

World ==
    NextDay \/ \E a \in Account : CloseCircuit(a) \/ Sync(a) \/ BindStatus(a) \/ Unbind(a)

\* A policy run is alone until a step that is not its own changes a table.
\* (What a circuit counts is nothing to the policy.)
Decides == <<today, row, config, [a \in Account |-> <<member[a].state, member[a].source, member[a].snap>>]>>

Watch ==
    LET changed == Decides' # Decides
        ended(p) == op[p].pc # "idle" /\ op'[p].pc = "idle"
    IN  /\ alone' = [p \in Worker |->
                IF op[p].pc = "idle" THEN op'[p].pc = "snapshot"
                ELSE alone[p] /\ (changed => op'[p] # op[p])]
        /\ settled' = \/ settled /\ ~changed
                      \/ \E p \in Worker : ended(p) /\ alone[p]

Next ==
    /\ \/ World
       \/ \E p \in Admin : AdminStep(p)
       \/ \E p \in Worker : WorkerStep(p)
       \/ \E p \in Admin \cup Worker : MemberStep(p)
       \/ \E u \in Renter : RenterStep(u)
    /\ Watch

Spec == Init /\ [][Next]_vars

-----------------------------------------------------------------------------
Runs(p) == op[p].pc # "idle" /\ op'[p] # op[p]

\* A policy run that begins where another one left off, with nothing changed
\* since, neither removes nor adds a member: removal at the turn of a cycle and
\* the rules for joining do not work against each other (apply_auto_pool_policy).
PolicySettles ==
    [][\A p \in Worker : settled /\ alone[p] /\ Runs(p) => member' = member]_vars

\* What an administrator has put into the pool by hand stays his: a policy run
\* that nobody interfered with neither removes it nor makes it automatic while
\* it is enabled.  (One that raced an administrator may do both.)
ManualStays ==
    [][\A p \in Worker : alone[p] /\ Runs(p) =>
         \A a \in Account : member[a].source = "manual" /\ member[a].state = "enabled"
             => member'[a] = member[a]]_vars

\* The count of a circuit is the number of failures since the account last
\* succeeded, or came into the pool anew, unless two records overlapped.
CircuitCounts ==
    \A a \in Account : Listed(member[a]) /\ ~mixed[a] => member[a].fails = failures[a]

\* An acquire gives up when it has tried every account it could select, or as
\* many different ones as it has attempts.
AcquireTriesOthers ==
    [][\A u \in Renter : op[u].pc = "select" /\ op'[u].pc = "idle" =>
         \/ Cardinality(op[u].tried) = Attempts
         \/ Candidates(u, op[u].tried) = {}]_vars

\* A configuration that update_config has written reads back as it was
\* written, and the older fields say what its first rule says.
ConfigReadsBack ==
    config # None /\ DOMAIN config = Fields =>
        /\ get_config(config) = config
        /\ config.auto_pool_remaining_days_lte = config.auto_pool_join_rules[1].remaining_days
        /\ config.auto_pool_usage_below_percent + config.auto_pool_join_rules[1].remaining_usage_percent = 100

=============================================================================
