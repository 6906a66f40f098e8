---------------------------- MODULE BooksProofs ----------------------------
(***************************************************************************)
(* Proofs about the increments of UsageLedger, for any accounts, processes *)
(* and disturbances, of an account as long as no two of its syncs overlap: *)
(* no token that is spent on it is booked twice, the rows made from the    *)
(* increments agree with the log, a repair finds nothing to correct, what  *)
(* a sync misses the next one makes up for, and the cycle that is reported *)
(* as the previous one is sealed.  What overlapping syncs did to a month   *)
(* is mended by the next that runs alone.  And with finitely many accounts *)
(* and processes, every variable of UsageLedger is of its type.            *)
(***************************************************************************)
EXTENDS LedgerProofs, SumProofs, UsageReports

\* The figure of an account row, and of the newest row of its log; 0 for none.
Figure(u) == IF u = None THEN 0 ELSE u.total
Logged(a) == IF logs[a] = {} THEN 0 ELSE Newest(logs[a]).total

\* The most that is booked when v follows w.
Link(w, v) == IF w = 0 THEN 0 ELSE IF v >= w THEN v - w ELSE v

\* The labels at which a sync holds what Cursor answered, has taken its time,
\* and has written the account row.
Read == {"seal", "update", "monthly", "record", "commit"}
Timed == {"update", "monthly", "record", "commit"}
Through == {"monthly", "record", "commit"}

Stamped(p, a) == sync[p].pc \in Timed /\ sync[p].acct = a
Written(p, a) == sync[p].pc \in Through /\ sync[p].acct = a
Closing(p, a) == sync[p].pc = "commit" /\ sync[p].acct = a

-----------------------------------------------------------------------------
Sound(r) ==
    /\ r.pc # "idle" => r.acct \in Account /\ r.todo \subseteq Account
    /\ \A a \in Account : r.copy[a] # None => r.copy[a].total \in Nat
    /\ r.pc \in Read => r.new.total \in Nat /\ r.new # None
    /\ r.pc \in {"record", "commit"} => r.new.total > 0
    /\ r.pc \in Timed => /\ r.at \in Nat /\ r.at <= stamp
                         /\ r.day \in Nat /\ Created <= r.day /\ r.day <= today

Row(l) ==
    /\ {"at", "day", "total"} \subseteq DOMAIN l
    /\ l.total \in Nat /\ l.total > 0
    /\ l.at \in Nat /\ l.at <= stamp
    /\ l.day \in Nat /\ Created <= l.day /\ l.day <= today

\* Cursor's own count is right, is yet to be reset, or lags behind.
Known(r) ==
    /\ r.start \in Start
    /\ r.used \in Nat /\ r.shown \in Nat
    /\ r.shown = r.used \/ r.shown > r.used

TimeShape ==
    /\ today \in Nat /\ Created <= today /\ today <= MaxDay
    /\ stamp \in Nat /\ bound \subseteq Account
FigureShape ==
    /\ DOMAIN counted = Account
    /\ spent \in [Account -> [Start -> Int]]
    /\ \A a \in Account : Known(remote[a])
    /\ \A a \in Account : usage[a] # None => usage[a].total \in Nat
LogShape == DOMAIN logs = Account /\ \A a \in Account : \A l \in logs[a] : Row(l)
SyncSound == \A p \in Proc : Sound(sync[p])

BookShape == TimeShape /\ FigureShape /\ LogShape /\ SyncSound

\* The log of an account grows in the order of the syncs' times.
LogOrder(a) ==
    /\ \A l, k \in logs[a] : l.at = k.at => l = k
    /\ \A l, k \in logs[a] : l.at < k.at => l.day <= k.day
    /\ logs[a] # {} => \E l \in logs[a] : \A k \in logs[a] : k.at <= l.at
    /\ \A p \in Proc : Stamped(p, a) =>
         \A l \in logs[a] : l.at < sync[p].at /\ l.day <= sync[p].day

\* Once a count has been seen it is not forgotten, and the row has the figure
\* that is about to be logged.
Figures(a) ==
    /\ Logged(a) > 0 => Figure(usage[a]) > 0
    /\ \A p \in Proc : Holding(p, a) /\ Figure(usage[a]) > 0 => sync[p].new.total > 0
    /\ \A p \in Proc : Written(p, a) => usage[a] = sync[p].new

\* What is booked, and all that can still be booked from the newest log row by
\* way of the account row, the sync under way and Cursor's own lag, is spent.
Seen(a) == counted[a] + Before
Late(r) == Link(r.shown, r.used)
Ahead(u, r) == Link(u, r.shown) + Late(r)

Budget(a) ==
    LET u == Figure(usage[a])
    IN  /\ counted[a] \in Int
        /\ Seen(a) + Link(Logged(a), u) + Ahead(u, remote[a]) <= SpentOn(a)
        /\ \A p \in Proc : Holding(p, a) =>
             LET n == sync[p].new.total
             IN  Seen(a) + Link(Logged(a), u) + Link(u, n) + Ahead(n, remote[a]) <= SpentOn(a)
        /\ \A p \in Proc : Closing(p, a) =>
             /\ sync[p].delta \in Int
             /\ Seen(a) + sync[p].delta + Ahead(u, remote[a]) <= SpentOn(a)

Balanced(a) == ~overlap[a] => LogOrder(a) /\ Figures(a) /\ Budget(a)
BooksInv == BookShape /\ \A a \in Account : Balanced(a)

-----------------------------------------------------------------------------
LEMMA LinkType == \A w, v \in Nat : Link(w, v) \in Nat
  BY DEF Link

LEMMA LinkTriangle ==
  ASSUME NEW w \in Nat, NEW u \in Nat, NEW v \in Nat, w > 0 => u > 0
  PROVE  Link(w, v) <= Link(w, u) + Link(u, v)
  BY DEF Link

LEMMA LinkSame == \A w \in Nat : Link(w, w) = 0 /\ Link(w, 0) = 0
  BY DEF Link

LEMMA AheadType ==
  ASSUME NEW u \in Nat, NEW r, Known(r)
  PROVE  Late(r) \in Nat /\ Link(u, r.shown) \in Nat /\ Ahead(u, r) \in Nat
<1>1. r.shown \in Nat /\ r.used \in Nat
  BY DEF Known
<1>2. Late(r) \in Nat /\ Link(u, r.shown) \in Nat
  BY <1>1, LinkType DEF Late
<1> QED
  BY <1>2 DEF Ahead

LEMMA DeltaBound ==
  ASSUME NEW prev, NEW cycle, NEW total \in Nat, prev.total \in Nat, prev.total > 0
  PROVE  /\ compute_sync_delta(prev, cycle, total) \in Nat
         /\ compute_sync_delta(prev, cycle, total) <= Link(prev.total, total)
  BY DEF compute_sync_delta, Link

LEMMA SpentSum == \A a : SpentOn(a) = SumOf(Start, spent[a])
  BY DEF SpentOn, SumOf, TotalOf, MapThenSumSet, MapThenFoldSet

LEMMA SpentSame ==
  ASSUME NEW a, spent'[a] = spent[a]
  PROVE  SpentOn(a)' = SpentOn(a)
<1>1. SpentOn(a)' = SumOf(Start, spent'[a])
  BY DEF SpentOn, SumOf, TotalOf, MapThenSumSet, MapThenFoldSet
<1> QED
  BY <1>1, SpentSum

LEMMA StartFinite == IsFiniteSet(Start)
<1> DEFINE f == [k \in 0..(MaxDay + 1) |-> FirstStart + k * CycleDays]
<1>1. IsFiniteSet(0..(MaxDay + 1))
  BY LedgerAssumption, FS_Interval
<1>2. f \in Surjection(0..(MaxDay + 1), Start)
  BY DEF Start, Surjection
<1> QED
  BY <1>1, <1>2, FS_Surjection

LEMMA FigureType ==
  ASSUME BookShape, NEW a \in Account
  PROVE  Figure(usage[a]) \in Nat
  BY DEF BookShape, FigureShape, Figure

\* The newest row of a log that has one.
LEMMA NewestRow ==
  ASSUME NEW rows, NEW l \in rows, \A k \in rows : k.at <= l.at,
         \A k, j \in rows : k.at = j.at => k = j, \A k \in rows : k.at \in Int
  PROVE  Newest(rows) = l
<1>1. rows # {}
  OBVIOUS
<1>2. PICK m \in rows : m = Newest(rows) /\ \A k \in rows : k.at <= m.at
  BY <1>1 DEF Newest
<1> QED
  BY <1>2

LEMMA LastRow ==
  ASSUME BookShape, NEW a \in Account, LogOrder(a)
  PROVE  /\ Logged(a) \in Nat
         /\ logs[a] # {} => /\ Newest(logs[a]) \in logs[a]
                            /\ \A k \in logs[a] : k.at <= Newest(logs[a]).at
                            /\ Logged(a) = Newest(logs[a]).total /\ Logged(a) > 0
<1>1. CASE logs[a] = {}
  BY <1>1 DEF Logged
<1>2. CASE logs[a] # {}
  <2>1. PICK l \in logs[a] : \A k \in logs[a] : k.at <= l.at
    BY <1>2 DEF LogOrder
  <2>2. \A k \in logs[a] : Row(k)
    BY DEF BookShape, LogShape
  <2>3. Newest(logs[a]) = l
    BY <2>1, <2>2, NewestRow DEF LogOrder, Row
  <2> QED
    BY <1>2, <2>1, <2>2, <2>3 DEF Logged, Row
<1> QED
  BY <1>1, <1>2

-----------------------------------------------------------------------------
\* No process holds more of a than it did, or gets further with it.
BooksCalm(a) ==
    \A q \in Proc :
        /\ Holding(q, a)' => Holding(q, a) /\ sync'[q].new = sync[q].new
        /\ Stamped(q, a)' => /\ Stamped(q, a)
                             /\ sync'[q].at = sync[q].at /\ sync'[q].day = sync[q].day
        /\ Written(q, a)' => Written(q, a) /\ sync'[q].new = sync[q].new
        /\ Closing(q, a)' => Closing(q, a) /\ sync'[q].delta = sync[q].delta

BooksKept(a) ==
    /\ overlap[a] => overlap'[a]
    /\ logs'[a] = logs[a] /\ usage'[a] = usage[a] /\ counted'[a] = counted[a]
    /\ remote'[a] = remote[a] /\ spent'[a] = spent[a]

AllBalanced == BookShape' /\ \A a \in Account : Balanced(a)'

\* The order of the log is that of its rows and of the syncs under way.
LEMMA OrderStays ==
  ASSUME NEW a, LogOrder(a), BooksCalm(a), logs'[a] = logs[a]
  PROVE  LogOrder(a)'
  BY DEF LogOrder, BooksCalm

LEMMA FiguresStay ==
  ASSUME NEW a, Figures(a), BooksCalm(a), logs'[a] = logs[a], usage'[a] = usage[a]
  PROVE  Figures(a)'
<1>1. Logged(a)' = Logged(a)
  BY DEF Logged
<1> QED
  BY <1>1 DEF Figures, BooksCalm

LEMMA BalancedStays ==
  ASSUME NEW a, Balanced(a), BooksCalm(a), BooksKept(a)
  PROVE  Balanced(a)'
<1> SUFFICES ASSUME ~overlap'[a] PROVE (LogOrder(a) /\ Figures(a) /\ Budget(a))'
  BY DEF Balanced
<1>1. LogOrder(a) /\ Figures(a) /\ Budget(a)
  BY DEF Balanced, BooksKept
<1>2. LogOrder(a)' /\ Figures(a)'
  BY <1>1, OrderStays, FiguresStay DEF BooksKept
<1>3. Logged(a)' = Logged(a) /\ Seen(a)' = Seen(a) /\ SpentOn(a)' = SpentOn(a)
  BY SpentSame DEF Logged, Seen, BooksKept
<1>4. Budget(a)'
  BY <1>1, <1>3 DEF Budget, BooksCalm, BooksKept
<1> QED
  BY <1>2, <1>4

\* A step of process p that leaves it with the locals r, and is calm for a.
LEMMA SoundBecomes ==
  ASSUME SyncShape, SyncSound, NEW p \in Proc, NEW r, sync' = [sync EXCEPT ![p] = r],
         Sound(r)', stamp \in Int, stamp' \in Int, stamp <= stamp', today \in Int, today' = today
  PROVE  SyncSound'
<1>1. \A q \in Proc : sync'[q] = IF q = p THEN r ELSE sync[q]
  BY DEF SyncShape
<1>2. ASSUME NEW q \in Proc, q # p PROVE Sound(sync[q])'
  BY <1>1, <1>2 DEF SyncSound, Sound
<1> QED
  BY <1>1, <1>2 DEF SyncSound

LEMMA CalmLocals ==
  ASSUME SyncShape, NEW p \in Proc, NEW r, sync' = [sync EXCEPT ![p] = r], NEW a,
         r.acct = a =>
            /\ r.pc \in {"seal", "update"} =>
                 sync[p].pc \in {"seal", "update"} /\ sync[p].acct = a /\ r.new = sync[p].new
            /\ r.pc \in Timed =>
                 /\ sync[p].pc \in Timed /\ sync[p].acct = a
                 /\ r.at = sync[p].at /\ r.day = sync[p].day
            /\ r.pc \in Through =>
                 sync[p].pc \in Through /\ sync[p].acct = a /\ r.new = sync[p].new
            /\ r.pc = "commit" =>
                 sync[p].pc = "commit" /\ sync[p].acct = a /\ r.delta = sync[p].delta
  PROVE  BooksCalm(a)
<1>1. \A q \in Proc : sync'[q] = IF q = p THEN r ELSE sync[q]
  BY DEF SyncShape
<1>2. ASSUME NEW q \in Proc, q # p
      PROVE  sync'[q] = sync[q]
  BY <1>1, <1>2
<1>3. sync'[p] = r
  BY <1>1
<1>4. /\ Holding(p, a)' => Holding(p, a) /\ sync'[p].new = sync[p].new
      /\ Stamped(p, a)' => /\ Stamped(p, a)
                           /\ sync'[p].at = sync[p].at /\ sync'[p].day = sync[p].day
      /\ Written(p, a)' => Written(p, a) /\ sync'[p].new = sync[p].new
      /\ Closing(p, a)' => Closing(p, a) /\ sync'[p].delta = sync[p].delta
  BY <1>3 DEF Holding, Stamped, Written, Closing
<1> QED
  BY <1>2, <1>4 DEF BooksCalm, Holding, Stamped, Written, Closing

\* A process that is idle or at the start of a sync holds nothing.
LEMMA CalmStart ==
  ASSUME SyncShape, NEW p \in Proc, NEW r, sync' = [sync EXCEPT ![p] = r],
         r.pc \in {"idle", "fetch"}
  PROVE  \A a \in Account : BooksCalm(a)
<1>1. r.pc \notin {"seal", "update"} /\ r.pc \notin Timed /\ r.pc \notin Through /\ r.pc # "commit"
  BY DEF Timed, Through
<1> QED
  BY <1>1, CalmLocals

LEMMA IdleSound == Sound(Idle) /\ Idle.pc = "idle"
  BY DEF Sound, Idle, Read, Timed

LEMMA TakeUpSound ==
  ASSUME NEW todo \in SUBSET Account, NEW a \in todo, NEW copy, NEW alone, DOMAIN copy = Account,
         \A b \in Account : copy[b] # None => copy[b].total \in Nat
  PROVE  Sound(TakeUp(a, todo, copy, alone)) /\ TakeUp(a, todo, copy, alone).pc = "fetch"
<1> DEFINE r == TakeUp(a, todo, copy, alone)
<1>1. /\ Shape(r) /\ r.pc = "fetch" /\ r.acct = a
      /\ r.todo = todo \ {a} /\ r.copy = copy
  BY TakeUpShape
<1> HIDE DEF r
<1> QED
  BY <1>1 DEF Sound, Read, Timed, r

\* The next account, or the end of a sync.
LEMMA ProceedBooks ==
  ASSUME SyncShape, SyncSound, NEW p \in Proc, sync[p].pc # "idle", Proceed(p),
         UNCHANGED <<stamp, today>>, stamp \in Int, today \in Int
  PROVE  SyncSound' /\ sync'[p].pc \in {"idle", "fetch"} /\ \A a \in Account : BooksCalm(a)
<1>1. PICK r : sync' = [sync EXCEPT ![p] = r] /\ r.pc \in {"idle", "fetch"} /\ Sound(r)
  <2>1. CASE sync' = [sync EXCEPT ![p] = Idle]
    BY <2>1, IdleSound
  <2>2. CASE \E b \in sync[p].todo : sync' = [sync EXCEPT ![p] =
               TakeUp(b, sync[p].todo, sync[p].copy, sync[p].alone)]
    <3>1. PICK b \in sync[p].todo : sync' = [sync EXCEPT ![p] =
               TakeUp(b, sync[p].todo, sync[p].copy, sync[p].alone)]
      BY <2>2
    <3>2. /\ sync[p].todo \in SUBSET Account /\ DOMAIN sync[p].copy = Account
          /\ \A c \in Account : sync[p].copy[c] # None => sync[p].copy[c].total \in Nat
      BY DEF SyncShape, Shape, SyncSound, Sound
    <3> QED
      BY <3>1, <3>2, TakeUpSound
  <2> QED
    BY <2>1, <2>2 DEF Proceed
<1>2. Sound(r)' /\ stamp' = stamp /\ stamp <= stamp' /\ stamp' \in Int /\ today' = today
  BY <1>1 DEF Sound
<1>3. SyncSound'
  BY <1>1, <1>2, SoundBecomes
<1>4. sync'[p].pc \in {"idle", "fetch"}
  BY <1>1 DEF SyncShape
<1> QED
  BY <1>1, <1>3, <1>4, CalmStart

LEMMA StandCalm == UNCHANGED sync => \A a \in Account : BooksCalm(a)
  BY DEF BooksCalm, Holding, Stamped, Written, Closing

\* Nothing of the accounts changes that the figures are about.
LEMMA TablesStay ==
  ASSUME BookShape, bound' \subseteq bound,
         UNCHANGED <<today, stamp, remote, usage, logs, counted, spent, overlap>>
  PROVE  TimeShape' /\ FigureShape' /\ LogShape' /\ \A a \in Account : BooksKept(a)
<1>1. TimeShape' /\ FigureShape'
  BY DEF BookShape, TimeShape, FigureShape
<1>2. LogShape'
  BY DEF BookShape, LogShape, Row
<1>3. \A a \in Account : BooksKept(a)
  BY DEF BooksKept
<1> QED
  BY <1>1, <1>2, <1>3

LEMMA SyncStays ==
  ASSUME SyncSound, UNCHANGED sync, stamp \in Int, stamp' \in Int, stamp <= stamp',
         today \in Int, today' \in Int, today <= today'
  PROVE  SyncSound'
  BY DEF SyncSound, Sound

LEMMA QuietBooks ==
  ASSUME BooksInv, BookShape', \A a \in Account : BooksCalm(a) /\ BooksKept(a)
  PROVE  AllBalanced
  BY BalancedStays DEF BooksInv, AllBalanced

LEMMA TimeType == BookShape => today \in Int /\ today \in Nat /\ stamp \in Int /\ stamp \in Nat
  BY DEF BookShape, TimeShape

LEMMA ProceedsBooks ==
  ASSUME BooksInv, SealInv, NEW p \in Proc, sync[p].pc # "idle", Proceed(p),
         UNCHANGED <<today, stamp, remote, usage, bound, logs, counted, spent, overlap>>
  PROVE  AllBalanced
<1>1. SyncSound' /\ \A a \in Account : BooksCalm(a)
  BY ProceedBooks, TimeType DEF BooksInv, BookShape, SealInv
<1>2. TimeShape' /\ FigureShape' /\ LogShape' /\ \A a \in Account : BooksKept(a)
  BY TablesStay DEF BooksInv
<1> QED
  BY <1>1, <1>2, QuietBooks DEF BookShape

LEMMA NextDayBooks == BooksInv /\ NextDay => AllBalanced
<1> SUFFICES ASSUME BooksInv, NextDay PROVE AllBalanced
  OBVIOUS
<1>1. /\ today < MaxDay /\ today' = today + 1 /\ UNCHANGED sync
      /\ UNCHANGED <<stamp, remote, usage, bound, logs, counted, spent, overlap>>
  BY DEF NextDay, tables, ghosts
<1>2. MaxDay \in Int /\ Created \in Int /\ today \in Int /\ stamp \in Int
  BY LedgerAssumption, TimeType DEF BooksInv
<1>3. TimeShape' /\ FigureShape'
  BY <1>1, <1>2 DEF BooksInv, BookShape, TimeShape, FigureShape
<1>4. LogShape'
  BY <1>1, <1>2 DEF BooksInv, BookShape, LogShape, Row
<1>5. SyncSound'
  BY <1>1, <1>2, SyncStays DEF BooksInv, BookShape
<1>6. \A a \in Account : BooksCalm(a) /\ BooksKept(a)
  BY <1>1, StandCalm DEF BooksKept
<1> QED
  BY <1>3, <1>4, <1>5, <1>6, QuietBooks DEF BookShape

LEMMA UnbindBooks == BooksInv => \A a \in Account : unbind(a) => AllBalanced
<1> SUFFICES ASSUME BooksInv, NEW a \in Account, unbind(a) PROVE AllBalanced
  OBVIOUS
<1>1. /\ bound' \subseteq bound /\ UNCHANGED sync
      /\ UNCHANGED <<today, stamp, remote, usage, logs, counted, spent, overlap>>
  BY DEF unbind, tables, ghosts
<1>2. TimeShape' /\ FigureShape' /\ LogShape' /\ \A b \in Account : BooksKept(b)
  BY <1>1, TablesStay DEF BooksInv
<1>3. SyncSound'
  BY <1>1, TimeType, SyncStays DEF BooksInv, BookShape
<1> QED
  BY <1>1, <1>2, <1>3, StandCalm, QuietBooks DEF BookShape

LEMMA StutterBooks == BooksInv /\ UNCHANGED vars => AllBalanced
<1> SUFFICES ASSUME BooksInv, UNCHANGED vars PROVE AllBalanced
  OBVIOUS
<1>1. /\ bound' \subseteq bound /\ UNCHANGED sync
      /\ UNCHANGED <<today, stamp, remote, usage, logs, counted, spent, overlap>>
  BY DEF vars, tables, ghosts
<1>2. TimeShape' /\ FigureShape' /\ LogShape' /\ \A b \in Account : BooksKept(b)
  BY <1>1, TablesStay DEF BooksInv
<1>3. SyncSound'
  BY <1>1, TimeType, SyncStays DEF BooksInv, BookShape
<1> QED
  BY <1>1, <1>2, <1>3, StandCalm, QuietBooks DEF BookShape

LEMMA CancelBooks == BooksInv /\ SealInv => \A p \in Proc : Cancel(p) => AllBalanced
<1> SUFFICES ASSUME BooksInv, SealInv, NEW p \in Proc, Cancel(p) PROVE AllBalanced
  OBVIOUS
<1>1. /\ sync' = [sync EXCEPT ![p] = Idle]
      /\ UNCHANGED <<today, stamp, remote, usage, bound, logs, counted, spent, overlap>>
  BY DEF Cancel, tables, ghosts
<1>2. TimeShape' /\ FigureShape' /\ LogShape' /\ \A a \in Account : BooksKept(a)
  BY <1>1, TablesStay DEF BooksInv
<1>3. \A a \in Account : BooksCalm(a)
  BY <1>1, IdleSound, CalmStart DEF SealInv
<1>4. Sound(Idle)' /\ stamp' = stamp /\ stamp <= stamp' /\ stamp \in Int /\ today \in Int
  BY <1>1, IdleSound, TimeType DEF BooksInv, Sound, Idle, Read, Timed
<1>5. SyncSound'
  BY <1>1, <1>4, SoundBecomes DEF BooksInv, BookShape, SealInv
<1> QED
  BY <1>2, <1>3, <1>5, QuietBooks DEF BookShape

LEMMA SyncFailsBooks == BooksInv /\ SealInv => \A p \in Proc : SyncFails(p) => AllBalanced
  BY ProceedsBooks DEF SyncFails, tables, ghosts

-----------------------------------------------------------------------------
LEMMA SpentType ==
  ASSUME FigureShape, NEW a \in Account
  PROVE  SpentOn(a) \in Int
<1>1. spent[a] \in [Start -> Int]
  BY DEF FigureShape
<1> QED
  BY <1>1, StartFinite, SumType, SpentSum

\* What the figures of a are when the count is: all natural numbers.
LEMMA BudgetType ==
  ASSUME BookShape, NEW a \in Account, LogOrder(a), Figures(a), Budget(a)
  PROVE  /\ Logged(a) \in Nat /\ Figure(usage[a]) \in Nat /\ SpentOn(a) \in Int
         /\ Seen(a) \in Int /\ Known(remote[a])
         /\ Link(Logged(a), Figure(usage[a])) \in Nat
         /\ \A p \in Proc : Holding(p, a) =>
              /\ sync[p].new.total \in Nat
              /\ Link(Figure(usage[a]), sync[p].new.total) \in Nat
<1>1. Logged(a) \in Nat /\ Figure(usage[a]) \in Nat /\ SpentOn(a) \in Int
  BY LastRow, FigureType, SpentType DEF BookShape
<1>2. Seen(a) \in Int /\ Known(remote[a])
  BY DEF Budget, Seen, Before, BookShape, FigureShape
<1>3. \A p \in Proc : Holding(p, a) => sync[p].new.total \in Nat
  BY DEF BookShape, SyncSound, Sound, Holding, Read
<1> QED
  BY <1>1, <1>2, <1>3, LinkType

\* Cursor's figures for a change, and more of it is spent.
LEMMA RemoteBooks ==
  ASSUME BooksInv, NEW a \in Account, NEW r, Known(r), NEW more \in Nat,
         DOMAIN remote = Account, remote' = [remote EXCEPT ![a] = r],
         spent' \in [Account -> [Start -> Int]],
         \A b \in Account : b # a => spent'[b] = spent[b],
         SpentOn(a)' = SpentOn(a) + more,
         \A u \in Nat : Ahead(u, r) <= Ahead(u, remote[a]) + more,
         UNCHANGED <<today, stamp, usage, bound, logs, counted, overlap>>, UNCHANGED sync
  PROVE  AllBalanced
<1>1. \A b \in Account : remote'[b] = IF b = a THEN r ELSE remote[b]
  OBVIOUS
<1>2. TimeShape' /\ FigureShape' /\ LogShape' /\ SyncSound'
  <2>1. TimeShape' /\ LogShape'
    BY DEF BooksInv, BookShape, TimeShape, LogShape, Row
  <2>2. FigureShape'
    BY <1>1 DEF BooksInv, BookShape, FigureShape
  <2>3. SyncSound'
    BY TimeType, SyncStays DEF BooksInv, BookShape
  <2> QED
    BY <2>1, <2>2, <2>3
<1>3. ASSUME NEW b \in Account, b # a PROVE Balanced(b)'
  <2>1. BooksKept(b)
    BY <1>1, <1>3 DEF BooksKept
  <2> QED
    BY <2>1, StandCalm, BalancedStays DEF BooksInv
<1>4. Balanced(a)'
  <2>1. SUFFICES ASSUME ~overlap'[a] PROVE (LogOrder(a) /\ Figures(a) /\ Budget(a))'
    BY DEF Balanced
  <2>2. LogOrder(a) /\ Figures(a) /\ Budget(a)
    BY <2>1 DEF BooksInv, Balanced
  <2>3. LogOrder(a)' /\ Figures(a)'
    BY <2>2, StandCalm, OrderStays, FiguresStay
  <2>4. /\ Logged(a)' = Logged(a) /\ Seen(a)' = Seen(a) /\ remote'[a] = r /\ usage'[a] = usage[a]
        /\ counted'[a] = counted[a]
    BY <1>1 DEF Logged, Seen
  <2>5. /\ Logged(a) \in Nat /\ Figure(usage[a]) \in Nat /\ SpentOn(a) \in Int
        /\ Seen(a) \in Int /\ Known(remote[a])
        /\ Link(Logged(a), Figure(usage[a])) \in Nat
        /\ \A p \in Proc : Holding(p, a) =>
             /\ sync[p].new.total \in Nat
             /\ Link(Figure(usage[a]), sync[p].new.total) \in Nat
    BY <2>2, BudgetType DEF BooksInv
  <2>6. \A u \in Nat : /\ Ahead(u, r) \in Nat /\ Ahead(u, remote[a]) \in Nat
                       /\ Ahead(u, r) <= Ahead(u, remote[a]) + more
    BY <2>5, AheadType
  <2>7. Seen(a) + Link(Logged(a), Figure(usage[a])) + Ahead(Figure(usage[a]), r)
            <= SpentOn(a) + more
    <3>1. Seen(a) + Link(Logged(a), Figure(usage[a])) + Ahead(Figure(usage[a]), remote[a])
            <= SpentOn(a)
      BY <2>2 DEF Budget
    <3> QED
      BY <2>5, <2>6, <3>1
  <2>8. ASSUME NEW p \in Proc, Holding(p, a)
        PROVE  Seen(a) + Link(Logged(a), Figure(usage[a]))
                   + Link(Figure(usage[a]), sync[p].new.total) + Ahead(sync[p].new.total, r)
               <= SpentOn(a) + more
    <3>1. Seen(a) + Link(Logged(a), Figure(usage[a]))
            + Link(Figure(usage[a]), sync[p].new.total) + Ahead(sync[p].new.total, remote[a])
          <= SpentOn(a)
      BY <2>2, <2>8 DEF Budget
    <3> QED
      BY <2>5, <2>6, <2>8, <3>1
  <2>9. ASSUME NEW p \in Proc, Closing(p, a)
        PROVE  /\ sync[p].delta \in Int
               /\ Seen(a) + sync[p].delta + Ahead(Figure(usage[a]), r) <= SpentOn(a) + more
    <3>1. /\ sync[p].delta \in Int
          /\ Seen(a) + sync[p].delta + Ahead(Figure(usage[a]), remote[a]) <= SpentOn(a)
      BY <2>2, <2>9 DEF Budget
    <3> QED
      BY <2>5, <2>6, <3>1
  <2>10. Budget(a)'
    <3>1. counted[a] \in Int
      BY <2>2 DEF Budget
    <3>2. \A p \in Proc : /\ Holding(p, a)' => Holding(p, a)
                          /\ Closing(p, a)' => Closing(p, a)
      BY DEF Holding, Closing
    <3> QED
      BY <2>4, <2>7, <2>8, <2>9, <3>1, <3>2 DEF Budget
  <2> QED
    BY <2>3, <2>10
<1> QED
  BY <1>2, <1>3, <1>4 DEF AllBalanced, BookShape

LEMMA SpendAhead ==
  ASSUME NEW u \in Nat, NEW r, NEW s, Known(r), s.used = r.used + 1,
         s.shown = IF r.shown = r.used THEN r.shown + 1 ELSE r.shown
  PROVE  Ahead(u, s) <= Ahead(u, r) + 1
<1>1. r.used \in Nat /\ r.shown \in Nat /\ (r.shown = r.used \/ r.shown > r.used)
  BY DEF Known
<1>2. s.used \in Nat /\ s.shown \in Nat
  BY <1>1
<1>3. /\ Link(u, r.shown) \in Nat /\ Link(u, s.shown) \in Nat
      /\ Link(r.shown, r.used) \in Nat /\ Link(s.shown, s.used) \in Nat
  BY <1>1, <1>2, LinkType
<1>4. Link(u, s.shown) + Link(s.shown, s.used) <= Link(u, r.shown) + Link(r.shown, r.used) + 1
  <2>1. CASE r.shown = r.used
    <3>1. s.shown = r.shown + 1 /\ Link(s.shown, s.used) = 0 /\ Link(r.shown, r.used) = 0
      BY <1>1, <1>2, <2>1, LinkSame
    <3>2. Link(u, r.shown + 1) <= Link(u, r.shown) + 1
      BY <1>1 DEF Link
    <3> QED
      BY <1>3, <3>1, <3>2
  <2>2. CASE r.shown > r.used
    <3>1. s.shown = r.shown
      BY <1>1, <2>2
    <3>2. Link(r.shown, r.used + 1) <= Link(r.shown, r.used) + 1
      BY <1>1, <2>2 DEF Link
    <3> QED
      BY <1>3, <3>1, <3>2
  <2> QED
    BY <1>1, <2>1, <2>2
<1> QED
  BY <1>3, <1>4 DEF Ahead, Late

LEMMA SpendBooks == BooksInv /\ SealInv => \A a \in Account : Spend(a) => AllBalanced
<1> SUFFICES ASSUME BooksInv, SealInv, NEW a \in Account, Spend(a) PROVE AllBalanced
  OBVIOUS
<1> DEFINE c == remote[a].start
           r == [remote[a] EXCEPT !.used = @ + 1,
                      !.shown = IF @ = remote[a].used THEN @ + 1 ELSE @]
<1>1. /\ remote' = [remote EXCEPT ![a] = r] /\ UNCHANGED sync
      /\ spent' = [spent EXCEPT ![a][c] = @ + 1]
      /\ UNCHANGED <<today, stamp, usage, bound, logs, counted, overlap>>
  BY DEF Spend, tables
<1>2. /\ Known(remote[a]) /\ DOMAIN remote = Account
      /\ DOMAIN remote[a] = {"start", "used", "shown"}
  BY DEF BooksInv, BookShape, FigureShape, SealInv, RowShape, RemoteShape
<1>3. /\ r.start = c /\ r.used = remote[a].used + 1
      /\ r.shown = IF remote[a].shown = remote[a].used THEN remote[a].shown + 1
                   ELSE remote[a].shown
  BY <1>2
<1> HIDE DEF r
<1>4. Known(r) /\ \A u \in Nat : Ahead(u, r) <= Ahead(u, remote[a]) + 1
  BY <1>2, <1>3, SpendAhead DEF Known
<1>5. c \in Start /\ spent \in [Account -> [Start -> Int]]
  BY <1>2 DEF Known, BooksInv, BookShape, FigureShape
<1> HIDE DEF c
<1>6. /\ spent' \in [Account -> [Start -> Int]]
      /\ \A b \in Account : b # a => spent'[b] = spent[b]
      /\ spent'[a][c] = spent[a][c] + 1
      /\ \A s \in Start \ {c} : spent'[a][s] = spent[a][s]
  BY <1>1, <1>5
<1>7. SpentOn(a)' = SpentOn(a) + 1
  <2>1. SpentOn(a)' = SumOf(Start, spent'[a])
    BY DEF SpentOn, SumOf, TotalOf, MapThenSumSet, MapThenFoldSet
  <2>2. /\ \A s \in Start : spent[a][s] \in Int
        /\ spent'[a][c] \in Int
    BY <1>5, <1>6
  <2>3. SumOf(Start, spent'[a]) = SumOf(Start, spent[a]) + spent'[a][c] - spent[a][c]
    BY <1>5, <1>6, <2>2, StartFinite, SumChange
  <2>4. SumOf(Start, spent[a]) \in Int
    BY <2>2, StartFinite, SumType
  <2> QED
    BY <1>5, <1>6, <2>1, <2>2, <2>3, <2>4, SpentSum
<1> QED
  BY <1>1, <1>2, <1>4, <1>6, <1>7, RemoteBooks

\* A cycle that begins within the days there are is one of those counted.
LEMMA NextStart ==
  ASSUME NEW s \in Start, EndOf(s) <= MaxDay
  PROVE  EndOf(s) \in Start
<1>1. PICK k \in 0..(MaxDay + 1) : s = FirstStart + k * CycleDays
  BY DEF Start
<1>2. /\ k \in Nat /\ MaxDay \in Nat /\ CycleDays \in Nat /\ CycleDays > 0
      /\ Created \in Nat /\ Lead \in Nat /\ Lead < CycleDays
  BY LedgerAssumption, MetricsAssumption
<1>3. k * CycleDays \in Nat /\ k * CycleDays >= k
  BY <1>2
<1>4. FirstStart + k * CycleDays + CycleDays <= MaxDay /\ FirstStart = Created - Lead
  BY <1>1 DEF EndOf, FirstStart
<1>5. k < MaxDay + 1
  BY <1>2, <1>3, <1>4
<1>6. k + 1 \in 0..(MaxDay + 1)
  BY <1>2, <1>5
<1>7. (k + 1) * CycleDays = k * CycleDays + CycleDays
  BY <1>2
<1>8. EndOf(s) = FirstStart + (k + 1) * CycleDays
  BY <1>1, <1>2, <1>3, <1>4, <1>7 DEF EndOf
<1> QED
  BY <1>6, <1>8 DEF Start

LEMMA NextCycleBooks == BooksInv /\ SealInv => \A a \in Account : NextCycle(a) => AllBalanced
<1> SUFFICES ASSUME BooksInv, SealInv, NEW a \in Account, NextCycle(a) PROVE AllBalanced
  OBVIOUS
<1>1. PICK shown \in {0, remote[a].shown} : remote' = [remote EXCEPT ![a] =
            [start |-> EndOf(remote[a].start), used |-> 0, shown |-> shown]]
  BY DEF NextCycle
<1> DEFINE r == [start |-> EndOf(remote[a].start), used |-> 0, shown |-> shown]
<1>2. /\ today >= EndOf(remote[a].start) /\ UNCHANGED sync
      /\ UNCHANGED <<today, stamp, usage, bound, logs, counted, overlap, spent>>
  BY DEF NextCycle, tables, ghosts
<1>3. Known(remote[a]) /\ DOMAIN remote = Account /\ remote[a].start \in Int
  BY DEF BooksInv, BookShape, FigureShape, SealInv, RowShape, RemoteShape
<1>4. Known(r)
  <2>1. today \in Int /\ today <= MaxDay /\ MaxDay \in Int
    BY LedgerAssumption DEF BooksInv, BookShape, TimeShape
  <2>2. EndOf(remote[a].start) \in Int
    BY <1>3, HorizonType DEF EndOf
  <2>3. EndOf(remote[a].start) \in Start
    BY <1>2, <1>3, <2>1, <2>2, NextStart DEF Known
  <2> QED
    BY <1>3, <2>3 DEF Known
<1>5. ASSUME NEW u \in Nat PROVE Ahead(u, r) <= Ahead(u, remote[a]) + 0
  <2>1. Link(shown, 0) = 0 /\ (shown = 0 => Link(u, shown) = 0)
    BY <1>3, LinkSame DEF Known
  <2>2. Late(remote[a]) \in Nat /\ Link(u, remote[a].shown) \in Nat
    BY <1>3, AheadType
  <2> QED
    BY <2>1, <2>2 DEF Ahead, Late
<1>6. /\ spent' \in [Account -> [Start -> Int]]
      /\ \A b \in Account : b # a => spent'[b] = spent[b]
      /\ SpentOn(a)' = SpentOn(a) + 0
  <2>1. SpentOn(a) \in Int
    BY SpentType DEF BooksInv, BookShape
  <2> QED
    BY <1>2, <2>1, SpentSame DEF BooksInv, BookShape, FigureShape
<1>7. remote' = [remote EXCEPT ![a] = r]
  BY <1>1
<1> HIDE DEF r
<1> QED
  BY <1>2, <1>3, <1>4, <1>5, <1>6, <1>7, RemoteBooks

LEMMA CatchUpBooks == BooksInv /\ SealInv => \A a \in Account : CatchUp(a) => AllBalanced
<1> SUFFICES ASSUME BooksInv, SealInv, NEW a \in Account, CatchUp(a) PROVE AllBalanced
  OBVIOUS
<1> DEFINE r == [remote[a] EXCEPT !.shown = remote[a].used]
<1>1. /\ remote[a].shown # remote[a].used /\ UNCHANGED sync
      /\ remote' = [remote EXCEPT ![a].shown = remote[a].used]
      /\ UNCHANGED <<today, stamp, usage, bound, logs, counted, overlap, spent>>
  BY DEF CatchUp, tables, ghosts
<1>2. /\ Known(remote[a]) /\ DOMAIN remote = Account
      /\ DOMAIN remote[a] = {"start", "used", "shown"}
  BY DEF BooksInv, BookShape, FigureShape, SealInv, RowShape, RemoteShape
<1>3. /\ r.start = remote[a].start /\ r.used = remote[a].used /\ r.shown = remote[a].used
      /\ remote' = [remote EXCEPT ![a] = r]
  BY <1>1, <1>2
<1> HIDE DEF r
<1>4. Known(r)
  BY <1>2, <1>3 DEF Known
<1>5. ASSUME NEW u \in Nat PROVE Ahead(u, r) <= Ahead(u, remote[a]) + 0
  <2>1. /\ remote[a].used \in Nat /\ remote[a].shown \in Nat
        /\ remote[a].shown > remote[a].used
    BY <1>1, <1>2 DEF Known
  <2>2. Link(u, r.shown) <= Link(u, remote[a].shown) + Link(remote[a].shown, r.shown)
    BY <1>3, <2>1, LinkTriangle
  <2>3. Late(r) = 0 /\ Late(remote[a]) = Link(remote[a].shown, r.shown)
    BY <1>3, <2>1, LinkSame DEF Late
  <2>4. Link(u, r.shown) \in Nat /\ Link(u, remote[a].shown) \in Nat /\ Late(remote[a]) \in Nat
    BY <1>2, <1>4, AheadType
  <2> QED
    BY <2>2, <2>3, <2>4 DEF Ahead
<1>6. /\ spent' \in [Account -> [Start -> Int]]
      /\ \A b \in Account : b # a => spent'[b] = spent[b]
      /\ SpentOn(a)' = SpentOn(a) + 0
  <2>1. SpentOn(a) \in Int
    BY SpentType DEF BooksInv, BookShape
  <2> QED
    BY <1>1, <2>1, SpentSame DEF BooksInv, BookShape, FigureShape
<1> QED
  BY <1>1, <1>2, <1>3, <1>4, <1>5, <1>6, RemoteBooks

-----------------------------------------------------------------------------
\* Only the remark that it is alone changes of a sync, or it is at its start.
LEMMA RemarkBooks ==
  ASSUME SyncSound, UNCHANGED <<stamp, today>>,
         \A q \in Proc : \/ sync'[q].pc \in {"idle", "fetch"} /\ Sound(sync'[q])
                         \/ /\ Shape(sync[q])
                            /\ \E alone : sync'[q] = [sync[q] EXCEPT !.alone = alone]
  PROVE  SyncSound' /\ \A a \in Account : BooksCalm(a)
<1>1. ASSUME NEW q \in Proc, Shape(sync[q]), NEW alone,
             sync'[q] = [sync[q] EXCEPT !.alone = alone]
      PROVE  /\ sync'[q].pc = sync[q].pc /\ sync'[q].acct = sync[q].acct
             /\ sync'[q].todo = sync[q].todo /\ sync'[q].copy = sync[q].copy
             /\ sync'[q].new = sync[q].new /\ sync'[q].at = sync[q].at
             /\ sync'[q].day = sync[q].day /\ sync'[q].delta = sync[q].delta
  BY <1>1 DEF Shape, Locals
<1> DEFINE same(q) == /\ sync'[q].pc = sync[q].pc /\ sync'[q].acct = sync[q].acct
                      /\ sync'[q].todo = sync[q].todo /\ sync'[q].copy = sync[q].copy
                      /\ sync'[q].new = sync[q].new /\ sync'[q].at = sync[q].at
                      /\ sync'[q].day = sync[q].day /\ sync'[q].delta = sync[q].delta
<1>2. \A q \in Proc : (sync'[q].pc \in {"idle", "fetch"} /\ Sound(sync'[q])) \/ same(q)
  BY <1>1
<1>3. SyncSound'
  BY <1>2 DEF SyncSound, Sound
<1>4. ASSUME NEW q \in Proc, NEW a
      PROVE  /\ Holding(q, a)' => Holding(q, a) /\ sync'[q].new = sync[q].new
             /\ Stamped(q, a)' => /\ Stamped(q, a)
                                  /\ sync'[q].at = sync[q].at /\ sync'[q].day = sync[q].day
             /\ Written(q, a)' => Written(q, a) /\ sync'[q].new = sync[q].new
             /\ Closing(q, a)' => Closing(q, a) /\ sync'[q].delta = sync[q].delta
  <2>1. CASE sync'[q].pc \in {"idle", "fetch"}
    BY <2>1 DEF Holding, Stamped, Written, Closing, Timed, Through
  <2>2. CASE same(q)
    BY <2>2 DEF Holding, Stamped, Written, Closing
  <2> QED
    BY <1>2, <2>1, <2>2
<1> QED
  BY <1>3, <1>4 DEF BooksCalm

LEMMA SyncStartBooks ==
  ASSUME BooksInv, SealInv, NEW p \in Proc, NEW S \in SUBSET Account, SyncStart(p, S)
  PROVE  AllBalanced
<1> DEFINE met == {a \in S : \E q \in Proc \ {p} : a \in Under(q)}
           copy == [b \in Account |-> IF b \in S THEN usage[b] ELSE None]
<1>1. PICK a \in S : sync' = [q \in Proc |->
                IF q = p THEN TakeUp(a, S, copy, met = {})
                ELSE [sync[q] EXCEPT !.alone = @ /\ Under(q) \cap S = {}]]
  BY DEF SyncStart
<1>2. /\ overlap' = [b \in Account |-> overlap[b] \/ b \in met]
      /\ UNCHANGED <<today, stamp, remote, usage, bound, logs, counted, spent>>
  BY DEF SyncStart, tables
<1>3. sync'[p].pc \in {"idle", "fetch"} /\ Sound(sync'[p])
  <2>1. sync'[p] = TakeUp(a, S, copy, met = {})
    BY <1>1
  <2>2. DOMAIN copy = Account /\ \A b \in Account : copy[b] # None => copy[b].total \in Nat
    BY DEF BooksInv, BookShape, FigureShape
  <2> HIDE DEF copy, met
  <2> QED
    BY <2>1, <2>2, TakeUpSound
<1>4. ASSUME NEW q \in Proc, q # p
      PROVE  Shape(sync[q]) /\ \E alone : sync'[q] = [sync[q] EXCEPT !.alone = alone]
  BY <1>1, <1>4 DEF SealInv, SyncShape
<1>5. SyncSound' /\ \A b \in Account : BooksCalm(b)
  BY <1>2, <1>3, <1>4, RemarkBooks DEF BooksInv, BookShape
<1>6. \A b \in Account : BooksKept(b)
  BY <1>2 DEF BooksKept
<1>7. TimeShape' /\ FigureShape'
  BY <1>2 DEF BooksInv, BookShape, TimeShape, FigureShape
<1>8. LogShape'
  BY <1>2 DEF BooksInv, BookShape, LogShape, Row
<1> QED
  BY <1>5, <1>6, <1>7, <1>8, QuietBooks DEF BookShape

-----------------------------------------------------------------------------
\* A step of process p on its own account: the other accounts stay balanced.
LEMMA OwnBooks ==
  ASSUME BooksInv, SealInv, NEW p \in Proc, NEW r, sync' = [sync EXCEPT ![p] = r],
         r.acct = sync[p].acct, Sound(r)', TimeShape', FigureShape', LogShape',
         stamp <= stamp', today' = today,
         \A b \in Account : b # sync[p].acct => BooksKept(b),
         \A a \in Account : a = sync[p].acct => Balanced(a)'
  PROVE  AllBalanced
<1>1. stamp \in Int /\ today \in Int /\ stamp' \in Int
  BY TimeType DEF BooksInv, TimeShape
<1>2. SyncSound'
  BY <1>1, SoundBecomes DEF BooksInv, BookShape, SealInv
<1>3. ASSUME NEW b \in Account, b # sync[p].acct PROVE Balanced(b)'
  <2>1. BooksCalm(b)
    BY <1>3, CalmLocals DEF SealInv
  <2> QED
    BY <1>3, <2>1, BalancedStays DEF BooksInv
<1> QED
  BY <1>2, <1>3 DEF AllBalanced, BookShape

\* If the syncs of its account have not overlapped no other holds any of it.
LEMMA OwnAlone ==
  ASSUME SealInv, NEW p \in Proc, NEW r, sync' = [sync EXCEPT ![p] = r], Shape(r),
         sync[p].pc # "idle", r.acct = sync[p].acct, r.todo = sync[p].todo,
         NEW a \in Account, a = sync[p].acct, ~overlap[a]
  PROVE  /\ sync'[p] = r /\ Fresh(a)
         /\ \A q \in Proc : Holding(q, a)' \/ Stamped(q, a)' \/ Written(q, a)' \/ Closing(q, a)'
                               => q = p
<1>1. Apart(a)' /\ Fresh(a) /\ Apart(a) /\ sync'[p] = r
  BY Alone
<1>2. \A q \in Proc : q # p => sync'[q] = sync[q]
  BY Becomes DEF SealInv
<1>3. a \in Under(p)
  BY DEF Under
<1>4. \A q \in Proc : q # p => sync[q].pc = "idle" \/ sync[q].acct # a
  BY <1>1, <1>3 DEF Apart, Under
<1> QED
  BY <1>1, <1>2, <1>4 DEF Holding, Stamped, Written, Closing, Timed, Through

LEMMA PercentType == \A used \in Nat : Percent(used) \in Int
<1> TAKE used \in Nat
<1>1. PICK n \in Int : n = (100 * used) \div Plan
  BY LedgerAssumption
<1>2. \E x \in {100, n} : \A y \in {100, n} : x <= y
  BY <1>1
<1>3. Min({100, n}) \in {100, n}
  BY <1>2 DEF Min
<1> QED
  BY <1>1, <1>3 DEF Percent

\* The account a sync is for.
LEMMA OwnAccount ==
  ASSUME BooksInv, SealInv, NEW p \in Proc, sync[p].pc # "idle"
  PROVE  /\ Shape(sync[p]) /\ Sound(sync[p])
         /\ \E a \in Account : /\ sync[p].acct = a
                               /\ Known(remote[a]) /\ remote[a].start \in Int
  BY DEF SealInv, SyncShape, RowShape, RemoteShape, BooksInv, BookShape, SyncSound, Sound,
         FigureShape

LEMMA SyncFetchBooks == BooksInv /\ SealInv => \A p \in Proc : SyncFetch(p) => AllBalanced
<1> SUFFICES ASSUME BooksInv, SealInv, NEW p \in Proc, SyncFetch(p) PROVE AllBalanced
  OBVIOUS
<1>1. /\ sync[p].pc = "fetch"
      /\ UNCHANGED <<today, stamp, remote, usage, bound, logs, counted, spent, overlap>>
  BY DEF SyncFetch, tables, ghosts
<1>2. Shape(sync[p]) /\ Sound(sync[p])
  BY <1>1, OwnAccount
<1>3. PICK a \in Account : sync[p].acct = a /\ Known(remote[a]) /\ remote[a].start \in Int
  BY <1>1, OwnAccount
<1> DEFINE old == IF sync[p].copy[a] = None THEN 0 ELSE sync[p].copy[a].total
<1>4. PICK total \in {remote[a].shown, old} :
        /\ total = remote[a].shown /\ total # old => remote[a].shown > 0
        /\ sync' = [sync EXCEPT ![p] =
            [[sync[p] EXCEPT !.new = [start |-> remote[a].start, total |-> total,
                                      pct |-> Percent(remote[a].used)]] EXCEPT !.pc = "seal"]]
  BY <1>3 DEF SyncFetch, Goto
<1> DEFINE new == [start |-> remote[a].start, total |-> total, pct |-> Percent(remote[a].used)]
<1>5. old \in Nat /\ remote[a].shown \in Nat /\ total \in Nat
  BY <1>2, <1>3, <1>4 DEF Known, Sound
<1>6. new # None /\ new.total = total /\ new.start \in Int
  <2>1. Percent(remote[a].used) \in Int
    BY <1>3, PercentType DEF Known
  <2> QED
    BY <1>3, <1>5, <2>1, NoneAssumption
<1> HIDE DEF new
<1>7. PICK r : r = [[sync[p] EXCEPT !.new = new] EXCEPT !.pc = "seal"]
  OBVIOUS
<1>8. /\ DOMAIN r = Locals /\ r = [f \in Locals |-> r[f]]
      /\ r.pc = "seal" /\ r.acct = a /\ r.todo = sync[p].todo
      /\ r.copy = sync[p].copy /\ r.new = new /\ sync' = [sync EXCEPT ![p] = r]
  <2>1. sync' = [sync EXCEPT ![p] = r]
    BY <1>4, <1>7 DEF new
  <2> QED
    BY <1>2, <1>3, <1>7, <2>1 DEF Shape, Locals
<1>9. Shape(r) /\ Sound(r)'
  <2>1. Shape(r)
    BY <1>1, <1>2, <1>3, <1>6, <1>8 DEF Shape
  <2>2. Sound(r)'
    BY <1>1, <1>2, <1>3, <1>5, <1>6, <1>8 DEF Sound, Read, Timed
  <2> QED
    BY <2>1, <2>2
<1>10. TimeShape' /\ FigureShape' /\ LogShape' /\ \A b \in Account : BooksKept(b)
  BY <1>1, TablesStay DEF BooksInv
<1>11. Balanced(a)'
  <2>1. SUFFICES ASSUME ~overlap[a] PROVE (LogOrder(a) /\ Figures(a) /\ Budget(a))'
    BY <1>1 DEF Balanced
  <2>2. LogOrder(a) /\ Figures(a) /\ Budget(a)
    BY <1>2, <1>3, <2>1 DEF BooksInv, Balanced
  <2>3. /\ sync'[p] = r /\ Fresh(a)
        /\ \A q \in Proc : Holding(q, a)' \/ Stamped(q, a)' \/ Written(q, a)' \/ Closing(q, a)'
                               => q = p
    BY <1>1, <1>2, <1>3, <1>8, <1>9, <2>1, OwnAlone
  <2>4. \A q \in Proc : /\ ~Stamped(q, a)' /\ ~Written(q, a)' /\ ~Closing(q, a)'
                        /\ Holding(q, a)' => sync'[q].new.total = total
    BY <1>6, <1>8, <2>3 DEF Stamped, Written, Closing, Timed, Through
  <2>5. old = Figure(usage[a])
    BY <1>1, <1>2, <1>3, <2>3 DEF Fresh, Early, Figure
  <2>6. Logged(a)' = Logged(a) /\ Seen(a)' = Seen(a)
    BY <1>1 DEF Logged, Seen
  <2>7. /\ Logged(a) \in Nat /\ Figure(usage[a]) \in Nat /\ SpentOn(a) \in Int
        /\ Seen(a) \in Int /\ Link(Logged(a), Figure(usage[a])) \in Nat
    BY <1>2, <1>3, <2>2, BudgetType DEF BooksInv
  <2>8. LogOrder(a)'
    BY <1>1, <2>2, <2>4 DEF LogOrder
  <2>9. Figures(a)'
    <3>1. Figure(usage[a]) > 0 => total > 0
      BY <1>4, <1>5, <2>5, <2>7
    <3> QED
      BY <1>1, <2>2, <2>4, <2>6, <3>1 DEF Figures
  <2> HIDE DEF old
  <2>10. Link(Figure(usage[a]), total) + Ahead(total, remote[a]) <= Ahead(Figure(usage[a]), remote[a])
    <3>1. /\ Late(remote[a]) \in Nat
          /\ Link(Figure(usage[a]), remote[a].shown) \in Nat
      BY <1>2, <1>3, <2>7, AheadType
    <3>2. CASE total = remote[a].shown
      <4>1. Link(total, remote[a].shown) = 0
        BY <1>5, <3>2, LinkSame
      <4> QED
        BY <3>1, <3>2, <4>1 DEF Ahead
    <3>3. CASE total = Figure(usage[a])
      <4>1. Link(Figure(usage[a]), total) = 0
        BY <2>7, <3>3, LinkSame
      <4> QED
        BY <3>1, <3>3, <4>1 DEF Ahead
    <3> QED
      BY <1>4, <2>5, <3>2, <3>3
  <2>11. Seen(a) + Link(Logged(a), Figure(usage[a])) + Ahead(Figure(usage[a]), remote[a]) <= SpentOn(a)
    BY <2>2 DEF Budget
  <2>12. Ahead(Figure(usage[a]), remote[a]) \in Nat /\ Ahead(total, remote[a]) \in Nat
         /\ Link(Figure(usage[a]), total) \in Nat
    BY <1>2, <1>3, <1>5, <2>7, AheadType, LinkType
  <2>13. Seen(a) + Link(Logged(a), Figure(usage[a])) + Link(Figure(usage[a]), total)
             + Ahead(total, remote[a]) <= SpentOn(a)
    BY <2>7, <2>10, <2>11, <2>12
  <2>14. SpentOn(a)' = SpentOn(a)
    BY <1>1, SpentSame
  <2>15. counted[a] \in Int
    BY <2>2 DEF Budget
  <2>16. Budget(a)'
    BY <1>1, <2>4, <2>6, <2>11, <2>13, <2>14, <2>15 DEF Budget
  <2> QED
    BY <2>8, <2>9, <2>16
<1> HIDE DEF old
<1>12. stamp <= stamp' /\ today' = today
  BY <1>1, TimeType DEF BooksInv
<1> QED
  BY <1>3, <1>8, <1>9, <1>10, <1>11, <1>12, OwnBooks

LEMMA SyncSealBooks == BooksInv /\ SealInv => \A p \in Proc : SyncSeal(p) => AllBalanced
<1> SUFFICES ASSUME BooksInv, SealInv, NEW p \in Proc, SyncSeal(p) PROVE AllBalanced
  OBVIOUS
<1>1. /\ sync[p].pc = "seal" /\ stamp' = stamp + 1
      /\ UNCHANGED <<today, remote, usage, bound, logs, counted, spent, overlap>>
  BY DEF SyncSeal, ghosts
<1>2. Shape(sync[p]) /\ Sound(sync[p])
  BY <1>1, OwnAccount
<1>3. PICK a \in Account : sync[p].acct = a /\ Known(remote[a])
  BY <1>1, OwnAccount
<1>4. PICK r : r = [[sync[p] EXCEPT !.at = stamp + 1, !.day = today, !.copy[sync[p].acct] = None]
                        EXCEPT !.pc = "update"]
  OBVIOUS
<1>5. /\ DOMAIN r = Locals /\ r = [f \in Locals |-> r[f]]
      /\ r.pc = "update" /\ r.acct = a /\ r.todo = sync[p].todo /\ r.new = sync[p].new
      /\ r.at = stamp + 1 /\ r.day = today
      /\ r.copy = [sync[p].copy EXCEPT ![a] = None] /\ sync' = [sync EXCEPT ![p] = r]
  <2>1. sync' = [sync EXCEPT ![p] = r]
    BY <1>4 DEF SyncSeal, Goto
  <2> QED
    BY <1>2, <1>3, <1>4, <2>1 DEF Shape, Locals
<1>6. today \in Int /\ today \in Nat /\ Created <= today /\ stamp \in Int /\ stamp \in Nat
  BY TimeType DEF BooksInv, BookShape, TimeShape
<1>7. Shape(r) /\ Sound(r)'
  <2>1. DOMAIN r.copy = Account /\ \A b \in Account : r.copy[b] = IF b = a THEN None ELSE sync[p].copy[b]
    BY <1>2, <1>5 DEF Shape
  <2>2. Shape(r)
    BY <1>1, <1>2, <1>3, <1>5, <2>1 DEF Shape
  <2>3. Sound(r)'
    BY <1>1, <1>2, <1>3, <1>5, <1>6, <2>1 DEF Sound, Read, Timed
  <2> QED
    BY <2>2, <2>3
<1>8. TimeShape' /\ FigureShape' /\ LogShape' /\ \A b \in Account : BooksKept(b)
  <2>1. TimeShape' /\ FigureShape'
    BY <1>1, <1>6 DEF BooksInv, BookShape, TimeShape, FigureShape
  <2>2. LogShape'
    BY <1>1, <1>6 DEF BooksInv, BookShape, LogShape, Row
  <2> QED
    BY <1>1, <2>1, <2>2 DEF BooksKept
<1>9. Balanced(a)'
  <2>1. SUFFICES ASSUME ~overlap[a] PROVE (LogOrder(a) /\ Figures(a) /\ Budget(a))'
    BY <1>1 DEF Balanced
  <2>2. LogOrder(a) /\ Figures(a) /\ Budget(a)
    BY <1>3, <2>1 DEF BooksInv, Balanced
  <2>3. /\ sync'[p] = r
        /\ \A q \in Proc : Holding(q, a)' \/ Stamped(q, a)' \/ Written(q, a)' \/ Closing(q, a)'
                               => q = p
    BY <1>1, <1>3, <1>5, <1>7, <2>1, OwnAlone
  <2>4. /\ Holding(p, a)
        /\ \A q \in Proc : /\ ~Written(q, a)' /\ ~Closing(q, a)'
                           /\ Holding(q, a)' => q = p /\ sync'[q].new = sync[p].new
                           /\ Stamped(q, a)' => sync'[q].at = stamp + 1 /\ sync'[q].day = today
    BY <1>1, <1>3, <1>5, <2>3 DEF Holding, Stamped, Written, Closing, Timed, Through
  <2>5. Logged(a)' = Logged(a) /\ Seen(a)' = Seen(a) /\ SpentOn(a)' = SpentOn(a)
    BY <1>1, SpentSame DEF Logged, Seen
  <2>6. LogOrder(a)'
    <3>1. \A l \in logs[a] : l.at < stamp + 1 /\ l.day <= today
      BY <1>6 DEF BooksInv, BookShape, LogShape, Row
    <3> QED
      BY <1>1, <2>2, <2>4, <3>1 DEF LogOrder
  <2>7. Figures(a)'
    BY <1>1, <2>2, <2>4, <2>5 DEF Figures
  <2>8. Budget(a)'
    BY <1>1, <2>2, <2>4, <2>5 DEF Budget
  <2> QED
    BY <2>6, <2>7, <2>8
<1>10. stamp <= stamp' /\ today' = today
  BY <1>1, <1>6
<1> QED
  BY <1>3, <1>5, <1>7, <1>8, <1>9, <1>10, OwnBooks

LEMMA SyncUpdateBooks == BooksInv /\ SealInv => \A p \in Proc : SyncUpdate(p) => AllBalanced
<1> SUFFICES ASSUME BooksInv, SealInv, NEW p \in Proc, SyncUpdate(p) PROVE AllBalanced
  OBVIOUS
<1>1. /\ sync[p].pc = "update"
      /\ UNCHANGED <<today, stamp, remote, bound, logs, counted, spent, overlap>>
  BY DEF SyncUpdate, tables, ghosts
<1>2. CASE Proceed(p) /\ UNCHANGED usage
  BY <1>1, <1>2, ProceedsBooks
<1>3. CASE usage' = [usage EXCEPT ![sync[p].acct] = sync[p].new] /\ Goto(p, sync[p], "monthly")
  <2>1. Shape(sync[p]) /\ Sound(sync[p])
    BY <1>1, OwnAccount
  <2>2. PICK a \in Account : sync[p].acct = a /\ Known(remote[a])
    BY <1>1, OwnAccount
  <2>3. PICK r : r = [sync[p] EXCEPT !.pc = "monthly"]
    OBVIOUS
  <2>4. PICK new : new = sync[p].new
    OBVIOUS
  <2>5. /\ DOMAIN r = Locals /\ r = [f \in Locals |-> r[f]]
        /\ r.pc = "monthly" /\ r.acct = a /\ r.todo = sync[p].todo /\ r.new = new
        /\ r.at = sync[p].at /\ r.day = sync[p].day
        /\ r.copy = sync[p].copy /\ sync' = [sync EXCEPT ![p] = r]
    BY <1>3, <2>1, <2>2, <2>3, <2>4 DEF Shape, Locals, Goto
  <2>6. new # None /\ new.total \in Nat
    BY <1>1, <2>1, <2>4 DEF Sound, Read
  <2>7. Shape(r) /\ Sound(r)'
    BY <1>1, <2>1, <2>2, <2>5, <2>6 DEF Shape, Sound, Read, Timed
  <2>8. \A b \in Account : usage'[b] = IF b = a THEN new ELSE usage[b]
    BY <1>3, <2>2, <2>4 DEF SealInv, RowShape
  <2>9. TimeShape' /\ FigureShape' /\ LogShape' /\ \A b \in Account : b # a => BooksKept(b)
    <3>1. TimeShape' /\ FigureShape'
      BY <1>1, <2>6, <2>8 DEF BooksInv, BookShape, TimeShape, FigureShape
    <3>2. LogShape'
      BY <1>1 DEF BooksInv, BookShape, LogShape, Row
    <3> QED
      BY <1>1, <2>8, <3>1, <3>2 DEF BooksKept
  <2>10. Balanced(a)'
    <3>1. SUFFICES ASSUME ~overlap[a] PROVE (LogOrder(a) /\ Figures(a) /\ Budget(a))'
      BY <1>1 DEF Balanced
    <3>2. LogOrder(a) /\ Figures(a) /\ Budget(a)
      BY <2>2, <3>1 DEF BooksInv, Balanced
    <3>3. /\ sync'[p] = r
          /\ \A q \in Proc : Holding(q, a)' \/ Stamped(q, a)' \/ Written(q, a)' \/ Closing(q, a)'
                                 => q = p
      BY <1>1, <2>2, <2>5, <2>7, <3>1, OwnAlone
    <3>4. /\ Holding(p, a) /\ Stamped(p, a)
          /\ \A q \in Proc : /\ ~Holding(q, a)' /\ ~Closing(q, a)'
                             /\ Written(q, a)' => sync'[q].new = new
                             /\ Stamped(q, a)' => /\ sync'[q].at = sync[p].at
                                                  /\ sync'[q].day = sync[p].day
      BY <1>1, <2>2, <2>5, <3>3 DEF Holding, Stamped, Written, Closing, Timed, Through
    <3>5. Logged(a)' = Logged(a) /\ Seen(a)' = Seen(a) /\ SpentOn(a)' = SpentOn(a)
      BY <1>1, SpentSame DEF Logged, Seen
    <3>6. usage'[a] = new /\ Figure(usage'[a]) = new.total
      BY <2>6, <2>8 DEF Figure
    <3>7. /\ Logged(a) \in Nat /\ Figure(usage[a]) \in Nat /\ SpentOn(a) \in Int
          /\ Seen(a) \in Int /\ Link(Logged(a), Figure(usage[a])) \in Nat
          /\ Link(Figure(usage[a]), new.total) \in Nat
      BY <2>4, <3>2, <3>4, BudgetType DEF BooksInv
    <3>8. LogOrder(a)'
      BY <1>1, <3>2, <3>4 DEF LogOrder
    <3>9. /\ Logged(a) > 0 => Figure(usage[a]) > 0
          /\ Figure(usage[a]) > 0 => new.total > 0
      BY <2>4, <3>2, <3>4 DEF Figures
    <3>10. Figures(a)'
      BY <3>4, <3>5, <3>6, <3>9 DEF Figures
    <3>11. Link(Logged(a), new.total)
               <= Link(Logged(a), Figure(usage[a])) + Link(Figure(usage[a]), new.total)
      BY <2>6, <3>7, <3>9, LinkTriangle
    <3>12. Seen(a) + Link(Logged(a), Figure(usage[a])) + Link(Figure(usage[a]), new.total)
               + Ahead(new.total, remote[a]) <= SpentOn(a)
      BY <2>4, <3>2, <3>4 DEF Budget
    <3>13. Link(Logged(a), new.total) \in Nat /\ Ahead(new.total, remote[a]) \in Nat
      BY <2>2, <2>6, <3>7, LinkType, AheadType
    <3>14. Seen(a) + Link(Logged(a), new.total) + Ahead(new.total, remote[a]) <= SpentOn(a)
      BY <3>7, <3>11, <3>12, <3>13
    <3>15. Budget(a)'
      <4>1. counted[a] \in Int
        BY <3>2 DEF Budget
      <4> QED
        BY <1>1, <3>4, <3>5, <3>6, <3>14, <4>1 DEF Budget
    <3> QED
      BY <3>8, <3>10, <3>15
  <2>11. stamp <= stamp' /\ today' = today
    BY <1>1, TimeType DEF BooksInv
  <2> QED
    BY <2>2, <2>5, <2>7, <2>9, <2>10, <2>11, OwnBooks
<1> QED
  BY <1>2, <1>3 DEF SyncUpdate

LEMMA SyncMonthlyBooks == BooksInv /\ SealInv => \A p \in Proc : SyncMonthly(p) => AllBalanced
<1> SUFFICES ASSUME BooksInv, SealInv, NEW p \in Proc, SyncMonthly(p) PROVE AllBalanced
  OBVIOUS
<1>1. /\ sync[p].pc = "monthly"
      /\ UNCHANGED <<today, stamp, remote, usage, bound, logs, counted, spent, overlap>>
  BY DEF SyncMonthly, ghosts
<1>2. CASE Proceed(p)
  BY <1>1, <1>2, ProceedsBooks
<1>3. CASE sync[p].new.total # 0 /\ Goto(p, sync[p], "record")
  <2>1. Shape(sync[p]) /\ Sound(sync[p])
    BY <1>1, OwnAccount
  <2>2. PICK r : r = [sync[p] EXCEPT !.pc = "record"]
    OBVIOUS
  <2>3. /\ r.pc = "record" /\ r.acct = sync[p].acct /\ r.todo = sync[p].todo
        /\ r.new = sync[p].new /\ r.at = sync[p].at /\ r.day = sync[p].day
        /\ r.copy = sync[p].copy /\ sync' = [sync EXCEPT ![p] = r]
    BY <1>3, <2>1, <2>2 DEF Shape, Locals, Goto
  <2>4. Sound(r)'
    BY <1>1, <1>3, <2>1, <2>3 DEF Sound, Read, Timed
  <2>5. \A a \in Account : BooksCalm(a)
    BY <1>1, <2>3, CalmLocals DEF SealInv, Timed, Through
  <2>6. TimeShape' /\ FigureShape' /\ LogShape' /\ \A a \in Account : BooksKept(a)
    BY <1>1, TablesStay DEF BooksInv
  <2>7. stamp \in Int /\ stamp' \in Int /\ stamp <= stamp' /\ today \in Int /\ today' = today
    BY <1>1, TimeType DEF BooksInv
  <2>8. SyncSound'
    BY <2>3, <2>4, <2>7, SoundBecomes DEF BooksInv, BookShape, SealInv
  <2> QED
    BY <2>5, <2>6, <2>8, QuietBooks DEF BookShape
<1> QED
  BY <1>2, <1>3 DEF SyncMonthly

LEMMA SyncRecordBooks == BooksInv /\ SealInv => \A p \in Proc : SyncRecord(p) => AllBalanced
<1> SUFFICES ASSUME BooksInv, SealInv, NEW p \in Proc, SyncRecord(p) PROVE AllBalanced
  OBVIOUS
<1>1. /\ sync[p].pc = "record"
      /\ UNCHANGED <<today, stamp, remote, usage, bound, logs, counted, spent, overlap>>
  BY DEF SyncRecord, tables, ghosts
<1>2. Shape(sync[p]) /\ Sound(sync[p])
  BY <1>1, OwnAccount
<1>3. PICK a \in Account : sync[p].acct = a /\ Known(remote[a])
  BY <1>1, OwnAccount
<1> DEFINE n == sync[p].new.total
           delta == compute_sync_delta(Newest(logs[a]), sync[p].new.start, n)
<1>4. PICK r, base, month, fresh :
        /\ r = [[sync[p] EXCEPT !.delta = delta, !.base = base, !.month = month, !.fresh = fresh]
                    EXCEPT !.pc = "commit"]
        /\ sync' = [sync EXCEPT ![p] = r]
  BY <1>3 DEF SyncRecord, Goto
<1> HIDE DEF delta
<1>5. /\ DOMAIN r = Locals /\ r = [f \in Locals |-> r[f]]
      /\ r.pc = "commit" /\ r.acct = a /\ r.todo = sync[p].todo
      /\ r.new = sync[p].new /\ r.at = sync[p].at /\ r.day = sync[p].day
      /\ r.copy = sync[p].copy /\ r.delta = delta /\ sync' = [sync EXCEPT ![p] = r]
  <2>1. sync' = [sync EXCEPT ![p] = r]
    BY <1>4
  <2> QED
    BY <1>2, <1>3, <1>4, <2>1 DEF Shape, Locals
<1>6. Shape(r) /\ Sound(r)'
  BY <1>1, <1>2, <1>3, <1>5 DEF Shape, Sound, Read, Timed
<1>7. TimeShape' /\ FigureShape' /\ LogShape' /\ \A b \in Account : BooksKept(b)
  BY <1>1, TablesStay DEF BooksInv
<1>8. Balanced(a)'
  <2>1. SUFFICES ASSUME ~overlap[a] PROVE (LogOrder(a) /\ Figures(a) /\ Budget(a))'
    BY <1>1 DEF Balanced
  <2>2. LogOrder(a) /\ Figures(a) /\ Budget(a)
    BY <1>3, <2>1 DEF BooksInv, Balanced
  <2>3. /\ sync'[p] = r
        /\ \A q \in Proc : Holding(q, a)' \/ Stamped(q, a)' \/ Written(q, a)' \/ Closing(q, a)'
                               => q = p
    BY <1>1, <1>3, <1>5, <1>6, <2>1, OwnAlone
  <2>4. /\ Written(p, a) /\ Stamped(p, a)
        /\ \A q \in Proc : /\ ~Holding(q, a)'
                           /\ Written(q, a)' => sync'[q].new = sync[p].new
                           /\ Closing(q, a)' => sync'[q].delta = delta
                           /\ Stamped(q, a)' => /\ sync'[q].at = sync[p].at
                                                /\ sync'[q].day = sync[p].day
    BY <1>1, <1>3, <1>5, <2>3 DEF Holding, Stamped, Written, Closing, Timed, Through
  <2>5. Logged(a)' = Logged(a) /\ Seen(a)' = Seen(a) /\ SpentOn(a)' = SpentOn(a)
    BY <1>1, SpentSame DEF Logged, Seen
  <2>6. LogOrder(a)'
    BY <1>1, <2>2, <2>4 DEF LogOrder
  <2>7. usage[a] = sync[p].new
    BY <2>2, <2>4 DEF Figures
  <2>8. Figures(a)'
    BY <1>1, <2>2, <2>4, <2>5, <2>7 DEF Figures
  <2>9. Figure(usage[a]) = n /\ n \in Nat
    BY <1>1, <1>2, <2>7 DEF Sound, Read, Figure
  <2>10. delta \in Int /\ delta <= Link(Logged(a), n)
    <3>1. CASE logs[a] = {}
      <4>1. delta = 0
        BY <3>1 DEF delta, compute_sync_delta, Newest
      <4>2. Logged(a) = 0
        BY <3>1 DEF Logged
      <4> QED
        BY <4>1, <4>2 DEF Link
    <3>2. CASE logs[a] # {}
      <4>1. /\ Newest(logs[a]).total \in Nat /\ Newest(logs[a]).total > 0
            /\ Logged(a) = Newest(logs[a]).total
        BY <2>2, <3>2, LastRow DEF BooksInv
      <4> HIDE DEF n
      <4>2. delta \in Nat /\ delta <= Link(Newest(logs[a]).total, n)
        BY <2>9, <4>1, DeltaBound DEF delta
      <4> QED
        BY <4>1, <4>2
    <3> QED
      BY <3>1, <3>2
  <2>11. Seen(a) + Link(Logged(a), n) + Ahead(n, remote[a]) <= SpentOn(a)
    BY <2>2, <2>9 DEF Budget
  <2>12. /\ Logged(a) \in Nat /\ SpentOn(a) \in Int /\ Seen(a) \in Int
         /\ Link(Logged(a), n) \in Nat /\ Ahead(n, remote[a]) \in Nat
    BY <1>3, <2>2, <2>9, BudgetType, AheadType DEF BooksInv
  <2>13. Seen(a) + delta + Ahead(n, remote[a]) <= SpentOn(a)
    BY <2>10, <2>11, <2>12
  <2>14. Budget(a)'
    <3>1. counted[a] \in Int
      BY <2>2 DEF Budget
    <3> HIDE DEF n
    <3> QED
      BY <1>1, <2>4, <2>5, <2>9, <2>10, <2>11, <2>13, <3>1 DEF Budget
  <2> QED
    BY <2>6, <2>8, <2>14
<1>9. stamp <= stamp' /\ today' = today
  BY <1>1, TimeType DEF BooksInv
<1> QED
  BY <1>3, <1>5, <1>6, <1>7, <1>8, <1>9, OwnBooks

LEMMA SyncCommitBooks == BooksInv /\ SealInv => \A p \in Proc : SyncCommit(p) => AllBalanced
<1> SUFFICES ASSUME BooksInv, SealInv, NEW p \in Proc, SyncCommit(p) PROVE AllBalanced
  OBVIOUS
<1>1. /\ sync[p].pc = "commit" /\ Proceed(p)
      /\ UNCHANGED <<today, stamp, remote, usage, bound, spent, overlap>>
  BY DEF SyncCommit
<1>2. CASE UNCHANGED <<logs, counted>>
  BY <1>1, <1>2, ProceedsBooks
<1> DEFINE row == [at |-> sync[p].at, day |-> sync[p].day, cycle |-> sync[p].new.start,
                   total |-> sync[p].new.total, delta |-> sync[p].delta]
<1>3. CASE /\ logs' = [logs EXCEPT ![sync[p].acct] = @ \cup {row}]
           /\ counted' = [counted EXCEPT ![sync[p].acct] = @ + sync[p].delta]
  <2>1. Sound(sync[p])
    BY <1>1, OwnAccount
  <2>2. PICK a \in Account : sync[p].acct = a /\ Known(remote[a])
    BY <1>1, OwnAccount
  <2>3. PICK own : own = row
    OBVIOUS
  <2>4. /\ {"at", "day", "total"} \subseteq DOMAIN own
        /\ own.at = sync[p].at /\ own.day = sync[p].day /\ own.total = sync[p].new.total
        /\ own.total \in Nat /\ own.total > 0 /\ own.at \in Nat /\ own.at <= stamp
        /\ own.day \in Nat /\ Created <= own.day /\ own.day <= today
    BY <1>1, <2>1, <2>3 DEF Sound, Read, Timed
  <2>5. /\ logs' = [logs EXCEPT ![a] = @ \cup {own}]
        /\ counted' = [counted EXCEPT ![a] = @ + sync[p].delta]
    BY <1>3, <2>2, <2>3
  <2> HIDE DEF row
  <2>6. /\ DOMAIN logs' = Account /\ DOMAIN counted' = Account
        /\ \A b \in Account : /\ logs'[b] = IF b = a THEN logs[a] \cup {own} ELSE logs[b]
                              /\ counted'[b] = IF b = a THEN counted[a] + sync[p].delta
                                               ELSE counted[b]
    BY <2>5 DEF BooksInv, BookShape, LogShape, FigureShape
  <2>7. TimeShape' /\ FigureShape'
    BY <1>1, <2>6 DEF BooksInv, BookShape, TimeShape, FigureShape
  <2>8. LogShape'
    <3>1. \A l : Row(l) => Row(l)'
      BY <1>1 DEF Row
    <3>2. Row(own)
      BY <2>4 DEF Row
    <3> QED
      BY <2>6, <3>1, <3>2 DEF BooksInv, BookShape, LogShape
  <2>9. SyncSound' /\ sync'[p].pc \in {"idle", "fetch"} /\ \A b \in Account : BooksCalm(b)
    BY <1>1, ProceedBooks, TimeType DEF BooksInv, BookShape, SealInv
  <2>10. ASSUME NEW b \in Account, b # a PROVE Balanced(b)'
    <3>1. BooksKept(b)
      BY <1>1, <2>6, <2>10 DEF BooksKept
    <3> QED
      BY <2>9, <3>1, BalancedStays DEF BooksInv
  <2>11. Balanced(a)'
    <3>1. SUFFICES ASSUME ~overlap[a] PROVE (LogOrder(a) /\ Figures(a) /\ Budget(a))'
      BY <1>1 DEF Balanced
    <3>2. LogOrder(a) /\ Figures(a) /\ Budget(a) /\ Apart(a)
      BY <2>2, <3>1 DEF BooksInv, Balanced, SealInv, InOrder
    <3>3. Written(p, a) /\ Stamped(p, a) /\ Closing(p, a) /\ a \in Under(p)
      BY <1>1, <2>2 DEF Written, Stamped, Closing, Timed, Through, Under
    <3>4. \A q \in Proc : ~Holding(q, a)' /\ ~Stamped(q, a)' /\ ~Written(q, a)' /\ ~Closing(q, a)'
      <4>1. \A q \in Proc : Holding(q, a) \/ Stamped(q, a) \/ Written(q, a) \/ Closing(q, a)
                               => q = p
        BY <3>2, <3>3 DEF Apart, Under, Holding, Stamped, Written, Closing, Timed, Through
      <4>2. ~Holding(p, a)' /\ ~Stamped(p, a)' /\ ~Written(p, a)' /\ ~Closing(p, a)'
        BY <2>9 DEF Holding, Stamped, Written, Closing, Timed, Through
      <4> QED
        BY <2>9, <4>1, <4>2 DEF BooksCalm
    <3>5. \A l \in logs[a] : l.at < own.at /\ l.day <= own.day /\ l.at \in Int
      BY <2>4, <3>2, <3>3 DEF LogOrder, BooksInv, BookShape, LogShape, Row
    <3>6. \A l \in logs'[a] : l.at <= own.at /\ l.at \in Int
      BY <2>4, <2>6, <3>5
    <3>7. LogOrder(a)'
      <4>1. \A l, k \in logs'[a] : l.at = k.at => l = k
        BY <2>4, <2>6, <3>2, <3>5 DEF LogOrder
      <4>2. \A l, k \in logs'[a] : l.at < k.at => l.day <= k.day
        BY <2>4, <2>6, <3>2, <3>5 DEF LogOrder
      <4> QED
        BY <2>6, <3>4, <3>6, <4>1, <4>2 DEF LogOrder
    <3>8. Logged(a)' = own.total
      <4>1. Newest(logs'[a]) = own
        BY <2>6, <3>6, <3>7, NewestRow DEF LogOrder
      <4> QED
        BY <2>6, <4>1 DEF Logged
    <3>9. usage'[a] = usage[a] /\ usage[a] = sync[p].new /\ Figure(usage[a]) = own.total
      BY <1>1, <2>1, <2>4, <3>2, <3>3 DEF Figures, Figure, Sound, Read
    <3>10. Figures(a)'
      BY <2>4, <3>4, <3>8, <3>9 DEF Figures
    <3>11. /\ sync[p].delta \in Int /\ counted[a] \in Int
           /\ Seen(a) + sync[p].delta + Ahead(own.total, remote[a]) <= SpentOn(a)
      BY <3>2, <3>3, <3>9 DEF Budget
    <3>12. /\ Seen(a)' = Seen(a) + sync[p].delta /\ SpentOn(a)' = SpentOn(a)
           /\ counted'[a] \in Int /\ Seen(a) \in Int /\ SpentOn(a) \in Int
      BY <1>1, <2>6, <3>2, <3>11, SpentSame, BudgetType DEF Seen, Before, BooksInv
    <3>13. Link(own.total, own.total) = 0 /\ Ahead(own.total, remote[a]) \in Nat
      BY <2>2, <2>4, LinkSame, AheadType
    <3>14. Seen(a)' + Link(Logged(a)', own.total) + Ahead(own.total, remote[a]) <= SpentOn(a)'
      BY <3>8, <3>11, <3>12, <3>13
    <3>15. Budget(a)'
      BY <1>1, <3>4, <3>9, <3>12, <3>14 DEF Budget
    <3> QED
      BY <3>7, <3>10, <3>15
  <2> QED
    BY <2>7, <2>8, <2>9, <2>10, <2>11 DEF AllBalanced, BookShape
<1> QED
  BY <1>2, <1>3 DEF SyncCommit

-----------------------------------------------------------------------------
\* The log of a is thinned or made anew, and its newest row stays or goes with
\* all the others.
LEMMA LogsBooks ==
  ASSUME BooksInv, NEW a \in Account, BooksCalm(a), overlap[a] => overlap'[a],
         usage'[a] = usage[a], counted'[a] = counted[a], remote'[a] = remote[a],
         spent'[a] = spent[a],
         LogOrder(a) => LogOrder(a)' /\ Logged(a)' \in {0, Logged(a)}
  PROVE  Balanced(a)'
<1> SUFFICES ASSUME ~overlap'[a] PROVE (LogOrder(a) /\ Figures(a) /\ Budget(a))'
  BY DEF Balanced
<1>1. LogOrder(a) /\ Figures(a) /\ Budget(a)
  BY DEF BooksInv, Balanced
<1>2. LogOrder(a)' /\ Logged(a)' \in {0, Logged(a)}
  BY <1>1
<1>3. Seen(a)' = Seen(a) /\ SpentOn(a)' = SpentOn(a)
  BY SpentSame DEF Seen
<1> DEFINE u == Figure(usage[a])
<1>4. /\ Logged(a) \in Nat /\ u \in Nat /\ SpentOn(a) \in Int /\ Seen(a) \in Int
      /\ Known(remote[a]) /\ Link(Logged(a), u) \in Nat
      /\ \A p \in Proc : Holding(p, a) =>
           sync[p].new.total \in Nat /\ Link(u, sync[p].new.total) \in Nat
  BY <1>1, BudgetType DEF BooksInv
<1>5. Figures(a)'
  BY <1>1, <1>2, <1>4 DEF Figures, BooksCalm
<1>6. Link(Logged(a)', u) <= Link(Logged(a), u) /\ Link(Logged(a)', u) \in Nat
  BY <1>2, <1>4 DEF Link
<1>7. \A v \in Nat : Ahead(v, remote[a]) \in Nat
  BY <1>4, AheadType
<1>8. Seen(a) + Link(Logged(a)', u) + Ahead(u, remote[a]) <= SpentOn(a)
  <2>1. Seen(a) + Link(Logged(a), u) + Ahead(u, remote[a]) <= SpentOn(a)
    BY <1>1 DEF Budget
  <2> HIDE DEF u
  <2> QED
    BY <1>4, <1>6, <1>7, <2>1
<1>9. ASSUME NEW p \in Proc, Holding(p, a)
      PROVE  Seen(a) + Link(Logged(a)', u) + Link(u, sync[p].new.total)
                 + Ahead(sync[p].new.total, remote[a]) <= SpentOn(a)
  <2>1. Seen(a) + Link(Logged(a), u) + Link(u, sync[p].new.total)
            + Ahead(sync[p].new.total, remote[a]) <= SpentOn(a)
    BY <1>1, <1>9 DEF Budget
  <2> HIDE DEF u
  <2> QED
    BY <1>4, <1>6, <1>7, <1>9, <2>1
<1>10. Budget(a)'
  <2>1. counted[a] \in Int
    BY <1>1 DEF Budget
  <2>2. \A p \in Proc : Closing(p, a) =>
          /\ sync[p].delta \in Int
          /\ Seen(a) + sync[p].delta + Ahead(u, remote[a]) <= SpentOn(a)
    BY <1>1 DEF Budget
  <2> QED
    BY <1>3, <1>8, <1>9, <2>1, <2>2 DEF Budget, BooksCalm
<1> QED
  BY <1>2, <1>5, <1>10

LEMMA CleanupBooks == BooksInv /\ cleanup_cursor_usage_history => AllBalanced
<1> SUFFICES ASSUME BooksInv, cleanup_cursor_usage_history PROVE AllBalanced
  OBVIOUS
<1>1. /\ UNCHANGED <<today, stamp, remote, usage, bound, counted, spent, overlap>>
      /\ UNCHANGED sync
      /\ logs' = [a \in Account |-> {l \in logs[a] : l.day >= today - LogDays}]
  BY DEF cleanup_cursor_usage_history, ghosts
<1>2. TimeShape' /\ FigureShape' /\ LogShape'
  <2>1. TimeShape' /\ FigureShape'
    BY <1>1 DEF BooksInv, BookShape, TimeShape, FigureShape
  <2>2. LogShape'
    BY <1>1 DEF BooksInv, BookShape, LogShape, Row
  <2> QED
    BY <2>1, <2>2
<1>3. SyncSound'
  BY <1>1, TimeType, SyncStays DEF BooksInv, BookShape
<1>4. ASSUME NEW a \in Account PROVE Balanced(a)'
  <2>1. logs'[a] = {l \in logs[a] : l.day >= today - LogDays} /\ BooksCalm(a)
    BY <1>1, StandCalm
  <2>2. ASSUME LogOrder(a) PROVE LogOrder(a)' /\ Logged(a)' \in {0, Logged(a)}
    <3>1. \A l \in logs[a] : l.at \in Int /\ l.day \in Int
      BY DEF BooksInv, BookShape, LogShape, Row
    <3>2. LogDays \in Int /\ today \in Int
      BY LedgerAssumption, TimeType DEF BooksInv
    <3>3. CASE logs'[a] = {}
      BY <3>3 DEF LogOrder, Logged
    <3>4. CASE logs'[a] # {}
      <4>1. PICK l \in logs[a] : l.day >= today - LogDays
        BY <2>1, <3>4
      <4>2. PICK m \in logs[a] : m = Newest(logs[a]) /\ \A k \in logs[a] : k.at <= m.at
        BY <2>2, <4>1, LastRow DEF BooksInv
      <4>3. m \in logs'[a]
        <5>1. l.at = m.at => l = m
          BY <2>2 DEF LogOrder
        <5>2. l.at < m.at => l.day <= m.day
          BY <2>2 DEF LogOrder
        <5> QED
          BY <2>1, <3>1, <3>2, <4>1, <4>2, <5>1, <5>2
      <4>4. LogOrder(a)'
        BY <1>1, <2>1, <2>2, <4>2, <4>3 DEF LogOrder, Stamped
      <4>5. Newest(logs'[a]) = m
        BY <2>1, <3>1, <4>2, <4>3, <4>4, NewestRow DEF LogOrder
      <4> QED
        BY <3>4, <4>1, <4>2, <4>4, <4>5 DEF Logged
    <3> QED
      BY <3>3, <3>4
  <2> QED
    BY <1>1, <2>1, <2>2, LogsBooks
<1> QED
  BY <1>2, <1>3, <1>4 DEF AllBalanced, BookShape

\* The rows are those of before but for their increments.
LEMMA RepairBooks ==
    BooksInv /\ SealInv => \A a \in Account : repair_calendar_token_deltas(a) => AllBalanced
<1> SUFFICES ASSUME BooksInv, SealInv, NEW a \in Account, repair_calendar_token_deltas(a)
             PROVE  AllBalanced
  OBVIOUS
<1>0. PICK anew : anew = [l \in logs[a] |-> [l EXCEPT
                          !.delta = compute_sync_delta(Previous(logs[a], l), l.cycle, l.total)]]
  OBVIOUS
<1>1. /\ logs' = [logs EXCEPT ![a] = {anew[l] : l \in logs[a]}]
      /\ overlap' = [overlap EXCEPT ![a] = @ \/ \E p \in Proc : a \in Under(p)]
      /\ sync' = [p \in Proc |-> [sync[p] EXCEPT !.alone = @ /\ a \notin Under(p)]]
      /\ UNCHANGED <<today, stamp, remote, usage, bound, counted, spent>>
  BY <1>0 DEF repair_calendar_token_deltas, recompute_sync_log_deltas
<1>2. ASSUME NEW l \in logs[a]
      PROVE  /\ anew[l].at = l.at /\ anew[l].day = l.day /\ anew[l].total = l.total
             /\ {"at", "day", "total"} \subseteq DOMAIN anew[l] /\ Row(l)
  BY <1>0 DEF BooksInv, BookShape, LogShape, Row
<1>3. /\ DOMAIN logs' = Account
      /\ \A b \in Account : logs'[b] = IF b = a THEN {anew[l] : l \in logs[a]} ELSE logs[b]
  BY <1>1 DEF BooksInv, BookShape, LogShape
<1>4. TimeShape' /\ FigureShape'
  BY <1>1 DEF BooksInv, BookShape, TimeShape, FigureShape
<1>5. LogShape'
  <2>1. ASSUME NEW l \in logs[a] PROVE Row(anew[l])'
    BY <1>1, <1>2 DEF Row
  <2>2. \A l : Row(l) => Row(l)'
    BY <1>1 DEF Row
  <2> QED
    BY <1>3, <2>1, <2>2 DEF BooksInv, BookShape, LogShape
<1>6. SyncSound' /\ \A b \in Account : BooksCalm(b)
  <2>1. ASSUME NEW q \in Proc
        PROVE  Shape(sync[q]) /\ \E alone : sync'[q] = [sync[q] EXCEPT !.alone = alone]
    BY <1>1 DEF SealInv, SyncShape
  <2>2. UNCHANGED <<stamp, today>>
    BY <1>1
  <2> QED
    BY <2>1, <2>2, RemarkBooks DEF BooksInv, BookShape
<1>7. /\ \A b \in Account : b # a => overlap'[b] = overlap[b]
      /\ overlap[a] => overlap'[a]
  <2> DEFINE met == \E p \in Proc : a \in Under(p)
  <2>1. overlap \in [Account -> BOOLEAN] /\ overlap' = [overlap EXCEPT ![a] = overlap[a] \/ met]
    BY <1>1 DEF SealInv, RowShape
  <2> HIDE DEF met
  <2> QED
    BY <2>1
<1>9. ASSUME NEW b \in Account, b # a PROVE Balanced(b)'
  <2>1. BooksKept(b)
    BY <1>1, <1>3, <1>7, <1>9 DEF BooksKept
  <2> QED
    BY <1>6, <2>1, BalancedStays DEF BooksInv
<1>10. Balanced(a)'
  <2>1. ASSUME LogOrder(a) PROVE LogOrder(a)' /\ Logged(a)' \in {0, Logged(a)}
    <3>1. logs'[a] = {anew[l] : l \in logs[a]}
      BY <1>3
    <3>2. \A l, k \in logs'[a] : l.at = k.at => l = k
      BY <1>2, <2>1, <3>1 DEF LogOrder
    <3>3. \A l, k \in logs'[a] : l.at < k.at => l.day <= k.day
      BY <1>2, <2>1, <3>1 DEF LogOrder
    <3>4. \A p \in Proc : Stamped(p, a)' =>
            \A l \in logs'[a] : l.at < sync'[p].at /\ l.day <= sync'[p].day
      BY <1>2, <1>6, <2>1, <3>1 DEF LogOrder, BooksCalm
    <3>5. CASE logs[a] = {}
      BY <3>1, <3>2, <3>3, <3>4, <3>5 DEF LogOrder, Logged
    <3>6. CASE logs[a] # {}
      <4>1. PICK m \in logs[a] : \A k \in logs[a] : k.at <= m.at
        BY <2>1, <3>6 DEF LogOrder
      <4>2. anew[m] \in logs'[a] /\ \A k \in logs'[a] : k.at <= anew[m].at
        BY <1>2, <3>1, <4>1
      <4>3. LogOrder(a)'
        BY <3>2, <3>3, <3>4, <4>2 DEF LogOrder
      <4>4. Newest(logs[a]) = m
        <5>1. \A k \in logs[a] : k.at \in Int
          BY <1>2 DEF Row
        <5> QED
          BY <2>1, <4>1, <5>1, NewestRow DEF LogOrder
      <4>5. Newest(logs'[a]) = anew[m]
        <5>1. \A k \in logs'[a] : k.at \in Int
          BY <1>2, <3>1 DEF Row
        <5> QED
          BY <3>2, <4>2, <5>1, NewestRow
      <4>6. Logged(a)' = Logged(a)
        BY <1>2, <3>6, <4>2, <4>4, <4>5 DEF Logged
      <4> QED
        BY <4>3, <4>6
    <3> QED
      BY <3>5, <3>6
  <2> QED
    BY <1>1, <1>6, <1>7, <2>1, LogsBooks
<1> QED
  BY <1>4, <1>5, <1>6, <1>9, <1>10 DEF AllBalanced, BookShape

-----------------------------------------------------------------------------
LEMMA InitBooks == Init => BooksInv
<1> SUFFICES ASSUME Init PROVE BooksInv
  OBVIOUS
<1>1. /\ Created \in Nat /\ MaxDay \in Nat /\ Lead \in Nat /\ CycleDays \in Nat
      /\ Created <= MaxDay
  BY LedgerAssumption, MetricsAssumption
<1>2. FirstStart \in Start /\ FirstStart \in Int
  <2>1. 0 \in 0..(MaxDay + 1) /\ FirstStart = FirstStart + 0 * CycleDays /\ FirstStart \in Int
    BY <1>1 DEF FirstStart
  <2> QED
    BY <2>1 DEF Start
<1>3. ASSUME NEW a \in Account
      PROVE  Known(remote[a]) /\ remote[a].used = Before /\ remote[a].shown = Before
  BY <1>2 DEF Init, Known, Before
<1>4. BookShape
  <2>1. TimeShape
    BY <1>1 DEF Init, TimeShape
  <2>2. FigureShape
    BY <1>3 DEF Init, FigureShape, Before
  <2>3. LogShape
    BY DEF Init, LogShape
  <2>4. SyncSound
    BY IdleSound DEF Init, SyncSound
  <2> QED
    BY <2>1, <2>2, <2>3, <2>4 DEF BookShape
<1>5. ASSUME NEW a \in Account PROVE Balanced(a)
  <2>1. \A p \in Proc : ~Holding(p, a) /\ ~Stamped(p, a) /\ ~Written(p, a) /\ ~Closing(p, a)
    BY DEF Init, Idle, Holding, Stamped, Written, Closing, Timed, Through
  <2>2. logs[a] = {} /\ usage[a] = None /\ counted[a] = 0
    BY DEF Init
  <2>3. LogOrder(a) /\ Figures(a)
    BY <2>1, <2>2 DEF LogOrder, Figures, Logged
  <2>4. SpentOn(a) = Before
    <3>1. \A s \in Start : spent[a][s] = IF s = FirstStart THEN Before ELSE 0
      BY DEF Init
    <3>2. SumOf(Start, spent[a]) = spent[a][FirstStart] + SumOf(Start \ {FirstStart}, spent[a])
      <4>1. \A s \in Start : spent[a][s] \in Int
        BY <3>1 DEF Before
      <4> QED
        BY <1>2, <4>1, StartFinite, SumRemove
    <3>3. SumOf(Start \ {FirstStart}, spent[a]) = 0
      <4>1. IsFiniteSet(Start \ {FirstStart})
        BY StartFinite, FS_Subset
      <4> QED
        BY <3>1, <4>1, SumZero
    <3> QED
      BY <1>2, <3>1, <3>2, <3>3, SpentSum DEF Before
  <2>5. Budget(a)
    <3>1. Link(Logged(a), Figure(usage[a])) = 0 /\ Ahead(Figure(usage[a]), remote[a]) = 0
      BY <1>3, <2>2 DEF Logged, Figure, Link, Ahead, Late, Before
    <3> QED
      BY <2>1, <2>2, <2>4, <3>1 DEF Budget, Seen, Before
  <2> QED
    BY <2>3, <2>5 DEF Balanced
<1> QED
  BY <1>4, <1>5 DEF BooksInv

LEMMA StepBooks == BooksInv /\ SealInv /\ [Next]_vars => AllBalanced
<1> SUFFICES ASSUME BooksInv, SealInv, [Next]_vars PROVE AllBalanced
  OBVIOUS
<1>1. CASE World
  BY <1>1, NextDayBooks, SpendBooks, NextCycleBooks, CatchUpBooks DEF World
<1>2. ASSUME NEW p \in Proc, Step(p) PROVE AllBalanced
  BY <1>2, SyncFetchBooks, SyncFailsBooks, SyncSealBooks, SyncUpdateBooks, SyncMonthlyBooks,
     SyncRecordBooks, SyncCommitBooks, CancelBooks DEF Step
<1>3. bound \in SUBSET Account
  BY DEF BooksInv, BookShape, TimeShape
<1>4. ASSUME NEW p \in Proc, sync_all_accounts(p) PROVE AllBalanced
  BY <1>3, <1>4, SyncStartBooks DEF sync_all_accounts
<1>5. ASSUME NEW p \in Proc, NEW a \in Account, sync_my_account(p, a) PROVE AllBalanced
  BY <1>5, SyncStartBooks DEF sync_my_account
<1>6. ASSUME NEW a \in Account, unbind(a) \/ repair_calendar_token_deltas(a) PROVE AllBalanced
  BY <1>6, UnbindBooks, RepairBooks
<1>7. CASE cleanup_cursor_usage_history
  BY <1>7, CleanupBooks
<1>8. CASE UNCHANGED vars
  BY <1>8, StutterBooks
<1> QED
  BY <1>1, <1>2, <1>4, <1>5, <1>6, <1>7, <1>8 DEF Next

LEMMA BooksCount == BooksInv => CountedOnce
<1> SUFFICES ASSUME BooksInv, NEW a \in Account, Serial(a)
             PROVE  counted[a] <= SpentOn(a) - Before
  BY DEF CountedOnce
<1>1. LogOrder(a) /\ Figures(a) /\ Budget(a)
  BY DEF BooksInv, Balanced, Serial
<1> DEFINE u == Figure(usage[a])
<1>2. Seen(a) + Link(Logged(a), u) + Ahead(u, remote[a]) <= SpentOn(a)
  BY <1>1 DEF Budget
<1>3. /\ SpentOn(a) \in Int /\ Seen(a) \in Int /\ Link(Logged(a), u) \in Nat
      /\ u \in Nat /\ Known(remote[a])
  BY <1>1, BudgetType DEF BooksInv
<1>4. Ahead(u, remote[a]) \in Nat /\ counted[a] \in Int /\ Seen(a) = counted[a] + Before
  BY <1>1, <1>3, AheadType DEF Budget, Seen
<1> HIDE DEF u
<1> QED
  BY <1>2, <1>3, <1>4 DEF Before

\* The increments booked for an account never exceed the tokens spent on it since
\* it was bound (compute_sync_delta against the newest log row), unless syncs of
\* the account have overlapped: for any accounts, processes and cycles, whatever
\* counts are reset late, answers come without tokens, syncs are cut short, repaired
\* or cleaned up.
THEOREM TokensCountOnce == Spec => []CountedOnce
<1>1. Init => SealInv /\ BooksInv
  BY InitSeal, InitBooks
<1>2. SealInv /\ BooksInv /\ [Next]_vars => SealInv' /\ BooksInv'
  BY StepGood, StepBooks DEF AllGood, Good, SealInv, AllBalanced, BooksInv
<1> QED
  BY <1>1, <1>2, BooksCount, PTL DEF Spec

-----------------------------------------------------------------------------
\* The rows made from the increments agree with the log.

OnDay(rows, d) == {l \in rows : l.day = d}
InMonth(rows, m) == {l \in rows : Month(l.day) = m}

\* What the daily rows f hold of a day.
At(f, d) == IF d \in DOMAIN f THEN f[d] ELSE 0

\* A day of which no log row has been cleaned up, and a month that is made of
\* increments and of such days.
Whole(d) == d >= today - LogDays
Counts(m) == m # Month(Created) /\ Whole(MonthStart(m))

IsFunction(f) == f = [x \in DOMAIN f |-> f[x]]

TableShape ==
    /\ DOMAIN daily = Account /\ DOMAIN calendar = Account
    /\ \A a \in Account :
         /\ IsFiniteSet(logs[a])
         /\ \A l \in logs[a] : l.delta \in Nat /\ IsFunction(l) /\ "delta" \in DOMAIN l
         /\ IsFunction(daily[a]) /\ DOMAIN daily[a] \subseteq Day
         /\ IsFunction(calendar[a]) /\ DOMAIN calendar[a] \subseteq Nat
    /\ \A p \in Proc : sync[p].pc = "commit" => sync[p].delta \in Nat

DayRight(a) == \A d \in Day : Whole(d) => At(daily[a], d) = DeltaSum(OnDay(logs[a], d))

MonthRight(a) ==
    \A m \in DOMAIN calendar[a] : Counts(m) => calendar[a][m] = DeltaSum(InMonth(logs[a], m))

\* What a sync has read is still what it builds on when it commits.
RightToWrite(r, a) ==
    /\ Whole(r.day) => r.base = IF r.day \in DOMAIN daily[a] THEN daily[a][r.day] ELSE None
    /\ Counts(Month(r.day)) => r.month = DeltaSum(InMonth(logs[a], Month(r.day))) + r.delta

Agrees(a) ==
    ~overlap[a] => /\ DayRight(a) /\ MonthRight(a)
                   /\ \A p \in Proc : Closing(p, a) => RightToWrite(sync[p], a)
AgreeInv == TableShape /\ \A a \in Account : Agrees(a)
AllAgree == TableShape' /\ \A a \in Account : Agrees(a)'

-----------------------------------------------------------------------------
LEMMA MonthNat == \A day \in Nat : Month(day) \in Nat
  BY MetricsAssumption DEF Month

\* The rows of the log of a day, or of a month, make a sum that grows with it.
LEMMA PartSum ==
  ASSUME NEW rows, IsFiniteSet(rows), \A l \in rows : l.delta \in Nat, NEW part \in SUBSET rows
  PROVE  IsFiniteSet(part) /\ DeltaSum(part) \in Nat /\ \A l \in part : l.delta <= DeltaSum(part)
<1>1. IsFiniteSet(part)
  BY FS_Subset
<1> QED
  BY <1>1, DeltaNat

LEMMA PartGrows ==
  ASSUME NEW rows, IsFiniteSet(rows), \A l \in rows : l.delta \in Nat,
         NEW own, own \notin rows, own.delta \in Nat, own.day \in Int
  PROVE  /\ \A d : DeltaSum(OnDay(rows \cup {own}, d))
                     = IF own.day = d THEN DeltaSum(OnDay(rows, d)) + own.delta
                       ELSE DeltaSum(OnDay(rows, d))
         /\ \A m : DeltaSum(InMonth(rows \cup {own}, m))
                     = IF Month(own.day) = m THEN DeltaSum(InMonth(rows, m)) + own.delta
                       ELSE DeltaSum(InMonth(rows, m))
<1>1. ASSUME NEW part \in SUBSET rows
      PROVE  DeltaSum(part \cup {own}) = DeltaSum(part) + own.delta
  <2>1. IsFiniteSet(part)
    BY PartSum
  <2>2. own \notin part /\ \A l \in part \cup {own} : l.delta \in Int
    OBVIOUS
  <2> QED
    BY <2>1, <2>2, DeltaAdd
<1>2. ASSUME NEW d
      PROVE  DeltaSum(OnDay(rows \cup {own}, d))
                     = IF own.day = d THEN DeltaSum(OnDay(rows, d)) + own.delta
                       ELSE DeltaSum(OnDay(rows, d))
  <2>1. OnDay(rows, d) \in SUBSET rows
    BY DEF OnDay
  <2>2. OnDay(rows \cup {own}, d) = IF own.day = d THEN OnDay(rows, d) \cup {own}
                                    ELSE OnDay(rows, d)
    BY DEF OnDay
  <2> HIDE DEF OnDay
  <2> QED
    BY <1>1, <2>1, <2>2
<1>3. ASSUME NEW m
      PROVE  DeltaSum(InMonth(rows \cup {own}, m))
                     = IF Month(own.day) = m THEN DeltaSum(InMonth(rows, m)) + own.delta
                       ELSE DeltaSum(InMonth(rows, m))
  <2>1. InMonth(rows, m) \in SUBSET rows
    BY DEF InMonth
  <2>2. InMonth(rows \cup {own}, m) = IF Month(own.day) = m THEN InMonth(rows, m) \cup {own}
                                      ELSE InMonth(rows, m)
    BY DEF InMonth
  <2> HIDE DEF InMonth
  <2> QED
    BY <1>1, <2>1, <2>2
<1> QED
  BY <1>2, <1>3

\* What is booked when a total follows the newest row of a log.
LEMMA NewestDelta ==
  ASSUME NEW rows, IsFiniteSet(rows), \A l \in rows : Row(l), NEW cycle, NEW total \in Nat
  PROVE  compute_sync_delta(Newest(rows), cycle, total) \in Nat
<1>1. CASE rows = {}
  BY <1>1 DEF Newest, compute_sync_delta
<1>2. CASE rows # {}
  <2>1. \A l \in rows : l.at \in Int
    BY DEF Row
  <2>2. Newest(rows) \in rows
    BY <1>2, <2>1, NewestIn
  <2>3. Newest(rows).total \in Nat /\ Newest(rows).total > 0
    BY <2>2 DEF Row
  <2> QED
    BY <2>3, DeltaBound
<1> QED
  BY <1>1, <1>2

-----------------------------------------------------------------------------
\* The books are left alone, and no sync comes to the end of its own way.
CommitsCalm ==
    \A q \in Proc : sync'[q].pc = "commit" =>
        /\ sync[q].pc = "commit" /\ sync'[q].acct = sync[q].acct
        /\ sync'[q].delta = sync[q].delta /\ sync'[q].base = sync[q].base
        /\ sync'[q].month = sync[q].month /\ sync'[q].day = sync[q].day
        /\ sync'[q].new = sync[q].new /\ sync'[q].at = sync[q].at

TablesStand ==
    /\ UNCHANGED <<logs, daily, calendar, counted>>
    /\ today \in Int /\ today' \in Int /\ today <= today'
    /\ \A a \in Account : overlap[a] => overlap'[a]

BooksStay(a) ==
    /\ logs'[a] = logs[a] /\ daily'[a] = daily[a] /\ calendar'[a] = calendar[a]
    /\ counted'[a] = counted[a]
    /\ today \in Int /\ today' \in Int /\ today <= today'
    /\ overlap[a] => overlap'[a]

LEMMA LaterCutoff == \A x, y, n, d \in Int : x <= y /\ d >= y - n => d >= x - n
  OBVIOUS

LEMMA AgreesStay ==
  ASSUME SyncSound, TableShape, CommitsCalm, NEW a \in Account, BooksStay(a), Agrees(a)
  PROVE  Agrees(a)'
<1> SUFFICES ASSUME ~overlap'[a]
             PROVE  /\ DayRight(a)' /\ MonthRight(a)'
                    /\ \A p \in Proc : Closing(p, a)' => RightToWrite(sync[p], a)'
  BY DEF Agrees
<1>1. /\ DayRight(a) /\ MonthRight(a)
      /\ \A p \in Proc : Closing(p, a) => RightToWrite(sync[p], a)
  BY DEF Agrees, BooksStay
<1>2. LogDays \in Int /\ Created \in Int /\ MonthDays \in Int /\ today \in Int /\ today' \in Int
      /\ today <= today'
  BY LedgerAssumption, MetricsAssumption DEF BooksStay
<1>3. \A d \in Int : Whole(d)' => Whole(d)
  BY <1>2, LaterCutoff DEF Whole
<1>4. \A m \in Int : Counts(m)' => Counts(m)
  BY <1>2, <1>3 DEF Counts, MonthStart
<1>5. DayRight(a)'
  <2>1. \A d \in Day : d \in Int
    BY LedgerAssumption DEF Day
  <2> QED
    BY <1>1, <1>3, <2>1 DEF DayRight, BooksStay
<1>6. MonthRight(a)'
  BY <1>1, <1>4 DEF MonthRight, BooksStay, TableShape
<1>7. ASSUME NEW p \in Proc, Closing(p, a)' PROVE RightToWrite(sync[p], a)'
  <2>1. RightToWrite(sync[p], a)
    BY <1>1, <1>7 DEF Closing, CommitsCalm
  <2>2. /\ sync'[p].delta = sync[p].delta /\ sync'[p].base = sync[p].base
        /\ sync'[p].month = sync[p].month /\ sync'[p].day = sync[p].day
        /\ sync[p].pc = "commit"
    BY <1>7 DEF Closing, CommitsCalm
  <2>3. sync[p].day \in Int /\ Month(sync[p].day) \in Int
    BY <2>2, MonthBegins DEF SyncSound, Sound, Timed
  <2> QED
    BY <1>3, <1>4, <2>1, <2>2, <2>3 DEF RightToWrite, BooksStay
<1> QED
  BY <1>5, <1>6, <1>7

LEMMA StandAgree ==
  ASSUME SyncSound, AgreeInv, TablesStand, CommitsCalm
  PROVE  AllAgree
<1>1. TableShape'
  BY DEF AgreeInv, TableShape, TablesStand, CommitsCalm
<1>2. \A a \in Account : BooksStay(a)
  BY DEF TablesStand, BooksStay
<1> QED
  BY <1>1, <1>2, AgreesStay DEF AgreeInv, AllAgree

LEMMA TablesSame ==
  ASSUME BooksInv, UNCHANGED <<today, logs, daily, calendar, counted>>, UNCHANGED overlap
  PROVE  TablesStand
<1>1. today \in Int /\ today' = today
  BY TimeType DEF BooksInv
<1>2. today <= today' /\ today' \in Int
  BY <1>1
<1> QED
  BY <1>1, <1>2 DEF TablesStand

\* A step that leaves one process with the locals r.
LEMMA LocalsStand ==
  ASSUME SyncShape, NEW p \in Proc, NEW r, sync' = [sync EXCEPT ![p] = r], r.pc # "commit"
  PROVE  CommitsCalm
<1>1. \A q \in Proc : sync'[q] = IF q = p THEN r ELSE sync[q]
  BY DEF SyncShape
<1> QED
  BY <1>1 DEF CommitsCalm

LEMMA ProceedStand ==
  ASSUME SyncShape, NEW p \in Proc, Proceed(p)
  PROVE  CommitsCalm
<1>1. CASE sync' = [sync EXCEPT ![p] = Idle]
  BY <1>1, IdleShape, LocalsStand
<1>2. CASE \E a \in sync[p].todo : sync' = [sync EXCEPT ![p] =
               TakeUp(a, sync[p].todo, sync[p].copy, sync[p].alone)]
  <2>1. PICK a \in sync[p].todo : sync' = [sync EXCEPT ![p] =
               TakeUp(a, sync[p].todo, sync[p].copy, sync[p].alone)]
    BY <1>2
  <2>2. TakeUp(a, sync[p].todo, sync[p].copy, sync[p].alone).pc = "fetch"
    BY DEF TakeUp, Idle
  <2> QED
    BY <2>1, <2>2, LocalsStand
<1> QED
  BY <1>1, <1>2 DEF Proceed

LEMMA RemarkStand ==
  ASSUME \A q \in Proc : \/ sync'[q].pc = "fetch"
                         \/ /\ Shape(sync[q])
                            /\ \E alone : sync'[q] = [sync[q] EXCEPT !.alone = alone]
  PROVE  CommitsCalm
<1>1. ASSUME NEW q \in Proc, Shape(sync[q]), NEW alone,
             sync'[q] = [sync[q] EXCEPT !.alone = alone]
      PROVE  /\ sync'[q].pc = sync[q].pc /\ sync'[q].acct = sync[q].acct
             /\ sync'[q].delta = sync[q].delta /\ sync'[q].base = sync[q].base
             /\ sync'[q].month = sync[q].month /\ sync'[q].day = sync[q].day
             /\ sync'[q].new = sync[q].new /\ sync'[q].at = sync[q].at
  BY <1>1 DEF Shape, Locals
<1> QED
  BY <1>1 DEF CommitsCalm

LEMMA StartStands ==
  ASSUME BooksInv, SealInv, NEW p \in Proc, NEW S \in SUBSET Account, SyncStart(p, S)
  PROVE  TablesStand /\ CommitsCalm
<1> DEFINE met == {a \in S : \E q \in Proc \ {p} : a \in Under(q)}
           copy == [b \in Account |-> IF b \in S THEN usage[b] ELSE None]
<1>1. PICK a \in S : sync' = [q \in Proc |->
                IF q = p THEN TakeUp(a, S, copy, met = {})
                ELSE [sync[q] EXCEPT !.alone = @ /\ Under(q) \cap S = {}]]
  BY DEF SyncStart
<1>2. /\ overlap' = [b \in Account |-> overlap[b] \/ b \in met]
      /\ UNCHANGED <<today, logs, daily, calendar, counted>>
  BY DEF SyncStart, tables
<1> HIDE DEF copy, met
<1>3. sync'[p].pc = "fetch"
  BY <1>1 DEF TakeUp, Idle
<1>4. ASSUME NEW q \in Proc, q # p
      PROVE  Shape(sync[q]) /\ \E alone : sync'[q] = [sync[q] EXCEPT !.alone = alone]
  BY <1>1, <1>4 DEF SealInv, SyncShape
<1>5. today \in Int
  BY TimeType DEF BooksInv
<1> QED
  <2>1. CommitsCalm
    BY <1>3, <1>4, RemarkStand
  <2>2. today <= today' /\ today' \in Int
    BY <1>2, <1>5
  <2> QED
    BY <1>2, <1>5, <2>1, <2>2 DEF TablesStand

\* The steps that write the books, or read them to do so.
Books == \/ \E p \in Proc : SyncRecord(p) \/ SyncCommit(p)
         \/ \E a \in Account : repair_calendar_token_deltas(a)
         \/ cleanup_cursor_usage_history

LEMMA OthersStand ==
  ASSUME BooksInv, SealInv, [Next]_vars, ~Books
  PROVE  TablesStand /\ CommitsCalm
<1>1. today \in Int /\ SyncShape /\ bound \in SUBSET Account
  BY TimeType DEF BooksInv, SealInv, BookShape, TimeShape
<1>2. CASE World
  <2>1. UNCHANGED sync /\ UNCHANGED <<logs, daily, calendar, counted>> /\ UNCHANGED overlap
    BY <1>2 DEF World, NextDay, Spend, NextCycle, CatchUp, tables, ghosts
  <2>2. today' \in Int /\ today <= today'
    <3>1. today' = today \/ today' = today + 1
      BY <1>2 DEF World, NextDay, Spend, NextCycle, CatchUp
    <3> QED
      BY <1>1, <3>1
  <2> QED
    BY <1>1, <2>1, <2>2 DEF TablesStand, CommitsCalm
<1>3. ASSUME NEW p \in Proc, Step(p) PROVE TablesStand /\ CommitsCalm
  <2>1. CASE SyncFetch(p)
    <3>1. /\ sync[p].pc = "fetch" /\ UNCHANGED <<today, logs, daily, calendar, counted>> /\ UNCHANGED overlap
      BY <2>1 DEF SyncFetch, tables, ghosts
    <3>2. PICK new : sync' = [sync EXCEPT ![p] = [[sync[p] EXCEPT !.new = new] EXCEPT !.pc = "seal"]]
      BY <2>1 DEF SyncFetch, Goto
    <3>3. [[sync[p] EXCEPT !.new = new] EXCEPT !.pc = "seal"].pc = "seal"
      BY <1>1 DEF SyncShape, Shape, Locals
    <3> QED
      BY <1>1, <3>1, <3>2, <3>3, LocalsStand, TablesSame
  <2>2. CASE SyncFails(p)
    BY <1>1, <2>2, ProceedStand, TablesSame DEF SyncFails, tables, ghosts
  <2>3. CASE SyncSeal(p)
    <3>1. UNCHANGED <<today, logs, daily, calendar, counted>> /\ UNCHANGED overlap
      BY <2>3 DEF SyncSeal, tables, ghosts
    <3>2. PICK r : /\ r = [[sync[p] EXCEPT !.at = stamp + 1, !.day = today,
                                           !.copy[sync[p].acct] = None] EXCEPT !.pc = "update"]
                   /\ sync' = [sync EXCEPT ![p] = r]
      BY <2>3 DEF SyncSeal, Goto
    <3>3. r.pc = "update"
      BY <1>1, <3>2 DEF SyncShape, Shape, Locals
    <3> QED
      BY <1>1, <3>1, <3>2, <3>3, LocalsStand, TablesSame
  <2>4. CASE SyncUpdate(p)
    <3>1. UNCHANGED <<today, logs, daily, calendar, counted>> /\ UNCHANGED overlap
      BY <2>4 DEF SyncUpdate, tables, ghosts
    <3>2. [sync[p] EXCEPT !.pc = "monthly"].pc = "monthly"
      BY <1>1 DEF SyncShape, Shape, Locals
    <3>3. sync' = [sync EXCEPT ![p] = [sync[p] EXCEPT !.pc = "monthly"]] \/ Proceed(p)
      BY <2>4 DEF SyncUpdate, Goto
    <3> QED
      BY <1>1, <3>1, <3>2, <3>3, LocalsStand, ProceedStand, TablesSame
  <2>5. CASE SyncMonthly(p)
    <3>1. UNCHANGED <<today, logs, daily, calendar, counted>> /\ UNCHANGED overlap
      BY <2>5 DEF SyncMonthly, ghosts
    <3>2. [sync[p] EXCEPT !.pc = "record"].pc = "record"
      BY <1>1 DEF SyncShape, Shape, Locals
    <3>3. sync' = [sync EXCEPT ![p] = [sync[p] EXCEPT !.pc = "record"]] \/ Proceed(p)
      BY <2>5 DEF SyncMonthly, Goto
    <3> QED
      BY <1>1, <3>1, <3>2, <3>3, LocalsStand, ProceedStand, TablesSame
  <2>6. CASE Cancel(p)
    BY <1>1, <2>6, IdleShape, LocalsStand, TablesSame DEF Cancel, tables, ghosts
  <2> QED
    BY <1>3, <2>1, <2>2, <2>3, <2>4, <2>5, <2>6 DEF Step, Books
<1>4. ASSUME NEW p \in Proc, sync_all_accounts(p) PROVE TablesStand /\ CommitsCalm
  BY <1>1, <1>4, StartStands DEF sync_all_accounts
<1>5. ASSUME NEW p \in Proc, NEW a \in Account, sync_my_account(p, a)
      PROVE  TablesStand /\ CommitsCalm
  BY <1>5, StartStands DEF sync_my_account
<1>6. ASSUME NEW a \in Account, unbind(a) PROVE TablesStand /\ CommitsCalm
  BY <1>6, TablesSame DEF unbind, tables, ghosts, CommitsCalm
<1>7. CASE UNCHANGED vars
  BY <1>7, TablesSame DEF vars, tables, ghosts, CommitsCalm
<1> QED
  BY <1>2, <1>3, <1>4, <1>5, <1>6, <1>7 DEF Next, Books

-----------------------------------------------------------------------------
\* The row that a sync is to log.
Entry(r, delta) == [at |-> r.at, day |-> r.day, cycle |-> r.new.start, total |-> r.new.total,
                    delta |-> delta]

LEMMA RecordReads ==
  ASSUME BooksInv, SealInv, TableShape, NEW p \in Proc, SyncRecord(p)
  PROVE  \E a \in Account, delta \in Nat : \E r :
           /\ sync[p].pc = "record" /\ sync[p].acct = a /\ sync' = [sync EXCEPT ![p] = r]
           /\ \A q \in Proc : sync'[q] = IF q = p THEN r ELSE sync[q]
           /\ delta = compute_sync_delta(Newest(logs[a]), r.new.start, r.new.total)
           /\ r.pc = "commit" /\ r.acct = a /\ r.delta = delta
           /\ r.at = sync[p].at /\ r.day = sync[p].day /\ r.new = sync[p].new
           /\ r.base = IF r.day \in DOMAIN daily[a] THEN daily[a][r.day] ELSE None
           /\ r.month = resolve_calendar_month(r.new, Month(r.day),
                            logs[a] \cup {Entry(r, delta)}, Created, today)
<1>1. sync[p].pc = "record" /\ Shape(sync[p]) /\ Sound(sync[p])
  BY OwnAccount DEF SyncRecord
<1>2. PICK a \in Account : sync[p].acct = a
  BY <1>1, OwnAccount
<1>3. PICK s : s = sync[p]
  OBVIOUS
<1>4. PICK delta : delta = compute_sync_delta(Newest(logs[a]), s.new.start, s.new.total)
  OBVIOUS
<1>5. PICK month : month = resolve_calendar_month(s.new, Month(s.day),
                            logs[a] \cup {Entry(s, delta)}, Created, today)
  OBVIOUS
<1>6. PICK base : base = IF s.day \in DOMAIN daily[a] THEN daily[a][s.day] ELSE None
  OBVIOUS
<1>7. PICK r, fresh :
        /\ r = [[s EXCEPT !.delta = delta, !.base = base, !.month = month, !.fresh = fresh]
                    EXCEPT !.pc = "commit"]
        /\ sync' = [sync EXCEPT ![p] = r]
  <2>1. Entry(s, delta) = [at |-> s.at, day |-> s.day, cycle |-> s.new.start,
                           total |-> s.new.total, delta |-> delta]
    BY DEF Entry
  <2> QED
    BY <1>2, <1>3, <1>4, <1>5, <1>6, <2>1 DEF SyncRecord, Goto
<1>8. /\ r.pc = "commit" /\ r.acct = s.acct /\ r.delta = delta /\ r.base = base
      /\ r.month = month /\ r.at = s.at /\ r.day = s.day /\ r.new = s.new
  BY <1>1, <1>3, <1>7 DEF Shape, Locals
<1>9. delta \in Nat
  <2>1. IsFiniteSet(logs[a]) /\ \A l \in logs[a] : Row(l)
    BY DEF TableShape, BooksInv, BookShape, LogShape
  <2>2. s.new.total \in Nat
    BY <1>1, <1>3 DEF Sound, Read
  <2> QED
    BY <1>4, <2>1, <2>2, NewestDelta
<1>10. Entry(r, delta) = Entry(s, delta)
  BY <1>8 DEF Entry
<1>11. sync' = [sync EXCEPT ![p] = r] /\ \A q \in Proc : sync'[q] = IF q = p THEN r ELSE sync[q]
  BY <1>7 DEF SealInv, SyncShape
<1> WITNESS a \in Account, delta \in Nat
<1> WITNESS r
<1> QED
  BY <1>1, <1>2, <1>3, <1>4, <1>5, <1>6, <1>8, <1>10, <1>11

LEMMA SyncRecordAgree ==
  BooksInv /\ SealInv /\ AgreeInv => \A p \in Proc : SyncRecord(p) => AllAgree
<1> SUFFICES ASSUME BooksInv, SealInv, AgreeInv, NEW p \in Proc, SyncRecord(p) PROVE AllAgree
  OBVIOUS
<1>1. UNCHANGED <<today, logs, daily, calendar, counted>> /\ UNCHANGED overlap
  BY DEF SyncRecord, tables, ghosts
<1>0. PICK a \in Account, delta \in Nat : \E r :
           /\ sync[p].pc = "record" /\ sync[p].acct = a /\ sync' = [sync EXCEPT ![p] = r]
           /\ \A q \in Proc : sync'[q] = IF q = p THEN r ELSE sync[q]
           /\ delta = compute_sync_delta(Newest(logs[a]), r.new.start, r.new.total)
           /\ r.pc = "commit" /\ r.acct = a /\ r.delta = delta
           /\ r.at = sync[p].at /\ r.day = sync[p].day /\ r.new = sync[p].new
           /\ r.base = IF r.day \in DOMAIN daily[a] THEN daily[a][r.day] ELSE None
           /\ r.month = resolve_calendar_month(r.new, Month(r.day),
                            logs[a] \cup {Entry(r, delta)}, Created, today)
  BY RecordReads DEF AgreeInv
<1>2. PICK r :
           /\ sync[p].pc = "record" /\ sync[p].acct = a /\ sync' = [sync EXCEPT ![p] = r]
           /\ \A q \in Proc : sync'[q] = IF q = p THEN r ELSE sync[q]
           /\ delta = compute_sync_delta(Newest(logs[a]), r.new.start, r.new.total)
           /\ r.pc = "commit" /\ r.acct = a /\ r.delta = delta
           /\ r.at = sync[p].at /\ r.day = sync[p].day /\ r.new = sync[p].new
           /\ r.base = IF r.day \in DOMAIN daily[a] THEN daily[a][r.day] ELSE None
           /\ r.month = resolve_calendar_month(r.new, Month(r.day),
                            logs[a] \cup {Entry(r, delta)}, Created, today)
  BY <1>0
<1>3. TableShape'
  BY <1>1, <1>2 DEF AgreeInv, TableShape
<1>4. ASSUME ~overlap[a] PROVE RightToWrite(r, a)
  <2>1. PICK own : own = Entry(r, delta)
    OBVIOUS
  <2>2. own.at = r.at /\ own.day = r.day /\ own.delta = delta /\ r.day \in Int /\ r.at \in Int
    BY <1>2, <2>1 DEF Entry, BooksInv, BookShape, SyncSound, Sound, Timed
  <2>3. own \notin logs[a]
    <3>1. \A l \in logs[a] : l.at < r.at /\ l.at \in Int
      BY <1>2, <1>4 DEF BooksInv, Balanced, LogOrder, Stamped, Timed, BookShape, LogShape, Row
    <3> QED
      BY <2>2, <3>1
  <2>4. DeltaSum(InMonth(logs[a] \cup {own}, Month(r.day)))
            = DeltaSum(InMonth(logs[a], Month(r.day))) + delta
    <3>1. IsFiniteSet(logs[a]) /\ \A l \in logs[a] : l.delta \in Nat
      BY DEF AgreeInv, TableShape
    <3>2. own.delta \in Nat /\ own.day \in Int
      BY <2>2
    <3>3. \A m : DeltaSum(InMonth(logs[a] \cup {own}, m))
                   = IF Month(own.day) = m THEN DeltaSum(InMonth(logs[a], m)) + own.delta
                     ELSE DeltaSum(InMonth(logs[a], m))
      BY <2>3, <3>1, <3>2, PartGrows
    <3> QED
      BY <2>2, <3>3
  <2>5. Counts(Month(r.day)) => r.month = DeltaSum(InMonth(logs[a] \cup {own}, Month(r.day)))
    BY <1>2, <2>1 DEF Counts, resolve_calendar_month, _incremental_month_tokens, InMonth
  <2> QED
    BY <1>2, <2>4, <2>5 DEF RightToWrite
<1>5. ASSUME NEW b \in Account PROVE Agrees(b)'
  <2>1. SUFFICES ASSUME ~overlap[b]
                 PROVE  /\ DayRight(b)' /\ MonthRight(b)'
                        /\ \A q \in Proc : Closing(q, b)' => RightToWrite(sync[q], b)'
    BY <1>1 DEF Agrees
  <2>2. /\ DayRight(b) /\ MonthRight(b)
        /\ \A q \in Proc : Closing(q, b) => RightToWrite(sync[q], b)
    BY <2>1 DEF AgreeInv, Agrees
  <2>3. DayRight(b)' /\ MonthRight(b)'
    BY <1>1, <2>2 DEF DayRight, MonthRight, Whole, Counts
  <2>4. ASSUME NEW q \in Proc, Closing(q, b)' PROVE RightToWrite(sync'[q], b)
    BY <1>2, <1>4, <2>1, <2>2, <2>4 DEF Closing
  <2>5. \A s : RightToWrite(s, b) => RightToWrite(s, b)'
    BY <1>1 DEF RightToWrite, Whole, Counts
  <2> QED
    BY <2>3, <2>4, <2>5
<1> QED
  BY <1>3, <1>5 DEF AllAgree

LEMMA PutShape ==
  \A f, k, v : IsFunction(Put(f, k, v)) /\ DOMAIN Put(f, k, v) = DOMAIN f \cup {k}
  BY DEF Put, IsFunction

LEMMA PutAt ==
  ASSUME NEW f, NEW k, NEW v
  PROVE  /\ Put(f, k, v)[k] = v
         /\ \A x \in DOMAIN f : x # k => Put(f, k, v)[x] = f[x]
         /\ \A d : At(Put(f, k, v), d) = IF d = k THEN v ELSE At(f, d)
  BY DEF Put, At

\* What a sync makes of the day's row it read.
Booked(r, delta) == delta + (IF r.base = None THEN 0 ELSE r.base)

\* What a commit does to the books, if no other has come before it.
LEMMA CommitWrites ==
  ASSUME BooksInv, SealInv, TableShape, NEW p \in Proc, SyncCommit(p),
         ~(UNCHANGED <<logs, daily, calendar, counted>>)
  PROVE  \E a \in Account, delta \in Nat : \E r, own :
           /\ r = sync[p] /\ r.pc = "commit" /\ r.acct = a /\ r.delta = delta
           /\ r.day \in Nat /\ r.day \in Day /\ r.at \in Int /\ Sound(r) /\ Shape(r)
           /\ own = Entry(r, delta)
           /\ logs' = [logs EXCEPT ![a] = logs[a] \cup {own}]
           /\ counted' = [counted EXCEPT ![a] = counted[a] + delta]
           /\ daily' = IF delta = 0 THEN daily
                       ELSE [daily EXCEPT ![a] = Put(daily[a], r.day, Booked(r, delta))]
           /\ calendar' = IF r.month = 0 THEN calendar
                          ELSE [calendar EXCEPT ![a] = Put(calendar[a], Month(r.day), r.month)]
<1>1. sync[p].pc = "commit" /\ Shape(sync[p]) /\ Sound(sync[p])
  BY OwnAccount DEF SyncCommit
<1>2. PICK a \in Account : sync[p].acct = a
  BY <1>1, OwnAccount
<1>3. PICK r : r = sync[p]
  OBVIOUS
<1>4. PICK delta \in Nat : delta = r.delta
  BY <1>1, <1>3 DEF TableShape
<1>5. PICK own : own = Entry(r, delta)
  OBVIOUS
<1>6. r.day \in Nat /\ r.day \in Day /\ r.at \in Int
  <2>1. r.day \in Nat /\ r.day <= today /\ r.at \in Int /\ today \in Nat /\ today <= MaxDay
    BY <1>1, <1>3 DEF Sound, Timed, BooksInv, BookShape, TimeShape
  <2> QED
    BY <2>1, LedgerAssumption DEF Day
<1>7. ~Conflict(r)
  BY <1>3 DEF SyncCommit
<1>8. /\ logs' = [logs EXCEPT ![a] = logs[a] \cup {own}]
      /\ counted' = [counted EXCEPT ![a] = counted[a] + delta]
      /\ daily' = IF delta = 0 THEN daily
                  ELSE [daily EXCEPT ![a] = Put(daily[a], r.day, Booked(r, delta))]
      /\ calendar' = IF r.month = 0 THEN calendar
                     ELSE [calendar EXCEPT ![a] = Put(calendar[a], Month(r.day), r.month)]
  BY <1>2, <1>3, <1>4, <1>5, <1>7 DEF SyncCommit, Entry, Booked
<1> WITNESS a \in Account, delta \in Nat
<1> WITNESS r, own
<1> QED
  BY <1>1, <1>2, <1>3, <1>4, <1>5, <1>6, <1>8

\* Another row is logged: the tables keep their shape.
LEMMA CommitShape ==
  ASSUME BooksInv, SealInv, TableShape, NEW p \in Proc, SyncCommit(p)
  PROVE  TableShape' /\ CommitsCalm
<1>1. CommitsCalm
  BY ProceedStand DEF SyncCommit, SealInv
<1>2. CASE UNCHANGED <<logs, daily, calendar, counted>>
  BY <1>1, <1>2 DEF TableShape, CommitsCalm
<1>3. CASE ~(UNCHANGED <<logs, daily, calendar, counted>>)
  <2>1. PICK a \in Account, delta \in Nat : \E r, own :
           /\ r.day \in Nat /\ r.day \in Day /\ own = Entry(r, delta)
           /\ logs' = [logs EXCEPT ![a] = logs[a] \cup {own}]
           /\ daily' = IF delta = 0 THEN daily
                       ELSE [daily EXCEPT ![a] = Put(daily[a], r.day, Booked(r, delta))]
           /\ calendar' = IF r.month = 0 THEN calendar
                          ELSE [calendar EXCEPT ![a] = Put(calendar[a], Month(r.day), r.month)]
    BY <1>3, CommitWrites
  <2>2. PICK r, own :
           /\ r.day \in Nat /\ r.day \in Day /\ own = Entry(r, delta)
           /\ logs' = [logs EXCEPT ![a] = logs[a] \cup {own}]
           /\ daily' = IF delta = 0 THEN daily
                       ELSE [daily EXCEPT ![a] = Put(daily[a], r.day, Booked(r, delta))]
           /\ calendar' = IF r.month = 0 THEN calendar
                          ELSE [calendar EXCEPT ![a] = Put(calendar[a], Month(r.day), r.month)]
    BY <2>1
  <2>3. own.delta \in Nat /\ IsFunction(own) /\ "delta" \in DOMAIN own
    BY <2>2 DEF Entry, IsFunction
  <2>4. \A b \in Account : logs'[b] = logs[b] \/ logs'[b] = logs[b] \cup {own}
    BY <2>2
  <2>5. ASSUME NEW b \in Account
        PROVE  /\ IsFiniteSet(logs'[b])
               /\ \A l \in logs'[b] : l.delta \in Nat /\ IsFunction(l) /\ "delta" \in DOMAIN l
    <3>1. /\ IsFiniteSet(logs[b])
          /\ \A l \in logs[b] : l.delta \in Nat /\ IsFunction(l) /\ "delta" \in DOMAIN l
      BY DEF TableShape
    <3>2. IsFiniteSet(logs[b] \cup {own})
      BY <3>1, FS_AddElement
    <3>3. ASSUME NEW l \in logs[b] \cup {own}
          PROVE  l.delta \in Nat /\ IsFunction(l) /\ "delta" \in DOMAIN l
      <4>1. l \in logs[b] \/ l = own
        OBVIOUS
      <4> QED
        BY <2>3, <3>1, <4>1
    <3>4. CASE logs'[b] = logs[b]
      BY <3>1, <3>4
    <3>5. CASE logs'[b] = logs[b] \cup {own}
      BY <3>2, <3>3, <3>5
    <3> QED
      BY <2>4, <3>4, <3>5
  <2>6. /\ DOMAIN daily' = Account
        /\ \A b \in Account : IsFunction(daily'[b]) /\ DOMAIN daily'[b] \subseteq Day
    <3>1. CASE delta = 0
      <4>1. daily' = daily
        BY <2>2, <3>1
      <4> QED
        BY <4>1 DEF TableShape
    <3>2. CASE delta # 0
      <4>1. PICK f : /\ f = Put(daily[a], r.day, Booked(r, delta))
                     /\ daily' = [daily EXCEPT ![a] = f]
        BY <2>2, <3>2
      <4>2. IsFunction(f) /\ DOMAIN f = DOMAIN daily[a] \cup {r.day}
        BY <4>1, PutShape
      <4>3. DOMAIN daily' = Account /\ \A b \in Account : daily'[b] = IF b = a THEN f ELSE daily[b]
        BY <4>1 DEF TableShape
      <4>4. /\ DOMAIN f \subseteq Day
            /\ \A b \in Account : IsFunction(daily[b]) /\ DOMAIN daily[b] \subseteq Day
        BY <2>2, <4>2 DEF TableShape
      <4> QED
        BY <4>2, <4>3, <4>4
    <3> QED
      BY <3>1, <3>2
  <2>7. /\ DOMAIN calendar' = Account
        /\ \A b \in Account : IsFunction(calendar'[b]) /\ DOMAIN calendar'[b] \subseteq Nat
    <3>1. CASE r.month = 0
      BY <2>2, <3>1 DEF TableShape
    <3>2. CASE r.month # 0
      <4>1. PICK f : f = Put(calendar[a], Month(r.day), r.month) /\ calendar' = [calendar EXCEPT ![a] = f]
        BY <2>2, <3>2
      <4>2. IsFunction(f) /\ DOMAIN f = DOMAIN calendar[a] \cup {Month(r.day)}
        BY <4>1, PutShape
      <4>3. Month(r.day) \in Nat
        BY <2>2, MonthNat
      <4>4. /\ DOMAIN calendar' = Account
            /\ \A b \in Account : calendar'[b] = IF b = a THEN f ELSE calendar[b]
        BY <4>1 DEF TableShape
      <4>5. /\ DOMAIN f \subseteq Nat
            /\ \A b \in Account : IsFunction(calendar[b]) /\ DOMAIN calendar[b] \subseteq Nat
        BY <4>2, <4>3 DEF TableShape
      <4> QED
        BY <4>2, <4>4, <4>5
    <3> QED
      BY <3>1, <3>2
  <2> QED
    BY <1>1, <2>5, <2>6, <2>7 DEF TableShape, CommitsCalm
<1> QED
  BY <1>1, <1>2, <1>3

LEMMA SyncCommitAgree ==
  BooksInv /\ SealInv /\ AgreeInv => \A p \in Proc : SyncCommit(p) => AllAgree
<1> SUFFICES ASSUME BooksInv, SealInv, AgreeInv, NEW p \in Proc, SyncCommit(p) PROVE AllAgree
  OBVIOUS
<1>1. UNCHANGED today /\ UNCHANGED overlap /\ Proceed(p)
  BY DEF SyncCommit
<1>2. TableShape /\ TableShape' /\ CommitsCalm
  BY CommitShape DEF AgreeInv
<1>3. CASE UNCHANGED <<logs, daily, calendar, counted>>
  <2>1. TablesStand
    BY <1>1, <1>3, TablesSame
  <2> QED
    BY <1>2, <2>1, StandAgree DEF BooksInv, BookShape
<1>4. CASE ~(UNCHANGED <<logs, daily, calendar, counted>>)
  <2>1. PICK a \in Account, delta \in Nat : \E r, own :
           /\ r = sync[p] /\ r.pc = "commit" /\ r.acct = a /\ r.delta = delta
           /\ r.day \in Nat /\ r.day \in Day /\ r.at \in Int /\ Sound(r) /\ Shape(r)
           /\ own = Entry(r, delta)
           /\ logs' = [logs EXCEPT ![a] = logs[a] \cup {own}]
           /\ counted' = [counted EXCEPT ![a] = counted[a] + delta]
           /\ daily' = IF delta = 0 THEN daily
                       ELSE [daily EXCEPT ![a] = Put(daily[a], r.day, Booked(r, delta))]
           /\ calendar' = IF r.month = 0 THEN calendar
                          ELSE [calendar EXCEPT ![a] = Put(calendar[a], Month(r.day), r.month)]
    BY <1>2, <1>4, CommitWrites
  <2>2. PICK r, own :
           /\ r = sync[p] /\ r.pc = "commit" /\ r.acct = a /\ r.delta = delta
           /\ r.day \in Nat /\ r.day \in Day /\ r.at \in Int /\ Sound(r) /\ Shape(r)
           /\ own = Entry(r, delta)
           /\ logs' = [logs EXCEPT ![a] = logs[a] \cup {own}]
           /\ counted' = [counted EXCEPT ![a] = counted[a] + delta]
           /\ daily' = IF delta = 0 THEN daily
                       ELSE [daily EXCEPT ![a] = Put(daily[a], r.day, Booked(r, delta))]
           /\ calendar' = IF r.month = 0 THEN calendar
                          ELSE [calendar EXCEPT ![a] = Put(calendar[a], Month(r.day), r.month)]
    BY <2>1
  <2>3. ASSUME NEW b \in Account, b # a PROVE Agrees(b)'
    <3>1. logs'[b] = logs[b] /\ daily'[b] = daily[b] /\ calendar'[b] = calendar[b]
      BY <2>2, <2>3
    <3>2. counted'[b] = counted[b]
      BY <2>2, <2>3
    <3>3. today \in Int /\ today' \in Int /\ today <= today'
      <4>1. today \in Int
        BY TimeType DEF BooksInv
      <4> QED
        BY <1>1, <4>1
    <3>4. BooksStay(b)
      BY <1>1, <3>1, <3>2, <3>3 DEF BooksStay
    <3> QED
      BY <1>2, <3>4, AgreesStay DEF AgreeInv, BooksInv, BookShape
  <2>4. ASSUME ~overlap[a] PROVE Agrees(a)'
    <3>1. DayRight(a) /\ MonthRight(a) /\ RightToWrite(r, a)
      BY <2>2, <2>4 DEF AgreeInv, Agrees, Closing
    <3>2. Apart(a) /\ LogOrder(a)
      BY <2>4 DEF BooksInv, Balanced, SealInv, InOrder
    <3>3. own \notin logs[a] /\ own.day = r.day /\ own.delta = delta
      <4>1. own.at = r.at /\ own.day = r.day /\ own.delta = delta
        BY <2>2 DEF Entry
      <4>2. \A l \in logs[a] : l.at < r.at /\ l.at \in Int
        BY <2>2, <3>2 DEF LogOrder, Stamped, Timed, BooksInv, BookShape, LogShape, Row
      <4> QED
        BY <2>2, <4>1, <4>2
    <3>4. IsFiniteSet(logs[a]) /\ \A l \in logs[a] : l.delta \in Nat
      BY <1>2 DEF TableShape
    <3>5. \A part \in SUBSET logs[a] : DeltaSum(part) \in Nat
      BY <3>4, PartSum
    <3>6. /\ \A d : OnDay(logs[a], d) \in SUBSET logs[a]
          /\ \A m : InMonth(logs[a], m) \in SUBSET logs[a]
      BY DEF OnDay, InMonth
    <3>7. logs'[a] = logs[a] \cup {own}
      BY <2>2 DEF BooksInv, BookShape, LogShape
    <3>8. /\ \A d : DeltaSum(OnDay(logs'[a], d)) = IF r.day = d THEN DeltaSum(OnDay(logs[a], d)) + delta
                                                   ELSE DeltaSum(OnDay(logs[a], d))
          /\ \A m : DeltaSum(InMonth(logs'[a], m)) = IF Month(r.day) = m
                                                     THEN DeltaSum(InMonth(logs[a], m)) + delta
                                                     ELSE DeltaSum(InMonth(logs[a], m))
      <4>1. own.delta \in Nat /\ own.day \in Int
        BY <2>2, <3>3
      <4> QED
        <5>1. /\ \A d : DeltaSum(OnDay(logs[a] \cup {own}, d))
                       = IF own.day = d THEN DeltaSum(OnDay(logs[a], d)) + own.delta
                         ELSE DeltaSum(OnDay(logs[a], d))
              /\ \A m : DeltaSum(InMonth(logs[a] \cup {own}, m))
                       = IF Month(own.day) = m THEN DeltaSum(InMonth(logs[a], m)) + own.delta
                         ELSE DeltaSum(InMonth(logs[a], m))
          BY <3>3, <3>4, <4>1, PartGrows
        <5> QED
          BY <3>3, <3>7, <5>1
    <3>9. ASSUME NEW d \in Day, Whole(d) PROVE At(daily'[a], d) = DeltaSum(OnDay(logs'[a], d))
      <4>1. At(daily[a], d) = DeltaSum(OnDay(logs[a], d)) /\ DeltaSum(OnDay(logs[a], d)) \in Nat
        BY <3>1, <3>5, <3>6, <3>9 DEF DayRight
      <4>2. CASE delta = 0
        <5>1. daily' = daily
          BY <2>2, <4>2
        <5> QED
          BY <3>8, <4>1, <4>2, <5>1
      <4>3. CASE delta # 0
        <5>1. daily'[a] = Put(daily[a], r.day, Booked(r, delta))
          BY <2>2, <4>3 DEF AgreeInv, TableShape
        <5>2. CASE d # r.day
          BY <3>8, <4>1, <5>1, <5>2, PutAt
        <5>3. CASE d = r.day
          <6>1. r.base = IF d \in DOMAIN daily[a] THEN daily[a][d] ELSE None
            BY <3>1, <3>9, <5>3 DEF RightToWrite
          <6>2. Booked(r, delta) = delta + DeltaSum(OnDay(logs[a], d))
            <7>1. CASE d \in DOMAIN daily[a]
              <8>1. r.base = DeltaSum(OnDay(logs[a], d)) /\ r.base # None
                BY <4>1, <6>1, <7>1, NoneAssumption DEF At
              <8> QED
                BY <8>1 DEF Booked
            <7>2. CASE d \notin DOMAIN daily[a]
              <8>1. r.base = None /\ DeltaSum(OnDay(logs[a], d)) = 0
                BY <4>1, <6>1, <7>2 DEF At
              <8> QED
                BY <8>1 DEF Booked
            <7> QED
              BY <7>1, <7>2
          <6>3. At(daily'[a], d) = Booked(r, delta)
            BY <5>1, <5>3, PutAt
          <6> QED
            BY <3>8, <4>1, <5>3, <6>2, <6>3
        <5> QED
          BY <5>2, <5>3
      <4> QED
        BY <4>2, <4>3
    <3>10. ASSUME NEW m \in DOMAIN calendar'[a], Counts(m)
           PROVE  calendar'[a][m] = DeltaSum(InMonth(logs'[a], m))
      <4>1. DeltaSum(InMonth(logs[a], m)) \in Nat
        BY <3>5, <3>6
      <4>2. CASE r.month = 0
        <5>1. calendar'[a] = calendar[a]
          BY <2>2, <4>2
        <5>2. calendar[a][m] = DeltaSum(InMonth(logs[a], m))
          BY <3>1, <3>10, <5>1 DEF MonthRight
        <5>3. Month(r.day) = m => delta = 0
          BY <2>2, <3>1, <3>10, <4>1, <4>2 DEF RightToWrite
        <5> QED
          BY <3>8, <4>1, <5>1, <5>2, <5>3
      <4>3. CASE r.month # 0
        <5>1. calendar'[a] = Put(calendar[a], Month(r.day), r.month)
          BY <2>2, <4>3 DEF AgreeInv, TableShape
        <5>2. CASE m = Month(r.day)
          <6>1. calendar'[a][m] = r.month
            BY <5>1, <5>2, PutAt
          <6>2. r.month = DeltaSum(InMonth(logs[a], m)) + delta
            BY <2>2, <3>1, <3>10, <5>2 DEF RightToWrite
          <6> QED
            BY <3>8, <5>2, <6>1, <6>2
        <5>3. CASE m # Month(r.day)
          <6>1. m \in DOMAIN calendar[a] /\ calendar'[a][m] = calendar[a][m]
            <7>1. DOMAIN calendar'[a] = DOMAIN calendar[a] \cup {Month(r.day)}
              BY <5>1, PutShape
            <7>2. m \in DOMAIN calendar[a]
              BY <3>10, <5>3, <7>1
            <7> QED
              BY <5>1, <5>3, <7>2, PutAt
          <6>2. calendar[a][m] = DeltaSum(InMonth(logs[a], m))
            BY <3>1, <3>10, <6>1 DEF MonthRight
          <6> QED
            BY <3>8, <5>3, <6>1, <6>2
        <5> QED
          BY <5>2, <5>3
      <4> QED
        BY <4>2, <4>3
    <3>11. ASSUME NEW q \in Proc, Closing(q, a)' PROVE FALSE
      <4>1. sync[q].pc = "commit" /\ sync[q].acct = a
        BY <1>2, <3>11 DEF CommitsCalm, Closing
      <4>2. q = p
        BY <2>2, <3>2, <4>1 DEF Apart, Under
      <4>3. sync'[p].pc \in {"idle", "fetch"}
        BY <1>1, <2>2, TimeType, ProceedBooks DEF BooksInv, BookShape, SealInv, SyncCommit
      <4> QED
        BY <3>11, <4>2, <4>3 DEF Closing
    <3>12. DayRight(a)'
      BY <1>1, <3>9 DEF DayRight, Whole
    <3>13. MonthRight(a)'
      BY <1>1, <3>10 DEF MonthRight, Counts, Whole
    <3> QED
      BY <3>11, <3>12, <3>13 DEF Agrees
  <2>5. overlap[a] => Agrees(a)'
    BY <1>1 DEF Agrees
  <2> QED
    BY <1>2, <2>3, <2>4, <2>5 DEF AllAgree
<1> QED
  BY <1>3, <1>4

-----------------------------------------------------------------------------
LEMMA KeepShape ==
  \A f, K : IsFunction(Keep(f, K)) /\ DOMAIN Keep(f, K) = DOMAIN f \cap K
  BY DEF Keep, IsFunction

LEMMA KeepAt == \A f, K : \A x \in DOMAIN f \cap K : Keep(f, K)[x] = f[x]
  BY DEF Keep

LEMMA CleanupAgree == BooksInv /\ AgreeInv /\ cleanup_cursor_usage_history => AllAgree
<1> SUFFICES ASSUME BooksInv, AgreeInv, cleanup_cursor_usage_history PROVE AllAgree
  OBVIOUS
<1>1. /\ UNCHANGED <<today, overlap>> /\ UNCHANGED sync
      /\ logs' = [a \in Account |-> {l \in logs[a] : l.day >= today - LogDays}]
      /\ daily' = [a \in Account |-> Keep(daily[a], {d \in Day : d >= today - LogDays})]
  BY DEF cleanup_cursor_usage_history, ghosts
<1>2. /\ DOMAIN calendar' = Account
      /\ \A a \in Account : \E K : calendar'[a] = Keep(calendar[a], K)
  BY DEF cleanup_cursor_usage_history
<1>3. ASSUME NEW a \in Account
      PROVE  /\ IsFunction(daily'[a]) /\ DOMAIN daily'[a] \subseteq DOMAIN daily[a]
             /\ \A d \in Day : Whole(d) => (d \in DOMAIN daily'[a] <=> d \in DOMAIN daily[a])
             /\ \A d \in DOMAIN daily'[a] : daily'[a][d] = daily[a][d]
             /\ IsFunction(calendar'[a]) /\ DOMAIN calendar'[a] \subseteq DOMAIN calendar[a]
             /\ \A m \in DOMAIN calendar'[a] : calendar'[a][m] = calendar[a][m]
  <2>1. PICK K : K = {d \in Day : d >= today - LogDays}
    OBVIOUS
  <2>2. daily'[a] = Keep(daily[a], K)
    BY <1>1, <2>1
  <2>3. /\ IsFunction(daily'[a]) /\ DOMAIN daily'[a] = DOMAIN daily[a] \cap K
        /\ \A d \in DOMAIN daily'[a] : daily'[a][d] = daily[a][d]
    <3>1. PICK f, g : f = daily[a] /\ g = daily'[a]
      OBVIOUS
    <3>2. IsFunction(g) /\ DOMAIN g = DOMAIN f \cap K /\ \A d \in DOMAIN g : g[d] = f[d]
      <4>1. g = Keep(f, K)
        BY <2>2, <3>1
      <4>2. IsFunction(g) /\ DOMAIN g = DOMAIN f \cap K
        BY <4>1, KeepShape
      <4> QED
        BY <4>1, <4>2, KeepAt
    <3> QED
      BY <3>1, <3>2
  <2>4. \A d \in Day : Whole(d) => d \in K
    BY <2>1 DEF Whole
  <2>5. PICK C : calendar'[a] = Keep(calendar[a], C)
    BY <1>2
  <2>6. /\ IsFunction(calendar'[a]) /\ DOMAIN calendar'[a] = DOMAIN calendar[a] \cap C
        /\ \A m \in DOMAIN calendar'[a] : calendar'[a][m] = calendar[a][m]
    <3>1. PICK f, g : f = calendar[a] /\ g = calendar'[a]
      OBVIOUS
    <3>2. IsFunction(g) /\ DOMAIN g = DOMAIN f \cap C /\ \A m \in DOMAIN g : g[m] = f[m]
      <4>1. g = Keep(f, C)
        BY <2>5, <3>1
      <4>2. IsFunction(g) /\ DOMAIN g = DOMAIN f \cap C
        BY <4>1, KeepShape
      <4> QED
        BY <4>1, <4>2, KeepAt
    <3> QED
      BY <3>1, <3>2
  <2> QED
    BY <2>3, <2>4, <2>6
<1>4. TableShape'
  <2>1. \A a \in Account : logs'[a] \subseteq logs[a]
    BY <1>1
  <2>2. \A a \in Account : IsFiniteSet(logs'[a])
    BY <2>1, FS_Subset DEF AgreeInv, TableShape
  <2> QED
    BY <1>1, <1>2, <1>3, <2>1, <2>2 DEF AgreeInv, TableShape
<1>5. ASSUME NEW a \in Account, ~overlap[a]
      PROVE  /\ DayRight(a)' /\ MonthRight(a)'
             /\ \A p \in Proc : Closing(p, a)' => RightToWrite(sync[p], a)'
  <2>1. /\ DayRight(a) /\ MonthRight(a)
        /\ \A p \in Proc : Closing(p, a) => RightToWrite(sync[p], a)
    BY <1>5 DEF AgreeInv, Agrees
  <2>2. logs'[a] = {l \in logs[a] : Whole(l.day)} /\ \A l \in logs[a] : l.day \in Int
    BY <1>1 DEF Whole, BooksInv, BookShape, LogShape, Row
  <2>3. ASSUME NEW d, Whole(d) PROVE OnDay(logs'[a], d) = OnDay(logs[a], d)
    BY <2>2, <2>3 DEF OnDay
  <2>4. ASSUME NEW m \in Int, Whole(MonthStart(m)) PROVE InMonth(logs'[a], m) = InMonth(logs[a], m)
    <3>1. ASSUME NEW l \in logs[a], Month(l.day) = m PROVE Whole(l.day)
      <4>1. MonthStart(m) <= l.day /\ MonthStart(m) \in Int /\ l.day \in Int
        BY <2>2, <3>1, MonthBegins, MetricsAssumption DEF MonthStart
      <4>2. \A x, y, z \in Int : x <= y /\ x >= z => y >= z
        OBVIOUS
      <4>3. today - LogDays \in Int
        BY TimeType, LedgerAssumption DEF BooksInv
      <4> QED
        BY <2>4, <4>1, <4>2, <4>3 DEF Whole
    <3> QED
      BY <2>2, <3>1 DEF InMonth
  <2>5. DayRight(a)'
    <3>1. ASSUME NEW d \in Day, Whole(d) PROVE At(daily'[a], d) = DeltaSum(OnDay(logs'[a], d))
      <4>1. At(daily'[a], d) = At(daily[a], d)
        BY <1>3, <3>1 DEF At
      <4> QED
        BY <2>1, <2>3, <3>1, <4>1 DEF DayRight
    <3> QED
      BY <1>1, <3>1 DEF DayRight, Whole
  <2>6. MonthRight(a)'
    <3>1. ASSUME NEW m \in DOMAIN calendar'[a], Counts(m)
          PROVE  calendar'[a][m] = DeltaSum(InMonth(logs'[a], m))
      <4>1. m \in DOMAIN calendar[a] /\ m \in Int /\ calendar'[a][m] = calendar[a][m]
        BY <1>3, <3>1 DEF AgreeInv, TableShape
      <4>2. calendar[a][m] = DeltaSum(InMonth(logs[a], m))
        BY <2>1, <3>1, <4>1 DEF MonthRight
      <4> QED
        BY <2>4, <3>1, <4>1, <4>2 DEF Counts
    <3> QED
      BY <1>1, <3>1 DEF MonthRight, Counts, Whole
  <2>7. ASSUME NEW p \in Proc, Closing(p, a)' PROVE RightToWrite(sync[p], a)'
    <3>1. PICK r : r = sync[p] /\ r = sync'[p]
      BY <1>1
    <3>2. RightToWrite(r, a) /\ r.pc = "commit"
      BY <2>1, <2>7, <3>1 DEF Closing
    <3>3. r.day \in Day /\ Month(r.day) \in Int
      <4>1. r.day \in Nat /\ r.day <= today /\ today \in Nat /\ today <= MaxDay
        BY <3>1, <3>2 DEF BooksInv, BookShape, SyncSound, Sound, Timed, TimeShape
      <4> QED
        BY <4>1, MonthBegins, LedgerAssumption DEF Day
    <3>4. Whole(r.day) => r.base = IF r.day \in DOMAIN daily'[a] THEN daily'[a][r.day] ELSE None
      BY <1>3, <3>2, <3>3 DEF RightToWrite
    <3>5. Counts(Month(r.day)) => r.month = DeltaSum(InMonth(logs'[a], Month(r.day))) + r.delta
      BY <2>4, <3>2, <3>3 DEF RightToWrite, Counts
    <3> QED
      BY <1>1, <3>1, <3>4, <3>5 DEF RightToWrite, Counts, Whole
  <2> QED
    BY <2>5, <2>6, <2>7
<1> QED
  BY <1>1, <1>4, <1>5 DEF AllAgree, Agrees

-----------------------------------------------------------------------------
\* A row with its increment taken anew, from the log it is in.
Anew(rows) == [l \in rows |->
                 [l EXCEPT !.delta = compute_sync_delta(Previous(rows, l), l.cycle, l.total)]]

LEMMA AnewRow ==
  ASSUME NEW rows, IsFiniteSet(rows), \A k \in rows : Row(k),
         NEW l \in rows, IsFunction(l), "delta" \in DOMAIN l
  PROVE  /\ Anew(rows)[l].delta = compute_sync_delta(Previous(rows, l), l.cycle, l.total)
         /\ Anew(rows)[l].delta \in Nat
         /\ IsFunction(Anew(rows)[l]) /\ DOMAIN Anew(rows)[l] = DOMAIN l
         /\ \A x \in DOMAIN l : x # "delta" => Anew(rows)[l][x] = l[x]
<1> DEFINE delta == compute_sync_delta(Previous(rows, l), l.cycle, l.total)
<1>1. delta \in Nat
  <2>1. PICK older \in SUBSET rows : older = {k \in rows : k.at < l.at}
    OBVIOUS
  <2>2. IsFiniteSet(older) /\ \A k \in older : Row(k)
    BY FS_Subset
  <2>3. l.total \in Nat
    BY DEF Row
  <2> QED
    BY <2>1, <2>2, <2>3, NewestDelta DEF Previous
<1>2. Anew(rows)[l] = [l EXCEPT !.delta = delta]
  BY DEF Anew
<1> HIDE DEF delta
<1>3. PICK k : k = [l EXCEPT !.delta = delta]
  OBVIOUS
<1>4. k.delta = delta /\ DOMAIN k = DOMAIN l /\ \A x \in DOMAIN l : x # "delta" => k[x] = l[x]
  BY <1>3
<1>5. IsFunction(k)
  BY <1>3 DEF IsFunction
<1> QED
  BY <1>1, <1>2, <1>3, <1>4, <1>5 DEF delta

LEMMA RepairWrites ==
  ASSUME BooksInv, SealInv, TableShape, NEW a \in Account, repair_calendar_token_deltas(a)
  PROVE  \E rows : \E months, booked, total :
           /\ rows = {Anew(logs[a])[l] : l \in logs[a]}
           /\ \A l \in rows : /\ l.day \in Nat /\ l.day \in Day /\ l.delta \in Nat
                             /\ IsFunction(l) /\ "delta" \in DOMAIN l
           /\ IsFiniteSet(rows)
           /\ months = {Month(l.day) : l \in rows} /\ months \subseteq Nat
           /\ booked = {l.day : l \in {k \in rows : k.delta > 0}} /\ booked \subseteq Day
           /\ \A m \in Int : m # Month(Created) => total[m] = DeltaSum(InMonth(rows, m))
           /\ logs' = [logs EXCEPT ![a] = rows]
           /\ calendar' = [calendar EXCEPT ![a] =
                  [m \in DOMAIN calendar[a] \cup {n \in months : total[n] > 0} |->
                      IF m \in months THEN total[m] ELSE calendar[a][m]]]
           /\ daily' = [daily EXCEPT ![a] =
                  [d \in DOMAIN daily[a] \cup booked |-> DeltaSum(OnDay(rows, d))]]
<1>1. PICK anew : anew = Anew(logs[a])
  OBVIOUS
<1>2. PICK rows : rows = {anew[l] : l \in logs[a]}
  OBVIOUS
<1>3. /\ IsFiniteSet(logs[a])
      /\ \A l \in logs[a] : Row(l) /\ IsFunction(l) /\ "delta" \in DOMAIN l
  BY DEF TableShape, BooksInv, BookShape, LogShape
<1>4. ASSUME NEW l \in logs[a]
      PROVE  /\ anew[l].day \in Nat /\ anew[l].day \in Day /\ anew[l].delta \in Nat
             /\ IsFunction(anew[l]) /\ "delta" \in DOMAIN anew[l]
  <2>1. /\ anew[l].delta \in Nat /\ \A x \in DOMAIN l : x # "delta" => anew[l][x] = l[x]
        /\ IsFunction(anew[l]) /\ "delta" \in DOMAIN anew[l]
    <3>1. /\ Anew(logs[a])[l].delta \in Nat
          /\ IsFunction(Anew(logs[a])[l]) /\ "delta" \in DOMAIN Anew(logs[a])[l]
          /\ \A x \in DOMAIN l : x # "delta" => Anew(logs[a])[l][x] = l[x]
      <4>1. (\A k \in logs[a] : Row(k)) /\ IsFunction(l) /\ "delta" \in DOMAIN l
        BY <1>3
      <4> QED
        BY <1>3, <4>1, AnewRow
    <3> QED
      BY <1>1, <3>1
  <2>2. l.day \in Nat /\ l.day \in Day /\ "day" \in DOMAIN l
    <3>1. l.day \in Nat /\ l.day <= today /\ "day" \in DOMAIN l /\ today \in Nat /\ today <= MaxDay
      BY <1>3 DEF Row, BooksInv, BookShape, TimeShape
    <3> QED
      BY <3>1, LedgerAssumption DEF Day
  <2> QED
    BY <2>1, <2>2
<1>5. \A l \in rows : /\ l.day \in Nat /\ l.day \in Day /\ l.delta \in Nat
                      /\ IsFunction(l) /\ "delta" \in DOMAIN l
  BY <1>2, <1>4
<1>6. IsFiniteSet(rows)
  <2>1. DOMAIN anew = logs[a] /\ anew = [l \in logs[a] |-> anew[l]]
    BY <1>1 DEF Anew
  <2>2. anew \in Surjection(logs[a], rows)
    BY <1>2, <2>1 DEF Surjection
  <2> QED
    BY <1>3, <2>2, FS_Surjection
<1>7. PICK months : months = {Month(l.day) : l \in rows}
  OBVIOUS
<1>8. PICK booked : booked = {l.day : l \in {k \in rows : k.delta > 0}}
  OBVIOUS
<1>9. months \subseteq Nat /\ booked \subseteq Day
  <2>1. \A l \in rows : Month(l.day) \in Nat
    BY <1>5, MonthNat
  <2> QED
    BY <1>5, <1>7, <1>8, <2>1
<1>10. PICK total : total = [m \in Int |-> resolve_calendar_month(usage[a], m, rows, Created, today)]
  OBVIOUS
<1>11. \A m \in Int : m # Month(Created) => total[m] = DeltaSum(InMonth(rows, m))
  BY <1>10 DEF resolve_calendar_month, _incremental_month_tokens, InMonth
<1>12. rows = recompute_sync_log_deltas(logs[a])
  BY <1>1, <1>2 DEF Anew, recompute_sync_log_deltas
<1>13. logs' = [logs EXCEPT ![a] = rows]
  BY <1>12 DEF repair_calendar_token_deltas
<1>14. daily' = [daily EXCEPT ![a] =
                  [d \in DOMAIN daily[a] \cup booked |-> DeltaSum(OnDay(rows, d))]]
  BY <1>8, <1>12 DEF repair_calendar_token_deltas, OnDay
<1>15. calendar' = [calendar EXCEPT ![a] =
                  [m \in DOMAIN calendar[a] \cup {n \in months : total[n] > 0} |->
                      IF m \in months THEN total[m] ELSE calendar[a][m]]]
  <2>1. \A n \in months : total[n] = resolve_calendar_month(usage[a], n, rows, Created, today)
    BY <1>9, <1>10
  <2>2. calendar' = [calendar EXCEPT ![a] =
                  [m \in DOMAIN calendar[a] \cup
                      {n \in months : resolve_calendar_month(usage[a], n, rows, Created, today) > 0} |->
                      IF m \in months THEN resolve_calendar_month(usage[a], m, rows, Created, today)
                      ELSE calendar[a][m]]]
    BY <1>7, <1>12 DEF repair_calendar_token_deltas
  <2>3. {n \in months : resolve_calendar_month(usage[a], n, rows, Created, today) > 0}
            = {n \in months : total[n] > 0}
    BY <2>1
  <2>4. PICK D : D = DOMAIN calendar[a] \cup {n \in months : total[n] > 0}
    OBVIOUS
  <2>5. [m \in D |-> IF m \in months THEN resolve_calendar_month(usage[a], m, rows, Created, today)
                      ELSE calendar[a][m]]
            = [m \in D |-> IF m \in months THEN total[m] ELSE calendar[a][m]]
    BY <2>1
  <2> QED
    BY <2>2, <2>3, <2>4, <2>5
<1> WITNESS rows
<1> WITNESS months, booked, total
<1> QED
  BY <1>1, <1>2, <1>5, <1>6, <1>7, <1>8, <1>9, <1>11, <1>13, <1>14, <1>15

LEMMA RepairAgree ==
  BooksInv /\ SealInv /\ AgreeInv =>
      \A a \in Account : repair_calendar_token_deltas(a) => AllAgree
<1> SUFFICES ASSUME BooksInv, SealInv, AgreeInv, NEW a \in Account,
                    repair_calendar_token_deltas(a)
             PROVE  AllAgree
  OBVIOUS
<1>1. /\ UNCHANGED <<today, counted>>
      /\ overlap' = [overlap EXCEPT ![a] = @ \/ \E p \in Proc : a \in Under(p)]
      /\ sync' = [p \in Proc |-> [sync[p] EXCEPT !.alone = @ /\ a \notin Under(p)]]
  BY DEF repair_calendar_token_deltas
<1>2. CommitsCalm
  <2>1. ASSUME NEW q \in Proc
        PROVE  Shape(sync[q]) /\ \E alone : sync'[q] = [sync[q] EXCEPT !.alone = alone]
    BY <1>1 DEF SealInv, SyncShape
  <2> QED
    BY <2>1, RemarkStand
<1>3. PICK rows : \E months, booked, total :
           /\ rows = {Anew(logs[a])[l] : l \in logs[a]}
           /\ \A l \in rows : /\ l.day \in Nat /\ l.day \in Day /\ l.delta \in Nat
                             /\ IsFunction(l) /\ "delta" \in DOMAIN l
           /\ IsFiniteSet(rows)
           /\ months = {Month(l.day) : l \in rows} /\ months \subseteq Nat
           /\ booked = {l.day : l \in {k \in rows : k.delta > 0}} /\ booked \subseteq Day
           /\ \A m \in Int : m # Month(Created) => total[m] = DeltaSum(InMonth(rows, m))
           /\ logs' = [logs EXCEPT ![a] = rows]
           /\ calendar' = [calendar EXCEPT ![a] =
                  [m \in DOMAIN calendar[a] \cup {n \in months : total[n] > 0} |->
                      IF m \in months THEN total[m] ELSE calendar[a][m]]]
           /\ daily' = [daily EXCEPT ![a] =
                  [d \in DOMAIN daily[a] \cup booked |-> DeltaSum(OnDay(rows, d))]]
  BY RepairWrites DEF AgreeInv
<1>4. PICK months, booked, total :
           /\ rows = {Anew(logs[a])[l] : l \in logs[a]}
           /\ \A l \in rows : /\ l.day \in Nat /\ l.day \in Day /\ l.delta \in Nat
                             /\ IsFunction(l) /\ "delta" \in DOMAIN l
           /\ IsFiniteSet(rows)
           /\ months = {Month(l.day) : l \in rows} /\ months \subseteq Nat
           /\ booked = {l.day : l \in {k \in rows : k.delta > 0}} /\ booked \subseteq Day
           /\ \A m \in Int : m # Month(Created) => total[m] = DeltaSum(InMonth(rows, m))
           /\ logs' = [logs EXCEPT ![a] = rows]
           /\ calendar' = [calendar EXCEPT ![a] =
                  [m \in DOMAIN calendar[a] \cup {n \in months : total[n] > 0} |->
                      IF m \in months THEN total[m] ELSE calendar[a][m]]]
           /\ daily' = [daily EXCEPT ![a] =
                  [d \in DOMAIN daily[a] \cup booked |-> DeltaSum(OnDay(rows, d))]]
  BY <1>3
<1>5. PICK C : C = DOMAIN calendar[a] \cup {n \in months : total[n] > 0}
  OBVIOUS
<1>6. PICK f, g : /\ f = [d \in DOMAIN daily[a] \cup booked |-> DeltaSum(OnDay(rows, d))]
                  /\ g = [m \in C |-> IF m \in months THEN total[m] ELSE calendar[a][m]]
  OBVIOUS
<1>7. /\ DOMAIN daily' = Account /\ DOMAIN calendar' = Account
      /\ \A b \in Account : /\ logs'[b] = IF b = a THEN rows ELSE logs[b]
                            /\ daily'[b] = IF b = a THEN f ELSE daily[b]
                            /\ calendar'[b] = IF b = a THEN g ELSE calendar[b]
  BY <1>4, <1>5, <1>6 DEF AgreeInv, TableShape, BooksInv, BookShape, LogShape
<1>8. TableShape'
  <2>1. IsFunction(f) /\ DOMAIN f \subseteq Day
    BY <1>4, <1>6 DEF IsFunction, AgreeInv, TableShape
  <2>2. IsFunction(g) /\ DOMAIN g \subseteq Nat
    BY <1>4, <1>5, <1>6 DEF IsFunction, AgreeInv, TableShape
  <2>3. ASSUME NEW b \in Account
        PROVE  /\ IsFiniteSet(logs'[b])
               /\ \A l \in logs'[b] : l.delta \in Nat /\ IsFunction(l) /\ "delta" \in DOMAIN l
               /\ IsFunction(daily'[b]) /\ DOMAIN daily'[b] \subseteq Day
               /\ IsFunction(calendar'[b]) /\ DOMAIN calendar'[b] \subseteq Nat
    <3>1. CASE b = a
      <4>1. logs'[b] = rows /\ daily'[b] = f /\ calendar'[b] = g
        BY <1>7, <3>1
      <4> QED
        BY <1>4, <2>1, <2>2, <4>1
    <3>2. CASE b # a
      <4>1. logs'[b] = logs[b] /\ daily'[b] = daily[b] /\ calendar'[b] = calendar[b]
        BY <1>7, <3>2
      <4> QED
        BY <4>1 DEF AgreeInv, TableShape
    <3> QED
      BY <3>1, <3>2
  <2>4. \A p \in Proc : sync'[p].pc = "commit" => sync'[p].delta \in Nat
    BY <1>2 DEF CommitsCalm, AgreeInv, TableShape
  <2> QED
    BY <1>7, <2>3, <2>4 DEF TableShape
<1>9. /\ \A b \in Account : b # a => overlap'[b] = overlap[b]
      /\ ~overlap'[a] => ~overlap[a] /\ \A p \in Proc : a \notin Under(p)
  <2> DEFINE met == \E p \in Proc : a \in Under(p)
  <2>1. overlap \in [Account -> BOOLEAN] /\ overlap' = [overlap EXCEPT ![a] = overlap[a] \/ met]
    BY <1>1 DEF SealInv, RowShape
  <2>2. (\A b \in Account : b # a => overlap'[b] = overlap[b]) /\ (~overlap'[a] => ~overlap[a] /\ ~met)
    <3> HIDE DEF met
    <3> QED
      BY <2>1
  <2> QED
    BY <2>2
<1>10. ASSUME NEW b \in Account, b # a PROVE Agrees(b)'
  <2>1. logs'[b] = logs[b] /\ daily'[b] = daily[b] /\ calendar'[b] = calendar[b]
    BY <1>7, <1>10
  <2>2. today \in Int /\ today' \in Int /\ today <= today' /\ counted'[b] = counted[b]
    <3>1. today \in Int
      BY TimeType DEF BooksInv
    <3> QED
      BY <1>1, <3>1
  <2>3. BooksStay(b)
    BY <1>9, <1>10, <2>1, <2>2 DEF BooksStay
  <2> QED
    BY <1>2, <2>3, AgreesStay DEF AgreeInv, BooksInv, BookShape
<1>11. ASSUME ~overlap'[a] PROVE Agrees(a)'
  <2>1. MonthRight(a) /\ \A p \in Proc : ~Closing(p, a)
    BY <1>9, <1>11 DEF AgreeInv, Agrees, Closing, Under
  <2>2. \A p \in Proc : ~Closing(p, a)'
    BY <1>2, <2>1 DEF CommitsCalm, Closing
  <2>3. logs'[a] = rows /\ daily'[a] = f /\ calendar'[a] = g
    BY <1>7
  <2>4. DayRight(a)'
    <3>1. ASSUME NEW d \in Day PROVE At(f, d) = DeltaSum(OnDay(rows, d))
      <4>1. CASE d \in DOMAIN f
        BY <1>6, <4>1 DEF At
      <4>2. CASE d \notin DOMAIN f
        <5>1. d \notin booked
          BY <1>6, <4>2
        <5>2. \A l \in OnDay(rows, d) : l.delta = 0
          BY <1>4, <5>1 DEF OnDay
        <5>3. IsFiniteSet(OnDay(rows, d))
          BY <1>4, FS_Subset DEF OnDay
        <5> QED
          BY <4>2, <5>2, <5>3, DeltaZero DEF At
      <4> QED
        BY <4>1, <4>2
    <3> QED
      BY <2>3, <3>1 DEF DayRight
  <2>5. MonthRight(a)'
    <3>1. ASSUME NEW m \in DOMAIN g, Counts(m) PROVE g[m] = DeltaSum(InMonth(rows, m))
      <4>1. m \in Int /\ m \in C
        BY <1>4, <1>5, <1>6, <3>1 DEF AgreeInv, TableShape
      <4>2. CASE m \in months
        BY <1>4, <1>6, <3>1, <4>1, <4>2 DEF Counts
      <4>3. CASE m \notin months
        <5>1. InMonth(rows, m) = {}
          BY <1>4, <4>3 DEF InMonth
        <5>2. InMonth(logs[a], m) = {}
          <6>1. ASSUME NEW l \in logs[a] PROVE Month(l.day) # m
            <7>1. Anew(logs[a])[l] \in rows
              BY <1>4
            <7>2. Anew(logs[a])[l].day = l.day
              <8>1. /\ IsFiniteSet(logs[a]) /\ (\A k \in logs[a] : Row(k))
                    /\ IsFunction(l) /\ "delta" \in DOMAIN l
                BY DEF AgreeInv, TableShape, BooksInv, BookShape, LogShape
              <8>2. "day" \in DOMAIN l /\ "day" # "delta"
                BY <8>1 DEF Row
              <8> QED
                BY <8>1, <8>2, AnewRow
            <7> QED
              BY <1>4, <4>3, <7>1, <7>2
          <6> QED
            BY <6>1 DEF InMonth
        <5>3. m \in DOMAIN calendar[a] /\ g[m] = calendar[a][m]
          BY <1>5, <1>6, <4>1, <4>3
        <5>4. calendar[a][m] = DeltaSum(InMonth(logs[a], m))
          BY <2>1, <3>1, <5>3 DEF MonthRight
        <5> QED
          BY <5>1, <5>2, <5>3, <5>4
      <4> QED
        BY <4>2, <4>3
    <3> QED
      BY <1>1, <2>3, <3>1 DEF MonthRight, Counts, Whole
  <2> QED
    BY <2>2, <2>4, <2>5 DEF Agrees
<1>12. Agrees(a)'
  BY <1>11 DEF Agrees
<1> QED
  BY <1>8, <1>10, <1>12 DEF AllAgree

-----------------------------------------------------------------------------
LEMMA InitAgree == Init => AgreeInv
<1> SUFFICES ASSUME Init PROVE AgreeInv
  OBVIOUS
<1>1. ASSUME NEW a \in Account
      PROVE  logs[a] = {} /\ daily[a] = <<>> /\ calendar[a] = <<>>
  BY DEF Init
<1>2. \A p \in Proc : sync[p].pc = "idle"
  BY DEF Init, Idle
<1>3. TableShape
  <2>1. IsFunction(<<>>) /\ DOMAIN <<>> = {}
    BY DEF IsFunction
  <2>2. DOMAIN daily = Account /\ DOMAIN calendar = Account
    BY DEF Init
  <2>3. \A p \in Proc : sync[p].pc # "commit"
    BY <1>2
  <2>4. ASSUME NEW a \in Account
        PROVE  /\ IsFiniteSet(logs[a]) /\ logs[a] = {}
               /\ IsFunction(daily[a]) /\ DOMAIN daily[a] = {}
               /\ IsFunction(calendar[a]) /\ DOMAIN calendar[a] = {}
    BY <1>1, <2>1, FS_EmptySet
  <2> QED
    BY <2>2, <2>3, <2>4 DEF TableShape
<1>4. ASSUME NEW a \in Account PROVE Agrees(a)
  <2>1. \A p \in Proc : ~Closing(p, a)
    BY <1>2 DEF Closing
  <2>2. \A d : At(daily[a], d) = 0
    BY <1>1 DEF At
  <2>3. \A d : OnDay(logs[a], d) = {}
    BY <1>1 DEF OnDay
  <2>4. DeltaSum({}) = 0
    BY DeltaZero, FS_EmptySet
  <2>5. DayRight(a)
    BY <2>2, <2>3, <2>4 DEF DayRight
  <2>6. MonthRight(a)
    BY <1>1 DEF MonthRight
  <2> QED
    BY <2>1, <2>5, <2>6 DEF Agrees
<1> QED
  BY <1>3, <1>4 DEF AgreeInv

LEMMA StepAgree == BooksInv /\ SealInv /\ AgreeInv /\ [Next]_vars => AllAgree
<1> SUFFICES ASSUME BooksInv, SealInv, AgreeInv, [Next]_vars PROVE AllAgree
  OBVIOUS
<1>1. CASE Books
  BY <1>1, SyncRecordAgree, SyncCommitAgree, RepairAgree, CleanupAgree DEF Books
<1>2. CASE ~Books
  BY <1>2, OthersStand, StandAgree DEF BooksInv, BookShape
<1> QED
  BY <1>1, <1>2

LEMMA AgreeBooks == AgreeInv => BooksAgree
<1> SUFFICES ASSUME AgreeInv, NEW a \in Account, Serial(a)
             PROVE  /\ \A d \in Day : d >= today - LogDays =>
                         (IF d \in DOMAIN daily[a] THEN daily[a][d] ELSE 0)
                             = DeltaSum({l \in logs[a] : l.day = d})
                    /\ \A m \in DOMAIN calendar[a] :
                         m # Month(Created) /\ MonthStart(m) >= today - LogDays
                             => calendar[a][m] = _incremental_month_tokens(logs[a], m)
  BY DEF BooksAgree
<1>1. DayRight(a) /\ MonthRight(a)
  BY DEF AgreeInv, Agrees, Serial
<1> QED
  BY <1>1 DEF DayRight, MonthRight, At, OnDay, InMonth, Whole, Counts, _incremental_month_tokens

\* The daily rows of an account, and its calendar rows but that of the month it was
\* bound in, are the sums of the increments in its sync log, as far back as that
\* is kept, unless syncs of the account have overlapped (_record_token_sync, the
\* history cleanup and repair_calendar_token_deltas): for any accounts, processes,
\* disturbances and lengths of a month.
THEOREM BooksAgreeWithLog == Spec => []BooksAgree
<1>1. Init => SealInv /\ BooksInv /\ AgreeInv
  BY InitSeal, InitBooks, InitAgree
<1>2. SealInv /\ BooksInv /\ AgreeInv /\ [Next]_vars => SealInv' /\ BooksInv' /\ AgreeInv'
  BY StepGood, StepBooks, StepAgree DEF AllGood, Good, SealInv, AllBalanced, BooksInv, AllAgree,
     AgreeInv
<1> QED
  BY <1>1, <1>2, AgreeBooks, PTL DEF Spec

-----------------------------------------------------------------------------
\* A repair finds nothing to correct.

\* Calendar rows are kept for as long as the log rows they are made of, but
\* that of the month the account was bound in.
Long == LogDays < (KeptMonths + 1) * MonthDays

\* The log still holds every sync of the account.
LogWhole == today <= LogDays

\* The increments in the log are those that a repair would make of it, and the
\* one a sync is about to log is too; no month with tokens is without its row, if
\* the rows last.
Chained(a) ==
    /\ \A l \in logs[a] : l.delta = compute_sync_delta(Previous(logs[a], l), l.cycle, l.total)
    /\ Long => \A m \in Nat \ {Month(Created)} :
         DeltaSum(InMonth(logs[a], m)) > 0 => m \in DOMAIN calendar[a]
    /\ \A p \in Proc : Closing(p, a) =>
         sync[p].delta = compute_sync_delta(Newest(logs[a]), sync[p].new.start, sync[p].new.total)

ChainInv == \A a \in Account : ~overlap[a] /\ LogWhole => Chained(a)

-----------------------------------------------------------------------------
LEMMA MonthLater ==
  \A day, later \in Nat : day <= later => Month(day) \in Nat /\ Month(day) <= Month(later)
                                          /\ Month(day) <= day
  BY MetricsAssumption DEF Month

LEMMA MonthsKept ==
  \A day, n, k \in Nat : day <= n /\ n < (k + 1) * MonthDays => Month(day) \in Nat /\ Month(day) <= k
  BY MetricsAssumption DEF Month

LEMMA WholeLog ==
  ASSUME BooksInv, LogWhole
  PROVE  /\ \A d \in Nat : Whole(d)
         /\ \A m \in Nat : m # Month(Created) => Counts(m)
<1>1. today \in Int /\ LogDays \in Int /\ today <= LogDays
  BY TimeType, LedgerAssumption DEF BooksInv, LogWhole
<1>2. today - LogDays \in Int /\ today - LogDays <= 0
  BY <1>1
<1>3. \A d \in Nat : Whole(d)
  BY <1>2 DEF Whole
<1>4. \A m \in Nat : MonthStart(m) \in Nat
  BY MetricsAssumption DEF MonthStart
<1> QED
  BY <1>3, <1>4 DEF Counts

LEMMA WholeBefore ==
  ASSUME today \in Int, today' \in Int, today <= today', LogWhole'
  PROVE  LogWhole
<1>1. \A x, y, z \in Int : x <= y /\ y <= z => x <= z
  OBVIOUS
<1> QED
  BY <1>1, LedgerAssumption DEF LogWhole

LEMMA StandChain ==
  ASSUME ChainInv, TablesStand, CommitsCalm
  PROVE  ChainInv'
<1> SUFFICES ASSUME NEW a \in Account, ~overlap'[a], LogWhole' PROVE Chained(a)'
  BY DEF ChainInv
<1>1. Chained(a)
  BY WholeBefore DEF ChainInv, TablesStand
<1>2. \A p \in Proc : Closing(p, a)' =>
        Closing(p, a) /\ sync'[p].delta = sync[p].delta /\ sync'[p].new = sync[p].new
  BY DEF CommitsCalm, Closing
<1>3. logs' = logs /\ calendar' = calendar
  BY DEF TablesStand
<1> QED
  BY <1>1, <1>2, <1>3 DEF Chained

LEMMA SyncRecordChain ==
  BooksInv /\ SealInv /\ AgreeInv /\ ChainInv => \A p \in Proc : SyncRecord(p) => ChainInv'
<1> SUFFICES ASSUME BooksInv, SealInv, AgreeInv, ChainInv, NEW p \in Proc, SyncRecord(p)
             PROVE  ChainInv'
  OBVIOUS
<1>1. UNCHANGED <<today, logs, daily, calendar, counted>> /\ UNCHANGED overlap
  BY DEF SyncRecord, tables, ghosts
<1>2. PICK a \in Account, delta \in Nat : \E r :
           /\ sync[p].pc = "record" /\ sync[p].acct = a /\ sync' = [sync EXCEPT ![p] = r]
           /\ \A q \in Proc : sync'[q] = IF q = p THEN r ELSE sync[q]
           /\ delta = compute_sync_delta(Newest(logs[a]), r.new.start, r.new.total)
           /\ r.pc = "commit" /\ r.acct = a /\ r.delta = delta
           /\ r.at = sync[p].at /\ r.day = sync[p].day /\ r.new = sync[p].new
           /\ r.base = IF r.day \in DOMAIN daily[a] THEN daily[a][r.day] ELSE None
           /\ r.month = resolve_calendar_month(r.new, Month(r.day),
                            logs[a] \cup {Entry(r, delta)}, Created, today)
  BY RecordReads DEF AgreeInv
<1>3. PICK r :
           /\ sync[p].pc = "record" /\ sync[p].acct = a
           /\ \A q \in Proc : sync'[q] = IF q = p THEN r ELSE sync[q]
           /\ delta = compute_sync_delta(Newest(logs[a]), r.new.start, r.new.total)
           /\ r.pc = "commit" /\ r.acct = a /\ r.delta = delta
  BY <1>2
<1>4. ASSUME NEW b \in Account, ~overlap[b], LogWhole, NEW q \in Proc, Closing(q, b)'
      PROVE  sync'[q].delta = compute_sync_delta(Newest(logs[b]), sync'[q].new.start, sync'[q].new.total)
  <2>1. CASE q = p
    BY <1>3, <1>4, <2>1 DEF Closing
  <2>2. CASE q # p
    BY <1>3, <1>4, <2>2 DEF Closing, ChainInv, Chained
  <2> QED
    BY <2>1, <2>2
<1>5. ASSUME NEW b \in Account, ~overlap[b], LogWhole PROVE Chained(b)'
  BY <1>1, <1>4, <1>5 DEF ChainInv, Chained
<1> QED
  BY <1>1, <1>5 DEF ChainInv, LogWhole

\* A row that is newer than every row of the log follows the newest of them and
\* comes before none.
LEMMA PreviousStays ==
  ASSUME NEW rows, NEW own, own.at \in Int, \A l \in rows : l.at \in Int /\ l.at < own.at
  PROVE  /\ Previous(rows \cup {own}, own) = Newest(rows)
         /\ \A l \in rows : Previous(rows \cup {own}, l) = Previous(rows, l)
<1>1. {k \in rows \cup {own} : k.at < own.at} = rows
  OBVIOUS
<1>2. ASSUME NEW l \in rows
      PROVE  {k \in rows \cup {own} : k.at < l.at} = {k \in rows : k.at < l.at}
  OBVIOUS
<1> QED
  BY <1>1, <1>2 DEF Previous

LEMMA SyncCommitChain ==
  BooksInv /\ SealInv /\ AgreeInv /\ ChainInv => \A p \in Proc : SyncCommit(p) => ChainInv'
<1> SUFFICES ASSUME BooksInv, SealInv, AgreeInv, ChainInv, NEW p \in Proc, SyncCommit(p)
             PROVE  ChainInv'
  OBVIOUS
<1>1. UNCHANGED today /\ UNCHANGED overlap /\ Proceed(p)
  BY DEF SyncCommit
<1>2. CommitsCalm /\ TableShape
  BY CommitShape DEF AgreeInv
<1>3. CASE UNCHANGED <<logs, daily, calendar, counted>>
  <2>1. TablesStand
    BY <1>1, <1>3, TablesSame
  <2> QED
    BY <1>2, <2>1, StandChain
<1>4. CASE ~(UNCHANGED <<logs, daily, calendar, counted>>)
  <2>1. PICK a \in Account, delta \in Nat : \E r, own :
           /\ r = sync[p] /\ r.pc = "commit" /\ r.acct = a /\ r.delta = delta
           /\ r.day \in Nat /\ r.day \in Day /\ r.at \in Int /\ Sound(r) /\ Shape(r)
           /\ own = Entry(r, delta)
           /\ logs' = [logs EXCEPT ![a] = logs[a] \cup {own}]
           /\ counted' = [counted EXCEPT ![a] = counted[a] + delta]
           /\ daily' = IF delta = 0 THEN daily
                       ELSE [daily EXCEPT ![a] = Put(daily[a], r.day, Booked(r, delta))]
           /\ calendar' = IF r.month = 0 THEN calendar
                          ELSE [calendar EXCEPT ![a] = Put(calendar[a], Month(r.day), r.month)]
    BY <1>2, <1>4, CommitWrites
  <2>2. PICK r, own :
           /\ r = sync[p] /\ r.pc = "commit" /\ r.acct = a /\ r.delta = delta
           /\ r.day \in Nat /\ r.day \in Day /\ r.at \in Int /\ Sound(r) /\ Shape(r)
           /\ own = Entry(r, delta)
           /\ logs' = [logs EXCEPT ![a] = logs[a] \cup {own}]
           /\ counted' = [counted EXCEPT ![a] = counted[a] + delta]
           /\ daily' = IF delta = 0 THEN daily
                       ELSE [daily EXCEPT ![a] = Put(daily[a], r.day, Booked(r, delta))]
           /\ calendar' = IF r.month = 0 THEN calendar
                          ELSE [calendar EXCEPT ![a] = Put(calendar[a], Month(r.day), r.month)]
    BY <2>1
  <2>3. \A b \in Account : b # a => logs'[b] = logs[b] /\ calendar'[b] = calendar[b]
    BY <2>2
  <2>4. \A q \in Proc, b \in Account : Closing(q, b)' => Closing(q, b)
                /\ sync'[q].delta = sync[q].delta /\ sync'[q].new = sync[q].new
    BY <1>2 DEF CommitsCalm, Closing
  <2>5. ASSUME NEW b \in Account, b # a, ~overlap[b], LogWhole PROVE Chained(b)'
    <3>1. Chained(b) /\ logs'[b] = logs[b] /\ calendar'[b] = calendar[b]
      BY <2>3, <2>5 DEF ChainInv
    <3> QED
      BY <2>4, <3>1 DEF Chained
  <2>6. ASSUME ~overlap[a], LogWhole PROVE Chained(a)'
    <3>1. Chained(a) /\ Apart(a) /\ LogOrder(a) /\ RightToWrite(r, a)
      BY <2>2, <2>6 DEF ChainInv, SealInv, InOrder, BooksInv, Balanced, AgreeInv, Agrees, Closing
    <3>2. /\ own.at = r.at /\ own.day = r.day /\ own.delta = delta
          /\ own.cycle = r.new.start /\ own.total = r.new.total
      BY <2>2 DEF Entry
    <3>3. \A l \in logs[a] : l.at \in Int /\ l.at < own.at
      BY <2>2, <3>1, <3>2 DEF LogOrder, Stamped, Timed, BooksInv, BookShape, LogShape, Row
    <3>4. logs'[a] = logs[a] \cup {own}
      BY <2>2 DEF BooksInv, BookShape, LogShape
    <3>5. ASSUME NEW l \in logs'[a]
          PROVE  l.delta = compute_sync_delta(Previous(logs'[a], l), l.cycle, l.total)
      <4>1. own.at \in Int
        BY <2>2, <3>2
      <4>2. /\ Previous(logs'[a], own) = Newest(logs[a])
            /\ \A k \in logs[a] : Previous(logs'[a], k) = Previous(logs[a], k)
        <5>1. PICK rows : rows = logs[a] /\ logs'[a] = rows \cup {own}
          BY <3>4
        <5>2. \A k \in rows : k.at \in Int /\ k.at < own.at
          BY <3>3, <5>1
        <5>3. /\ Previous(rows \cup {own}, own) = Newest(rows)
              /\ \A k \in rows : Previous(rows \cup {own}, k) = Previous(rows, k)
          BY <4>1, <5>2, PreviousStays
        <5> QED
          BY <5>1, <5>3
      <4>3. CASE l = own
        <5>1. delta = compute_sync_delta(Newest(logs[a]), r.new.start, r.new.total)
          BY <2>2, <3>1 DEF Chained, Closing
        <5> QED
          BY <3>2, <4>2, <4>3, <5>1
      <4>4. CASE l \in logs[a]
        BY <3>1, <4>2, <4>4 DEF Chained
      <4> QED
        BY <3>4, <3>5, <4>3, <4>4
    <3>6. ASSUME Long, NEW m \in Nat \ {Month(Created)}, DeltaSum(InMonth(logs'[a], m)) > 0
          PROVE  m \in DOMAIN calendar'[a]
      <4>1. own \notin logs[a] /\ own.delta \in Nat /\ own.day \in Int
        BY <2>2, <3>2, <3>3
      <4>2. IsFiniteSet(logs[a]) /\ \A l \in logs[a] : l.delta \in Nat
        BY <1>2 DEF TableShape
      <4>3. \A n : DeltaSum(InMonth(logs[a] \cup {own}, n))
                       = IF Month(own.day) = n THEN DeltaSum(InMonth(logs[a], n)) + own.delta
                         ELSE DeltaSum(InMonth(logs[a], n))
        BY <4>1, <4>2, PartGrows
      <4>4. DOMAIN calendar[a] \subseteq DOMAIN calendar'[a]
            /\ (r.month # 0 => Month(r.day) \in DOMAIN calendar'[a])
        <5>1. CASE r.month = 0
          BY <2>2, <5>1
        <5>2. CASE r.month # 0
          <6>1. calendar'[a] = Put(calendar[a], Month(r.day), r.month)
            BY <1>2, <2>2, <5>2 DEF TableShape
          <6>2. DOMAIN calendar'[a] = DOMAIN calendar[a] \cup {Month(r.day)}
            BY <6>1, PutShape
          <6> QED
            BY <6>2
        <5> QED
          BY <5>1, <5>2
      <4>5. CASE Month(r.day) = m
        <5>1. Counts(m)
          BY <2>6, WholeLog
        <5>2. r.month = DeltaSum(InMonth(logs[a], m)) + delta
          BY <2>2, <3>1, <4>5, <5>1 DEF RightToWrite
        <5>3. r.month = DeltaSum(InMonth(logs'[a], m))
          BY <3>2, <3>4, <4>3, <4>5, <5>2
        <5> QED
          BY <3>6, <4>4, <4>5, <5>3
      <4>6. CASE Month(r.day) # m
        <5>1. DeltaSum(InMonth(logs[a], m)) > 0
          BY <3>2, <3>4, <3>6, <4>3, <4>6
        <5> QED
          BY <3>1, <3>6, <4>4, <5>1 DEF Chained
      <4> QED
        BY <4>5, <4>6
    <3>7. ASSUME NEW q \in Proc, Closing(q, a)' PROVE FALSE
      <4>1. sync[q].pc = "commit" /\ sync[q].acct = a
        BY <2>4, <3>7 DEF Closing
      <4>2. q = p
        BY <2>2, <3>1, <4>1 DEF Apart, Under
      <4>3. sync'[p].pc \in {"idle", "fetch"}
        BY <1>1, <2>2, TimeType, ProceedBooks DEF BooksInv, BookShape, SealInv, SyncCommit
      <4> QED
        BY <3>7, <4>2, <4>3 DEF Closing
    <3> QED
      BY <3>5, <3>6, <3>7 DEF Chained
  <2>7. ASSUME NEW b \in Account, ~overlap[b], LogWhole PROVE Chained(b)'
    BY <2>5, <2>6, <2>7
  <2> QED
    BY <1>1, <2>7 DEF ChainInv, LogWhole
<1> QED
  BY <1>3, <1>4

-----------------------------------------------------------------------------
\* As long as the log is whole a clean-up takes none of it, nor a calendar row
\* that is made of it.
LEMMA CleanupChain ==
  ASSUME BooksInv, ChainInv, AgreeInv, cleanup_cursor_usage_history
  PROVE  ChainInv'
<1>1. /\ UNCHANGED <<today, overlap>> /\ UNCHANGED sync
      /\ logs' = [a \in Account |-> {l \in logs[a] : l.day >= today - LogDays}]
      /\ calendar' = [a \in Account |->
            Keep(calendar[a], {m \in 0..MaxDay : m >= Month(today) - (KeptMonths - 1)})]
  BY DEF cleanup_cursor_usage_history, ghosts
<1> SUFFICES ASSUME NEW a \in Account, ~overlap[a], LogWhole PROVE Chained(a)'
  BY <1>1 DEF ChainInv, LogWhole
<1>2. Chained(a)
  BY DEF ChainInv
<1>3. logs'[a] = logs[a]
  <2>1. \A l \in logs[a] : Whole(l.day)
    BY WholeLog DEF BooksInv, BookShape, LogShape, Row
  <2> QED
    BY <1>1, <2>1 DEF Whole
<1>4. PICK K : K = {m \in 0..MaxDay : m >= Month(today) - (KeptMonths - 1)}
  OBVIOUS
<1>5. DOMAIN calendar'[a] = DOMAIN calendar[a] \cap K
  <2>1. calendar'[a] = Keep(calendar[a], K)
    BY <1>1, <1>4
  <2> QED
    BY <2>1, KeepShape
<1>6. ASSUME Long, NEW m \in Nat \ {Month(Created)}, DeltaSum(InMonth(logs[a], m)) > 0
      PROVE  m \in K
  <2>1. PICK l \in logs[a] : Month(l.day) = m
    <3>1. CASE InMonth(logs[a], m) = {}
      BY <1>6, <3>1, DeltaZero, FS_EmptySet
    <3>2. CASE InMonth(logs[a], m) # {}
      BY <3>2 DEF InMonth
    <3> QED
      BY <3>1, <3>2
  <2>2. /\ l.day \in Nat /\ Created <= l.day /\ l.day <= today
        /\ today \in Nat /\ today <= MaxDay /\ Created \in Nat /\ MaxDay \in Nat
    BY LedgerAssumption DEF BooksInv, BookShape, LogShape, Row, TimeShape
  <2>3. m <= MaxDay /\ m > 0 /\ Month(today) \in Nat /\ Month(today) <= KeptMonths
    <3>1. m <= l.day
      BY <2>1, <2>2, MonthLater
    <3>2. Month(Created) <= m /\ Month(Created) \in Nat
      BY <2>1, <2>2, MonthLater
    <3>3. Month(today) \in Nat /\ Month(today) <= KeptMonths
      <4>1. LogDays \in Nat /\ KeptMonths \in Nat /\ today <= LogDays
        BY LedgerAssumption DEF LogWhole
      <4> QED
        BY <1>6, <2>2, <4>1, MonthsKept DEF Long
    <3>4. m <= MaxDay
      BY <2>2, <3>1
    <3> QED
      BY <1>6, <3>2, <3>3, <3>4
  <2> QED
    BY <1>4, <2>2, <2>3, LedgerAssumption
<1>7. \A p \in Proc : Closing(p, a)' => Closing(p, a)
  BY <1>1 DEF Closing
<1> QED
  BY <1>1, <1>2, <1>3, <1>5, <1>6, <1>7 DEF Chained

\* The rows of an account are made anew from a log that stays as it is.
MadeAnew(a, months, booked, total) ==
    /\ \A l \in logs[a] : l.day \in Day /\ l.delta \in Nat
    /\ IsFiniteSet(logs[a])
    /\ months \subseteq Nat
    /\ booked = {l.day : l \in {k \in logs[a] : k.delta > 0}}
    /\ \A m \in Int : m # Month(Created) => total[m] = DeltaSum(InMonth(logs[a], m))
    /\ logs'[a] = logs[a]
    /\ calendar'[a] = [m \in DOMAIN calendar[a] \cup {n \in months : total[n] > 0} |->
                          IF m \in months THEN total[m] ELSE calendar[a][m]]
    /\ daily'[a] = [d \in DOMAIN daily[a] \cup booked |-> DeltaSum(OnDay(logs[a], d))]

\* A repair of an account whose syncs never overlapped, and whose log is whole,
\* leaves the log as it is.
LEMMA RepairSame ==
  ASSUME BooksInv, SealInv, AgreeInv, NEW a \in Account, repair_calendar_token_deltas(a),
         ~overlap[a], LogWhole, Chained(a)
  PROVE  \E months, booked, total : MadeAnew(a, months, booked, total)
<1>1. PICK rows : \E months, booked, total :
           /\ rows = {Anew(logs[a])[l] : l \in logs[a]}
           /\ \A l \in rows : /\ l.day \in Nat /\ l.day \in Day /\ l.delta \in Nat
                             /\ IsFunction(l) /\ "delta" \in DOMAIN l
           /\ IsFiniteSet(rows)
           /\ months = {Month(l.day) : l \in rows} /\ months \subseteq Nat
           /\ booked = {l.day : l \in {k \in rows : k.delta > 0}} /\ booked \subseteq Day
           /\ \A m \in Int : m # Month(Created) => total[m] = DeltaSum(InMonth(rows, m))
           /\ logs' = [logs EXCEPT ![a] = rows]
           /\ calendar' = [calendar EXCEPT ![a] =
                  [m \in DOMAIN calendar[a] \cup {n \in months : total[n] > 0} |->
                      IF m \in months THEN total[m] ELSE calendar[a][m]]]
           /\ daily' = [daily EXCEPT ![a] =
                  [d \in DOMAIN daily[a] \cup booked |-> DeltaSum(OnDay(rows, d))]]
  BY RepairWrites DEF AgreeInv
<1>2. PICK months, booked, total :
           /\ rows = {Anew(logs[a])[l] : l \in logs[a]}
           /\ \A l \in rows : /\ l.day \in Nat /\ l.day \in Day /\ l.delta \in Nat
                             /\ IsFunction(l) /\ "delta" \in DOMAIN l
           /\ IsFiniteSet(rows)
           /\ months = {Month(l.day) : l \in rows} /\ months \subseteq Nat
           /\ booked = {l.day : l \in {k \in rows : k.delta > 0}} /\ booked \subseteq Day
           /\ \A m \in Int : m # Month(Created) => total[m] = DeltaSum(InMonth(rows, m))
           /\ logs' = [logs EXCEPT ![a] = rows]
           /\ calendar' = [calendar EXCEPT ![a] =
                  [m \in DOMAIN calendar[a] \cup {n \in months : total[n] > 0} |->
                      IF m \in months THEN total[m] ELSE calendar[a][m]]]
           /\ daily' = [daily EXCEPT ![a] =
                  [d \in DOMAIN daily[a] \cup booked |-> DeltaSum(OnDay(rows, d))]]
  BY <1>1
<1>3. rows = logs[a]
  <2>1. ASSUME NEW l \in logs[a] PROVE Anew(logs[a])[l] = l
    <3>1. IsFunction(l) /\ "delta" \in DOMAIN l
      BY DEF AgreeInv, TableShape
    <3>2. l.delta = compute_sync_delta(Previous(logs[a], l), l.cycle, l.total)
      BY DEF Chained
    <3>3. Anew(logs[a])[l] = [l EXCEPT !.delta = l.delta]
      BY <3>2 DEF Anew
    <3> QED
      BY <3>1, <3>3 DEF IsFunction
  <2> QED
    BY <1>2, <2>1
<1>4. /\ logs'[a] = logs[a]
      /\ calendar'[a] = [m \in DOMAIN calendar[a] \cup {n \in months : total[n] > 0} |->
                            IF m \in months THEN total[m] ELSE calendar[a][m]]
      /\ daily'[a] = [d \in DOMAIN daily[a] \cup booked |-> DeltaSum(OnDay(logs[a], d))]
  BY <1>2, <1>3 DEF BooksInv, BookShape, LogShape, AgreeInv, TableShape
<1>5. MadeAnew(a, months, booked, total)
  BY <1>2, <1>3, <1>4 DEF MadeAnew
<1> QED
  BY <1>5

\* Nor does it change the rows that are made of it.
LEMMA RepairIdle ==
  ASSUME Long, BooksInv, SealInv, AgreeInv, NEW a \in Account, repair_calendar_token_deltas(a),
         ~overlap[a], LogWhole, Chained(a)
  PROVE  /\ logs'[a] = logs[a] /\ daily'[a] = daily[a]
         /\ \A m \in DOMAIN calendar'[a] \ {Month(Created)} :
              m \in DOMAIN calendar[a] /\ calendar'[a][m] = calendar[a][m]
<1>1. PICK months, booked, total : MadeAnew(a, months, booked, total)
  BY RepairSame
<1>2. /\ \A l \in logs[a] : l.day \in Day /\ l.delta \in Nat
      /\ IsFiniteSet(logs[a])
      /\ months \subseteq Nat
      /\ booked = {l.day : l \in {k \in logs[a] : k.delta > 0}}
      /\ \A m \in Int : m # Month(Created) => total[m] = DeltaSum(InMonth(logs[a], m))
      /\ logs'[a] = logs[a]
      /\ calendar'[a] = [m \in DOMAIN calendar[a] \cup {n \in months : total[n] > 0} |->
                            IF m \in months THEN total[m] ELSE calendar[a][m]]
      /\ daily'[a] = [d \in DOMAIN daily[a] \cup booked |-> DeltaSum(OnDay(logs[a], d))]
  BY <1>1 DEF MadeAnew
<1>3. PICK rows : rows = logs[a]
  OBVIOUS
<1>4. logs'[a] = logs[a]
  BY <1>2
<1>5. DayRight(a) /\ MonthRight(a) /\ \A l \in logs[a] : l.day \in Day
  BY <1>2 DEF AgreeInv, Agrees
<1>6. PICK f, g : f = daily[a] /\ g = calendar[a]
  OBVIOUS
<1>7. IsFunction(f) /\ DOMAIN f \subseteq Day /\ IsFunction(g) /\ DOMAIN g \subseteq Nat
  BY <1>6 DEF AgreeInv, TableShape
<1>8. \A d \in Day : At(f, d) = DeltaSum(OnDay(rows, d))
  <2>1. \A d \in Day : d \in Nat
    BY LedgerAssumption DEF Day
  <2> QED
    BY <1>3, <1>5, <1>6, <2>1, WholeLog DEF DayRight
<1>9. booked \subseteq DOMAIN f
  <2>1. ASSUME NEW l \in rows, l.delta > 0 PROVE l.day \in DOMAIN f
    <3>1. l \in OnDay(rows, l.day) /\ OnDay(rows, l.day) \in SUBSET rows
      BY DEF OnDay
    <3>2. l.delta \in Nat /\ l.delta <= DeltaSum(OnDay(rows, l.day))
          /\ DeltaSum(OnDay(rows, l.day)) \in Nat
      <4>1. IsFiniteSet(rows) /\ \A k \in rows : k.delta \in Nat
        BY <1>2, <1>3
      <4> QED
        BY <3>1, <4>1, PartSum
    <3>3. At(f, l.day) = DeltaSum(OnDay(rows, l.day))
      BY <1>2, <1>3, <1>8
    <3>4. At(f, l.day) # 0
      BY <2>1, <3>2, <3>3
    <3> QED
      BY <3>4 DEF At
  <2> QED
    BY <1>2, <1>3, <2>1
<1>10. daily'[a] = daily[a]
  <2>1. daily'[a] = [d \in DOMAIN f |-> DeltaSum(OnDay(rows, d))]
    <3>1. DOMAIN f \cup booked = DOMAIN f
      BY <1>9
    <3> QED
      BY <1>2, <1>3, <1>6, <3>1
  <2>2. \A d \in DOMAIN f : DeltaSum(OnDay(rows, d)) = f[d]
    BY <1>7, <1>8 DEF At
  <2>3. [d \in DOMAIN f |-> DeltaSum(OnDay(rows, d))] = [d \in DOMAIN f |-> f[d]]
    BY <2>2
  <2> QED
    BY <1>6, <1>7, <2>1, <2>3 DEF IsFunction
<1>11. PICK C : C = DOMAIN g \cup {n \in months : total[n] > 0}
  OBVIOUS
<1>12. calendar'[a] = [m \in C |-> IF m \in months THEN total[m] ELSE g[m]]
  BY <1>2, <1>6, <1>11
<1>13. ASSUME NEW m \in C, m # Month(Created)
       PROVE  m \in DOMAIN g /\ (IF m \in months THEN total[m] ELSE g[m]) = g[m]
  <2>1. m \in Nat
    BY <1>2, <1>7, <1>11, <1>13
  <2>2. total[m] = DeltaSum(InMonth(rows, m))
    BY <1>2, <1>3, <1>13, <2>1
  <2>3. m \in DOMAIN g
    <3>1. CASE m \in DOMAIN g
      BY <3>1
    <3>2. CASE total[m] > 0
      BY <1>3, <1>6, <1>13, <2>1, <2>2, <3>2 DEF Chained
    <3> QED
      BY <1>11, <1>13, <3>1, <3>2
  <2>4. Counts(m)
    BY <1>13, <2>1, WholeLog
  <2>5. g[m] = DeltaSum(InMonth(rows, m))
    BY <1>3, <1>5, <1>6, <2>3, <2>4 DEF MonthRight
  <2> QED
    BY <2>2, <2>3, <2>5
<1> QED
  BY <1>4, <1>6, <1>10, <1>11, <1>12, <1>13

LEMMA RepairWhole ==
  ASSUME BooksInv, SealInv, AgreeInv, NEW a \in Account, repair_calendar_token_deltas(a),
         ~overlap[a], LogWhole, Chained(a)
  PROVE  logs'[a] = logs[a] /\ DOMAIN calendar[a] \subseteq DOMAIN calendar'[a]
<1>1. PICK months, booked, total : MadeAnew(a, months, booked, total)
  BY RepairSame
<1> QED
  BY <1>1 DEF MadeAnew

LEMMA RepairChain ==
  BooksInv /\ SealInv /\ AgreeInv /\ ChainInv =>
      \A a \in Account : repair_calendar_token_deltas(a) => ChainInv'
<1> SUFFICES ASSUME BooksInv, SealInv, AgreeInv, ChainInv, NEW a \in Account,
                    repair_calendar_token_deltas(a)
             PROVE  ChainInv'
  OBVIOUS
<1>1. /\ UNCHANGED today
      /\ overlap' = [overlap EXCEPT ![a] = @ \/ \E p \in Proc : a \in Under(p)]
      /\ sync' = [p \in Proc |-> [sync[p] EXCEPT !.alone = @ /\ a \notin Under(p)]]
  BY DEF repair_calendar_token_deltas
<1>2. \A b \in Account : overlap[b] => overlap'[b]
  <2> DEFINE met == \E p \in Proc : a \in Under(p)
  <2>1. overlap \in [Account -> BOOLEAN] /\ overlap' = [overlap EXCEPT ![a] = overlap[a] \/ met]
    BY <1>1 DEF SealInv, RowShape
  <2> HIDE DEF met
  <2> QED
    BY <2>1
<1>3. CommitsCalm
  <2>1. ASSUME NEW q \in Proc
        PROVE  Shape(sync[q]) /\ \E alone : sync'[q] = [sync[q] EXCEPT !.alone = alone]
    BY <1>1 DEF SealInv, SyncShape
  <2> QED
    BY <2>1, RemarkStand
<1>4. ASSUME NEW b \in Account, ~overlap'[b], LogWhole PROVE Chained(b)'
  <2>1. ~overlap[b] /\ Chained(b)
    BY <1>2, <1>4 DEF ChainInv
  <2>2. logs'[b] = logs[b] /\ DOMAIN calendar[b] \subseteq DOMAIN calendar'[b]
    <3>1. CASE b = a
      BY <1>4, <2>1, <3>1, RepairWhole
    <3>2. CASE b # a
      <4>1. \E x, y : logs' = [logs EXCEPT ![a] = x] /\ calendar' = [calendar EXCEPT ![a] = y]
        BY DEF repair_calendar_token_deltas
      <4> QED
        BY <3>2, <4>1
    <3> QED
      BY <3>1, <3>2
  <2>3. \A q \in Proc : Closing(q, b)' => Closing(q, b)
                /\ sync'[q].delta = sync[q].delta /\ sync'[q].new = sync[q].new
    BY <1>3 DEF CommitsCalm, Closing
  <2> QED
    BY <2>1, <2>2, <2>3 DEF Chained
<1> QED
  BY <1>1, <1>4 DEF ChainInv, LogWhole

LEMMA InitChain == Init => ChainInv
<1> SUFFICES ASSUME Init, NEW a \in Account PROVE Chained(a)
  BY DEF ChainInv
<1>1. logs[a] = {} /\ \A p \in Proc : ~Closing(p, a)
  BY DEF Init, Idle, Closing
<1>2. \A m : DeltaSum(InMonth(logs[a], m)) = 0
  BY <1>1, DeltaZero, FS_EmptySet DEF InMonth
<1> QED
  BY <1>1, <1>2 DEF Chained

LEMMA StepChain ==
  ASSUME BooksInv, SealInv, AgreeInv, ChainInv, [Next]_vars
  PROVE  ChainInv'
<1>1. CASE Books
  BY <1>1, SyncRecordChain, SyncCommitChain, RepairChain, CleanupChain DEF Books
<1>2. CASE ~Books
  BY <1>2, OthersStand, StandChain
<1> QED
  BY <1>1, <1>2

LEMMA AllStep ==
  SealInv /\ BooksInv /\ AgreeInv /\ [Next]_vars => SealInv' /\ BooksInv' /\ AgreeInv'
BY StepGood, StepBooks, StepAgree DEF AllGood, Good, SealInv, AllBalanced, BooksInv, AllAgree,
   AgreeInv

\* On an account whose syncs never overlapped, and whose log is whole, a repair
\* changes neither the log nor the daily rows nor a calendar row but that of the
\* first month (recompute_sync_log_deltas makes of the log what
\* _record_token_sync booked, sync by sync): for any accounts, processes and
\* disturbances, where the log is shorter than the months of the calendar and that
\* of the binding together (365 days; 12 months, the current one among them).
THEOREM RepairFindsNothing ==
  ASSUME Long
  PROVE  Spec => RepairChangesNothing
<1>1. Init => SealInv /\ BooksInv /\ AgreeInv /\ ChainInv
  BY InitSeal, InitBooks, InitAgree, InitChain
<1>2. SealInv /\ BooksInv /\ AgreeInv /\ ChainInv /\ [Next]_vars
        => SealInv' /\ BooksInv' /\ AgreeInv' /\ ChainInv'
  BY AllStep, StepChain
<1> DEFINE Nothing == \A a \in Account :
         repair_calendar_token_deltas(a) /\ Serial(a) /\ today <= LogDays
           => /\ logs'[a] = logs[a] /\ daily'[a] = daily[a]
              /\ \A m \in DOMAIN calendar'[a] \ {Month(Created)} :
                   m \in DOMAIN calendar[a] /\ calendar'[a][m] = calendar[a][m]
<1>3. SealInv /\ BooksInv /\ AgreeInv /\ ChainInv => Nothing
  <2> SUFFICES ASSUME SealInv, BooksInv, AgreeInv, ChainInv, NEW a \in Account,
                      repair_calendar_token_deltas(a), Serial(a), today <= LogDays
               PROVE  /\ logs'[a] = logs[a] /\ daily'[a] = daily[a]
                      /\ \A m \in DOMAIN calendar'[a] \ {Month(Created)} :
                           m \in DOMAIN calendar[a] /\ calendar'[a][m] = calendar[a][m]
    OBVIOUS
  <2>1. ~overlap[a] /\ LogWhole
    BY DEF Serial, LogWhole
  <2>2. Chained(a)
    BY <2>1 DEF ChainInv
  <2> QED
    BY <2>1, <2>2, RepairIdle
<1>4. RepairChangesNothing <=> [][Nothing]_vars
  BY DEF RepairChangesNothing
<1> HIDE DEF Nothing
<1> QED
  BY <1>1, <1>2, <1>3, <1>4, PTL DEF Spec

-----------------------------------------------------------------------------
\* What a sync misses the next one makes up for.

\* Every sync in the log was made in the cycle in which the account was bound.
OnlyFirst(a) == \A l \in logs[a] : l.cycle = FirstStart

Towards(p, a) == Holding(p, a) \/ Written(p, a)

\* In its first cycle the count of an account only grows, from the newest log
\* row to the account row, what a sync holds and what Cursor shows; and what has
\* been booked is its growth from the oldest log row to the newest.
Growing(a) ==
    remote[a].start = FirstStart =>
        /\ remote[a].shown = remote[a].used
        /\ Figure(usage[a]) <= remote[a].shown
        /\ OnlyFirst(a) => Logged(a) <= Figure(usage[a])
        /\ \A p \in Proc : Holding(p, a) =>
             sync[p].new.start = FirstStart /\ sync[p].new.total <= remote[a].shown

NotBehind(a) ==
    \A p \in Proc : Towards(p, a) /\ sync[p].new.start = FirstStart /\ OnlyFirst(a)
        => Logged(a) <= sync[p].new.total

Grown(a) ==
    /\ \A l \in logs[a] : l # None
    /\ logs[a] = {} => counted[a] = 0
    /\ logs[a] # {} => \E l \in logs[a] :
         /\ \A k \in logs[a] : l.at <= k.at
         /\ OnlyFirst(a) => counted[a] = Logged(a) - l.total

FirstCycle(a) == Growing(a) /\ NotBehind(a) /\ Grown(a)
FirstInv == \A a \in Account : ~overlap[a] /\ LogWhole => FirstCycle(a)

\* A step that leaves the figures of an account alone.
FirstCalm(a) ==
    \A q \in Proc :
        /\ Holding(q, a)' => Holding(q, a) /\ sync'[q].new = sync[q].new
        /\ Towards(q, a)' => Towards(q, a) /\ sync'[q].new = sync[q].new

FirstKept(a) ==
    /\ overlap[a] => overlap'[a]
    /\ logs'[a] = logs[a] /\ usage'[a] = usage[a] /\ counted'[a] = counted[a]
    /\ remote'[a] = remote[a]

-----------------------------------------------------------------------------
LEMMA StartsLater ==
  ASSUME NEW s \in Start
  PROVE  FirstStart \in Int /\ s \in Int /\ EndOf(s) # FirstStart
<1>1. PICK k \in 0..(MaxDay + 1) : s = FirstStart + k * CycleDays
  BY DEF Start
<1>2. /\ k \in Nat /\ CycleDays \in Nat /\ CycleDays > 0 /\ FirstStart \in Int
  BY LedgerAssumption, MetricsAssumption DEF FirstStart
<1>3. k * CycleDays \in Nat
  BY <1>2
<1> QED
  BY <1>1, <1>2, <1>3 DEF EndOf

LEMMA Further == \A x, y, z \in Int : x <= y /\ y <= z => x <= z
OBVIOUS

LEMMA CalmFirst == \A a : BooksCalm(a) => FirstCalm(a)
  BY DEF BooksCalm, FirstCalm, Towards

LEMMA KeptFirst == \A a : BooksKept(a) => FirstKept(a)
  BY DEF BooksKept, FirstKept

LEMMA FirstStays ==
  ASSUME NEW a, FirstCycle(a), FirstCalm(a), FirstKept(a)
  PROVE  FirstCycle(a)'
<1>1. (OnlyFirst(a)' <=> OnlyFirst(a)) /\ Logged(a)' = Logged(a)
  BY DEF FirstKept, OnlyFirst, Logged
<1>2. Growing(a)'
  BY <1>1 DEF FirstCycle, Growing, FirstCalm, FirstKept
<1>3. NotBehind(a)'
  BY <1>1 DEF FirstCycle, NotBehind, FirstCalm, FirstKept
<1>4. Grown(a)'
  BY <1>1 DEF FirstCycle, Grown, FirstKept
<1> QED
  BY <1>2, <1>3, <1>4 DEF FirstCycle

\* A step that is quiet for every account.
LEMMA QuietFirst ==
  ASSUME FirstInv, today \in Int, today' \in Int, today <= today',
         \A a \in Account : FirstCalm(a) /\ FirstKept(a)
  PROVE  FirstInv'
<1> SUFFICES ASSUME NEW a \in Account, ~overlap'[a], LogWhole' PROVE FirstCycle(a)'
  BY DEF FirstInv
<1>1. FirstCycle(a)
  BY WholeBefore DEF FirstInv, FirstKept
<1> QED
  BY <1>1, FirstStays

LEMMA TodayStays ==
  ASSUME BooksInv, today' = today
  PROVE  today \in Int /\ today' \in Int /\ today <= today'
<1>1. today \in Int
  BY TimeType DEF BooksInv
<1> QED
  BY <1>1

\* A process that leaves the figures of its account alone.
LEMMA LocalsFirst ==
  ASSUME SyncShape, NEW p \in Proc, NEW r, sync' = [sync EXCEPT ![p] = r],
         NEW a, r.acct = sync[p].acct, r.new = sync[p].new,
         r.pc \in {"seal", "update"} => sync[p].pc \in {"seal", "update"},
         r.pc \in Through => sync[p].pc \in {"seal", "update"} \cup Through
  PROVE  FirstCalm(a)
<1>1. \A q \in Proc : sync'[q] = IF q = p THEN r ELSE sync[q]
  BY DEF SyncShape
<1> QED
  BY <1>1 DEF FirstCalm, Towards, Holding, Written

LEMMA ProceedFirst ==
  ASSUME BooksInv, SealInv, NEW p \in Proc, sync[p].pc # "idle", Proceed(p),
         UNCHANGED <<stamp, today>>
  PROVE  \A a \in Account : FirstCalm(a)
BY ProceedBooks, CalmFirst, TimeType DEF BooksInv, BookShape, SealInv

\* Steps of a sync other than those that fetch, update the row and commit.
LEMMA StepFirst ==
  ASSUME BooksInv, SealInv, FirstInv, NEW p \in Proc,
         SyncFails(p) \/ SyncSeal(p) \/ SyncMonthly(p) \/ SyncRecord(p) \/ Cancel(p)
  PROVE  FirstInv'
<1>1. /\ UNCHANGED <<today, remote, usage, logs, counted>> /\ UNCHANGED overlap
      /\ sync[p].pc # "idle"
  BY DEF SyncFails, SyncSeal, SyncMonthly, SyncRecord, Cancel, tables, ghosts
<1>2. Shape(sync[p]) /\ SyncShape
  BY DEF SealInv, SyncShape
<1>3. \A a \in Account : FirstKept(a)
  BY <1>1 DEF FirstKept
<1>4. ASSUME NEW a \in Account PROVE FirstCalm(a)
  <2>1. CASE SyncFails(p)
    BY <1>1, <2>1, ProceedFirst DEF SyncFails
  <2>2. CASE SyncSeal(p)
    <3>1. PICK r : /\ r = [[sync[p] EXCEPT !.at = stamp + 1, !.day = today,
                                           !.copy[sync[p].acct] = None] EXCEPT !.pc = "update"]
                   /\ sync' = [sync EXCEPT ![p] = r]
      BY <2>2 DEF SyncSeal, Goto
    <3>2. r.pc = "update" /\ r.acct = sync[p].acct /\ r.new = sync[p].new /\ sync[p].pc = "seal"
      BY <1>2, <2>2, <3>1 DEF Shape, Locals, SyncSeal
    <3> QED
      BY <1>2, <3>1, <3>2, LocalsFirst DEF Through
  <2>3. CASE SyncMonthly(p)
    <3>1. CASE Proceed(p)
      BY <1>1, <2>3, <3>1, ProceedFirst DEF SyncMonthly
    <3>2. CASE Goto(p, sync[p], "record")
      <4>1. PICK r : r = [sync[p] EXCEPT !.pc = "record"] /\ sync' = [sync EXCEPT ![p] = r]
        BY <3>2 DEF Goto
      <4>2. /\ r.pc = "record" /\ r.acct = sync[p].acct /\ r.new = sync[p].new
            /\ sync[p].pc = "monthly"
        BY <1>2, <2>3, <4>1 DEF Shape, Locals, SyncMonthly
      <4> QED
        BY <1>2, <4>1, <4>2, LocalsFirst DEF Through
    <3> QED
      BY <2>3, <3>1, <3>2 DEF SyncMonthly
  <2>4. CASE SyncRecord(p)
    <3>1. PICK delta, base, month, fresh, r :
            /\ r = [[sync[p] EXCEPT !.delta = delta, !.base = base, !.month = month, !.fresh = fresh]
                       EXCEPT !.pc = "commit"]
            /\ sync' = [sync EXCEPT ![p] = r]
      BY <2>4 DEF SyncRecord, Goto
    <3>2. r.pc = "commit" /\ r.acct = sync[p].acct /\ r.new = sync[p].new /\ sync[p].pc = "record"
      BY <1>2, <2>4, <3>1 DEF Shape, Locals, SyncRecord
    <3> QED
      BY <1>2, <3>1, <3>2, LocalsFirst DEF Through
  <2>5. CASE Cancel(p)
    BY <1>2, <2>5, IdleSound, CalmStart, CalmFirst DEF Cancel
  <2> QED
    BY <2>1, <2>2, <2>3, <2>4, <2>5
<1> QED
  BY <1>1, <1>3, <1>4, TodayStays, QuietFirst

LEMMA StartFirst ==
  ASSUME BooksInv, SealInv, FirstInv, NEW p \in Proc, NEW S \in SUBSET Account, SyncStart(p, S)
  PROVE  FirstInv'
<1> DEFINE met == {a \in S : \E q \in Proc \ {p} : a \in Under(q)}
           copy == [b \in Account |-> IF b \in S THEN usage[b] ELSE None]
<1>1. PICK a \in S : sync' = [q \in Proc |->
                IF q = p THEN TakeUp(a, S, copy, met = {})
                ELSE [sync[q] EXCEPT !.alone = @ /\ Under(q) \cap S = {}]]
  BY DEF SyncStart
<1>2. /\ overlap' = [b \in Account |-> overlap[b] \/ b \in met]
      /\ UNCHANGED <<today, stamp, remote, usage, bound, logs, counted, spent>>
  BY DEF SyncStart, tables
<1>3. sync'[p].pc \in {"idle", "fetch"} /\ Sound(sync'[p])
  <2>1. sync'[p] = TakeUp(a, S, copy, met = {})
    BY <1>1
  <2>2. DOMAIN copy = Account /\ \A b \in Account : copy[b] # None => copy[b].total \in Nat
    BY DEF BooksInv, BookShape, FigureShape
  <2> HIDE DEF copy, met
  <2> QED
    BY <2>1, <2>2, TakeUpSound
<1>4. ASSUME NEW q \in Proc, q # p
      PROVE  Shape(sync[q]) /\ \E alone : sync'[q] = [sync[q] EXCEPT !.alone = alone]
  BY <1>1, <1>4 DEF SealInv, SyncShape
<1>5. \A b \in Account : FirstCalm(b)
  BY <1>2, <1>3, <1>4, RemarkBooks, CalmFirst DEF BooksInv, BookShape
<1>6. \A b \in Account : FirstKept(b)
  BY <1>2 DEF FirstKept
<1> QED
  BY <1>2, <1>5, <1>6, TodayStays, QuietFirst

LEMMA NextDayFirst == ASSUME BooksInv, FirstInv, NextDay PROVE FirstInv'
<1>1. today' = today + 1 /\ UNCHANGED sync /\ UNCHANGED <<remote, usage, logs, counted, overlap>>
  BY DEF NextDay, tables, ghosts
<1>2. today \in Int
  BY TimeType DEF BooksInv
<1>3. today' \in Int /\ today <= today'
  BY <1>1, <1>2
<1>4. \A a \in Account : FirstCalm(a) /\ FirstKept(a)
  BY <1>1, StandCalm, CalmFirst DEF FirstKept
<1> QED
  BY <1>2, <1>3, <1>4, QuietFirst

LEMMA StillFirst ==
  ASSUME BooksInv, FirstInv, UNCHANGED <<today, sync, remote, usage, logs, counted, overlap>>
  PROVE  FirstInv'
<1>1. \A a \in Account : FirstCalm(a) /\ FirstKept(a)
  BY StandCalm, CalmFirst DEF FirstKept
<1> QED
  BY <1>1, TodayStays, QuietFirst

\* Cursor counts a token, begins a cycle, or catches up with its own count.
LEMMA RemoteFirst ==
  ASSUME BooksInv, SealInv, FirstInv, NEW a \in Account, Spend(a) \/ NextCycle(a) \/ CatchUp(a)
  PROVE  FirstInv'
<1>1. /\ UNCHANGED sync /\ UNCHANGED <<today, usage, logs, counted, overlap>>
      /\ Known(remote[a]) /\ DOMAIN remote = Account
      /\ DOMAIN remote[a] = {"start", "used", "shown"}
  BY DEF Spend, NextCycle, CatchUp, tables, ghosts, BooksInv, BookShape, FigureShape, SealInv,
     RowShape, RemoteShape
<1>2. PICK r : /\ remote' = [remote EXCEPT ![a] = r]
               /\ r.start = FirstStart
                     => /\ remote[a].start = FirstStart
                        /\ remote[a].shown = remote[a].used
                             => r.shown = r.used /\ remote[a].shown <= r.shown
  <2>1. CASE Spend(a)
    <3>1. PICK r : /\ r = [remote[a] EXCEPT !.used = @ + 1,
                             !.shown = IF @ = remote[a].used THEN @ + 1 ELSE @]
                   /\ remote' = [remote EXCEPT ![a] = r]
      BY <2>1 DEF Spend
    <3>2. /\ r.start = remote[a].start /\ r.used = remote[a].used + 1
          /\ r.shown = IF remote[a].shown = remote[a].used THEN remote[a].shown + 1
                       ELSE remote[a].shown
      BY <1>1, <3>1
    <3>3. remote[a].shown \in Nat /\ remote[a].used \in Nat
      BY <1>1 DEF Known
    <3>4. remote[a].shown = remote[a].used => r.shown = r.used /\ remote[a].shown <= r.shown
      BY <3>2, <3>3
    <3> QED
      BY <3>1, <3>2, <3>4
  <2>2. CASE NextCycle(a)
    <3>1. PICK r : r.start = EndOf(remote[a].start) /\ remote' = [remote EXCEPT ![a] = r]
      BY <2>2 DEF NextCycle
    <3>2. EndOf(remote[a].start) # FirstStart
      BY <1>1, StartsLater DEF Known
    <3> QED
      BY <3>1, <3>2
  <2>3. CASE CatchUp(a)
    <3>1. PICK r : r = [remote[a] EXCEPT !.shown = remote[a].used] /\ remote' = [remote EXCEPT ![a] = r]
      <4>1. remote' = [remote EXCEPT ![a] = [remote[a] EXCEPT !.shown = remote[a].used]]
        BY <1>1, <2>3 DEF CatchUp
      <4> QED
        BY <4>1
    <3>2. r.start = remote[a].start /\ remote[a].shown # remote[a].used
      BY <1>1, <2>3, <3>1 DEF CatchUp
    <3> QED
      BY <3>1, <3>2
  <2> QED
    BY <2>1, <2>2, <2>3
<1>3. \A b \in Account : remote'[b] = IF b = a THEN r ELSE remote[b]
  BY <1>1, <1>2
<1>4. \A b \in Account : FirstCalm(b)
  BY <1>1, StandCalm, CalmFirst
<1> SUFFICES ASSUME NEW b \in Account, ~overlap[b], LogWhole PROVE FirstCycle(b)'
  BY <1>1 DEF FirstInv, LogWhole
<1>5. FirstCycle(b)
  BY DEF FirstInv
<1>6. CASE b # a
  BY <1>1, <1>3, <1>4, <1>5, <1>6, FirstStays DEF FirstKept
<1>7. CASE b = a
  <2>1. (OnlyFirst(a)' <=> OnlyFirst(a)) /\ Logged(a)' = Logged(a)
    BY <1>1 DEF OnlyFirst, Logged
  <2>2. NotBehind(a)' /\ Grown(a)'
    BY <1>1, <1>5, <1>7, <2>1 DEF FirstCycle, NotBehind, Grown, Towards, Holding, Written
  <2>3. Growing(a)'
    <3> SUFFICES ASSUME r.start = FirstStart
                 PROVE  /\ r.shown = r.used
                        /\ Figure(usage[a]) <= r.shown
                        /\ OnlyFirst(a) => Logged(a) <= Figure(usage[a])
                        /\ \A p \in Proc : Holding(p, a) =>
                             sync[p].new.start = FirstStart /\ sync[p].new.total <= r.shown
      BY <1>1, <1>3, <2>1 DEF Growing, Holding
    <3>a. r.start = FirstStart
      OBVIOUS
    <3>1. remote[a].start = FirstStart /\ r.shown = r.used /\ remote[a].shown <= r.shown
          /\ remote[a].shown = remote[a].used
      <4>1. remote[a].start = FirstStart
        BY <1>2, <3>a
      <4>2. remote[a].shown = remote[a].used
        BY <1>5, <1>7, <4>1 DEF FirstCycle, Growing
      <4> QED
        BY <1>2, <3>a, <4>1, <4>2
    <3>2. /\ Figure(usage[a]) <= remote[a].shown
          /\ OnlyFirst(a) => Logged(a) <= Figure(usage[a])
          /\ \A p \in Proc : Holding(p, a) =>
               sync[p].new.start = FirstStart /\ sync[p].new.total <= remote[a].shown
      BY <1>5, <1>7, <3>1 DEF FirstCycle, Growing
    <3>3. r.shown \in Int /\ remote[a].shown \in Int /\ Figure(usage[a]) \in Int
          /\ \A p \in Proc : Holding(p, a) => sync[p].new.total \in Int
      <4>1. FigureShape'
        BY SpendBooks, NextCycleBooks, CatchUpBooks DEF AllBalanced, BookShape
      <4>2. Known(remote'[a]) /\ remote'[a] = r
        BY <1>3, <4>1 DEF FigureShape
      <4>3. r.shown \in Nat
        BY <4>2 DEF Known
      <4>4. \A p \in Proc : Holding(p, a) => sync[p].new.total \in Nat
        BY DEF BooksInv, BookShape, SyncSound, Sound, Read, Holding
      <4> QED
        BY <1>1, <4>3, <4>4, FigureType DEF BooksInv, Known
    <3>4. Figure(usage[a]) <= r.shown
      BY <3>1, <3>2, <3>3, Further
    <3>5. ASSUME NEW p \in Proc, Holding(p, a)
          PROVE  sync[p].new.start = FirstStart /\ sync[p].new.total <= r.shown
      <4>1. PICK n, x \in Int : n = sync[p].new.total /\ x = remote[a].shown
        BY <3>3, <3>5
      <4>2. PICK y \in Int : y = r.shown
        BY <3>3
      <4>3. n <= x /\ x <= y
        BY <3>1, <3>2, <3>5, <4>1, <4>2
      <4> QED
        BY <3>2, <3>5, <4>1, <4>2, <4>3, Further
    <3> QED
      BY <3>1, <3>2, <3>4, <3>5
  <2> QED
    BY <1>7, <2>2, <2>3 DEF FirstCycle
<1> QED
  BY <1>6, <1>7
\* A step of process p on its own account leaves the other accounts alone.
LEMMA OwnFirst ==
  ASSUME BooksInv, SealInv, FirstInv, NEW p \in Proc, NEW r, sync' = [sync EXCEPT ![p] = r],
         NEW a \in Account, r.acct = a, UNCHANGED today, UNCHANGED overlap,
         \A b \in Account : b # a => FirstKept(b),
         ~overlap[a] /\ LogWhole => FirstCycle(a)'
  PROVE  FirstInv'
<1> SUFFICES ASSUME NEW b \in Account, ~overlap[b], LogWhole PROVE FirstCycle(b)'
  BY DEF FirstInv, LogWhole
<1>1. CASE b = a
  BY <1>1
<1>2. CASE b # a
  <2>1. FirstCalm(b)
    BY <1>2, CalmLocals, CalmFirst DEF SealInv
  <2>2. FirstCycle(b)
    BY DEF FirstInv
  <2> QED
    BY <1>2, <2>1, <2>2, FirstStays
<1> QED
  BY <1>1, <1>2

LEMMA SyncFetchFirst ==
  ASSUME BooksInv, SealInv, FirstInv, NEW p \in Proc, SyncFetch(p)
  PROVE  FirstInv'
<1>1. /\ sync[p].pc = "fetch"
      /\ UNCHANGED <<today, remote, usage, logs, counted>> /\ UNCHANGED overlap
  BY DEF SyncFetch, tables, ghosts
<1>2. Shape(sync[p]) /\ Sound(sync[p])
  BY <1>1, OwnAccount
<1>3. PICK a \in Account : sync[p].acct = a /\ Known(remote[a]) /\ remote[a].start \in Int
  BY <1>1, OwnAccount
<1>4. PICK old : old = IF sync[p].copy[a] = None THEN 0 ELSE sync[p].copy[a].total
  OBVIOUS
<1>b. PICK total \in {remote[a].shown, old} :
        sync' = [sync EXCEPT ![p] =
            [[sync[p] EXCEPT !.new = [start |-> remote[a].start, total |-> total,
                                      pct |-> Percent(remote[a].used)]] EXCEPT !.pc = "seal"]]
  BY <1>3, <1>4 DEF SyncFetch, Goto
<1>5. PICK new, r :
        /\ new = [start |-> remote[a].start, total |-> total, pct |-> Percent(remote[a].used)]
        /\ r = [[sync[p] EXCEPT !.new = new] EXCEPT !.pc = "seal"]
        /\ sync' = [sync EXCEPT ![p] = r]
  BY <1>b
<1>6. /\ r.pc = "seal" /\ r.acct = a /\ r.todo = sync[p].todo /\ r.new = new
      /\ DOMAIN r = Locals /\ r = [f \in Locals |-> r[f]] /\ r.copy = sync[p].copy
      /\ new.start = remote[a].start /\ new.total = total
  BY <1>2, <1>3, <1>5 DEF Shape, Locals
<1>7. new # None /\ new.start \in Int
  <2>1. Percent(remote[a].used) \in Int /\ total \in Int
    BY <1>2, <1>3, <1>4, <1>5, PercentType DEF Known, Sound
  <2> QED
    BY <1>3, <1>5, <2>1, NoneAssumption
<1>8. Shape(r)
  BY <1>1, <1>2, <1>3, <1>6, <1>7 DEF Shape
<1>a. sync' = [sync EXCEPT ![p] = r] /\ r.acct = sync[p].acct /\ r.todo = sync[p].todo
      /\ a = sync[p].acct /\ r.acct = a
  BY <1>3, <1>5, <1>6
<1>9. ASSUME ~overlap[a], LogWhole PROVE FirstCycle(a)'
  <2>1. FirstCycle(a) /\ sync'[p] = r /\ Fresh(a)
        /\ \A q \in Proc : Holding(q, a)' \/ Stamped(q, a)' \/ Written(q, a)' \/ Closing(q, a)'
                               => q = p
    <3>1. sync[p].pc # "idle"
      BY <1>1
    <3>2. FirstCycle(a)
      BY <1>9 DEF FirstInv
    <3> QED
      BY <1>8, <1>9, <1>a, <3>1, <3>2, OwnAlone
  <2>2. \A q \in Proc : Towards(q, a)' \/ Holding(q, a)' => q = p /\ sync'[q].new = new
    BY <1>6, <2>1 DEF Towards
  <2>3. old = Figure(usage[a])
    BY <1>1, <1>3, <1>4, <2>1 DEF Fresh, Early, Figure
  <2>4. (OnlyFirst(a)' <=> OnlyFirst(a)) /\ Logged(a)' = Logged(a)
    BY <1>1 DEF OnlyFirst, Logged
  <2>5. PICK u, x \in Int : u = Figure(usage[a]) /\ x = remote[a].shown
    BY <1>3, FigureType DEF Known, BooksInv
  <2>6. PICK w \in Int : w = Logged(a)
    BY <1>9, LastRow DEF BooksInv, Balanced
  <2>7. total = x \/ total = u
    BY <1>5, <2>3, <2>5
  <2>8. remote[a].start = FirstStart
           => u <= x /\ (OnlyFirst(a) => w <= u)
    BY <2>1, <2>5, <2>6 DEF FirstCycle, Growing
  <2>9. remote[a].start = FirstStart
           => total <= x /\ (OnlyFirst(a) => w <= total)
    BY <2>5, <2>6, <2>7, <2>8
  <2>10. Growing(a)'
    BY <1>1, <1>6, <2>1, <2>2, <2>4, <2>5, <2>9 DEF FirstCycle, Growing
  <2>11. NotBehind(a)'
    BY <1>6, <2>2, <2>4, <2>6, <2>9 DEF NotBehind
  <2>12. Grown(a)'
    BY <1>1, <2>1, <2>4 DEF FirstCycle, Grown
  <2> QED
    BY <2>10, <2>11, <2>12 DEF FirstCycle
<1>10. \A b \in Account : b # a => FirstKept(b)
  BY <1>1 DEF FirstKept
<1> QED
  BY <1>1, <1>9, <1>10, <1>a, OwnFirst

LEMMA SyncUpdateFirst ==
  ASSUME BooksInv, SealInv, FirstInv, NEW p \in Proc, SyncUpdate(p)
  PROVE  FirstInv'
<1>1. /\ sync[p].pc = "update" /\ UNCHANGED stamp
      /\ UNCHANGED <<today, remote, logs, counted>> /\ UNCHANGED overlap
  BY DEF SyncUpdate, tables, ghosts
<1>2. CASE Proceed(p) /\ UNCHANGED usage
  <2>1. \A b \in Account : FirstKept(b) /\ FirstCalm(b)
    BY <1>1, <1>2, ProceedFirst DEF FirstKept
  <2> QED
    BY <1>1, <2>1, TodayStays, QuietFirst
<1>3. CASE usage' = [usage EXCEPT ![sync[p].acct] = sync[p].new] /\ Goto(p, sync[p], "monthly")
  <2>1. Shape(sync[p]) /\ Sound(sync[p])
    BY <1>1, OwnAccount
  <2>2. PICK a \in Account : sync[p].acct = a
    BY <1>1, OwnAccount
  <2>3. PICK new, r : new = sync[p].new /\ r = [sync[p] EXCEPT !.pc = "monthly"]
                      /\ sync' = [sync EXCEPT ![p] = r]
    BY <1>3 DEF Goto
  <2>4. /\ r.pc = "monthly" /\ r.acct = a /\ r.todo = sync[p].todo /\ r.new = new
        /\ DOMAIN r = Locals /\ r = [f \in Locals |-> r[f]] /\ r.copy = sync[p].copy
    BY <2>1, <2>2, <2>3 DEF Shape, Locals
  <2>5. new # None /\ new.total \in Nat
    BY <1>1, <2>1, <2>3 DEF Sound, Read
  <2>6. Shape(r)
    BY <1>1, <2>1, <2>2, <2>4, <2>5 DEF Shape
  <2>7. \A b \in Account : usage'[b] = IF b = a THEN new ELSE usage[b]
    BY <1>3, <2>2, <2>3 DEF SealInv, RowShape
  <2>a. sync' = [sync EXCEPT ![p] = r] /\ r.acct = sync[p].acct /\ r.todo = sync[p].todo
        /\ a = sync[p].acct /\ r.acct = a
    BY <2>2, <2>3, <2>4
  <2>8. ASSUME ~overlap[a], LogWhole PROVE FirstCycle(a)'
    <3>1. FirstCycle(a) /\ sync'[p] = r
          /\ \A q \in Proc : Holding(q, a)' \/ Stamped(q, a)' \/ Written(q, a)' \/ Closing(q, a)'
                                 => q = p
      <4>1. sync[p].pc # "idle"
        BY <1>1
      <4>2. FirstCycle(a)
        BY <2>8 DEF FirstInv
      <4> QED
        BY <2>6, <2>8, <2>a, <4>1, <4>2, OwnAlone
    <3>2. Holding(p, a) /\ Towards(p, a)
      BY <1>1, <2>2 DEF Holding, Towards
    <3>3. \A q \in Proc : ~Holding(q, a)' /\ (Towards(q, a)' => q = p /\ sync'[q].new = new)
      BY <2>4, <3>1 DEF Holding, Towards
    <3>4. (OnlyFirst(a)' <=> OnlyFirst(a)) /\ Logged(a)' = Logged(a)
      BY <1>1 DEF OnlyFirst, Logged
    <3>5. Figure(usage'[a]) = new.total
      BY <2>5, <2>7 DEF Figure
    <3>6. /\ remote[a].start = FirstStart => new.start = FirstStart /\ new.total <= remote[a].shown
          /\ new.start = FirstStart /\ OnlyFirst(a) => Logged(a) <= new.total
      BY <2>3, <3>1, <3>2 DEF FirstCycle, Growing, NotBehind
    <3>7. Growing(a)'
      BY <1>1, <3>1, <3>3, <3>4, <3>5, <3>6 DEF FirstCycle, Growing
    <3>8. NotBehind(a)'
      BY <3>3, <3>4, <3>6 DEF NotBehind
    <3>9. Grown(a)'
      BY <1>1, <3>1, <3>4 DEF FirstCycle, Grown
    <3> QED
      BY <3>7, <3>8, <3>9 DEF FirstCycle
  <2>9. \A b \in Account : b # a => FirstKept(b)
    BY <1>1, <2>7 DEF FirstKept
  <2> QED
    BY <1>1, <2>8, <2>9, <2>a, OwnFirst
<1> QED
  BY <1>2, <1>3 DEF SyncUpdate
\* What the next row adds to an account that is in its first cycle still.
LEMMA FirstDelta ==
  ASSUME NEW last, last # None, last.total \in Int, NEW total \in Int,
         last.cycle = FirstStart, last.total <= total
  PROVE  compute_sync_delta(last, FirstStart, total) = total - last.total
<1>1. ~(total < last.total)
  OBVIOUS
<1> QED
  BY <1>1 DEF compute_sync_delta

LEMMA SyncCommitFirst ==
  ASSUME BooksInv, SealInv, AgreeInv, ChainInv, FirstInv, NEW p \in Proc, SyncCommit(p)
  PROVE  FirstInv'
<1>1. /\ UNCHANGED <<today, remote, usage>> /\ UNCHANGED overlap /\ Proceed(p)
      /\ UNCHANGED stamp /\ sync[p].pc # "idle"
  BY DEF SyncCommit
<1>2. \A b \in Account : FirstCalm(b)
  BY <1>1, ProceedFirst
<1>3. CASE UNCHANGED <<logs, daily, calendar, counted>>
  <2>1. \A b \in Account : FirstKept(b)
    BY <1>1, <1>3 DEF FirstKept
  <2> QED
    BY <1>1, <1>2, <2>1, TodayStays, QuietFirst
<1>4. CASE ~(UNCHANGED <<logs, daily, calendar, counted>>)
  <2>1. PICK a \in Account, delta \in Nat : \E r, own :
           /\ r = sync[p] /\ r.pc = "commit" /\ r.acct = a /\ r.delta = delta
           /\ r.day \in Nat /\ r.day \in Day /\ r.at \in Int /\ Sound(r) /\ Shape(r)
           /\ own = Entry(r, delta)
           /\ logs' = [logs EXCEPT ![a] = logs[a] \cup {own}]
           /\ counted' = [counted EXCEPT ![a] = counted[a] + delta]
           /\ daily' = IF delta = 0 THEN daily
                       ELSE [daily EXCEPT ![a] = Put(daily[a], r.day, Booked(r, delta))]
           /\ calendar' = IF r.month = 0 THEN calendar
                          ELSE [calendar EXCEPT ![a] = Put(calendar[a], Month(r.day), r.month)]
    BY <1>4, CommitWrites DEF AgreeInv
  <2>2. PICK r, own :
           /\ r = sync[p] /\ r.pc = "commit" /\ r.acct = a /\ r.delta = delta
           /\ r.day \in Nat /\ r.at \in Int /\ Sound(r) /\ Shape(r)
           /\ own = Entry(r, delta)
           /\ logs' = [logs EXCEPT ![a] = logs[a] \cup {own}]
           /\ counted' = [counted EXCEPT ![a] = counted[a] + delta]
    BY <2>1
  <2>3. /\ own.at = r.at /\ own.cycle = r.new.start /\ own.total = r.new.total
        /\ own.at \in Int /\ own.total \in Int /\ r.new # None
    BY <2>2 DEF Entry, Sound, Read
  <2>4. /\ \A b \in Account : b # a => logs'[b] = logs[b] /\ counted'[b] = counted[b]
        /\ logs'[a] = logs[a] \cup {own} /\ counted'[a] = counted[a] + delta
    BY <2>2 DEF BooksInv, BookShape, LogShape, FigureShape
  <2>5. ASSUME NEW b \in Account, b # a, ~overlap[b], LogWhole PROVE FirstCycle(b)'
    <3>1. FirstCycle(b) /\ FirstKept(b)
      BY <1>1, <2>4, <2>5 DEF FirstInv, FirstKept
    <3> QED
      BY <1>2, <3>1, FirstStays
  <2>6. ASSUME ~overlap[a], LogWhole PROVE FirstCycle(a)'
    <3>1. FirstCycle(a) /\ Chained(a) /\ Apart(a) /\ LogOrder(a) /\ Figures(a)
      BY <2>6 DEF FirstInv, ChainInv, SealInv, InOrder, BooksInv, Balanced
    <3>2. Written(p, a) /\ Stamped(p, a) /\ Closing(p, a) /\ Towards(p, a)
      BY <2>2 DEF Written, Stamped, Closing, Towards, Timed, Through
    <3>0. own # None
      <4>1. r.new.start \in Int
        <5>1. usage[a] = r.new
          BY <2>2, <3>1, <3>2 DEF Figures
        <5> QED
          BY <2>3, <5>1 DEF SealInv, RowShape
      <4>2. own \in [at : Int, day : Int, cycle : Int, total : Int, delta : Int]
        BY <2>2, <2>3, <4>1 DEF Entry
      <4> QED
        BY <4>2, NoneAssumption
    <3>3. LogOrder(a)'
      <4>1. ~overlap'[a]
        BY <1>1, <2>6
      <4> QED
        BY <4>1, SyncCommitBooks DEF AllBalanced, Balanced
    <3>4. \A l \in logs[a] : l.at < own.at /\ l.at \in Int
      BY <2>2, <2>3, <3>1, <3>2 DEF LogOrder, BooksInv, BookShape, LogShape, Row
    <3>5. Logged(a)' = own.total
      <4>1. PICK rows : rows = logs[a] /\ logs'[a] = rows \cup {own}
        BY <2>4
      <4>2. \A k \in rows \cup {own} : k.at <= own.at /\ k.at \in Int
        BY <2>3, <3>4, <4>1
      <4>3. \A k, j \in rows \cup {own} : k.at = j.at => k = j
        BY <3>3, <4>1 DEF LogOrder
      <4>4. Newest(rows \cup {own}) = own
        BY <4>2, <4>3, NewestRow
      <4> QED
        BY <4>1, <4>4 DEF Logged
    <3>6. usage'[a] = r.new /\ Figure(usage'[a]) = own.total
      BY <1>1, <2>2, <2>3, <3>1, <3>2 DEF Figures, Figure
    <3>7. \A q \in Proc : ~Towards(q, a)' /\ ~Holding(q, a)'
      <4>1. \A q \in Proc : q # p => sync[q].pc = "idle" \/ sync[q].acct # a
        BY <2>2, <3>1 DEF Apart, Under
      <4>2. sync'[p].pc \in {"idle", "fetch"}
        BY <1>1, TimeType, ProceedBooks DEF BooksInv, BookShape, SealInv
      <4>3. ASSUME NEW q \in Proc, Towards(q, a)' PROVE FALSE
        <5>1. Towards(q, a)
          BY <1>2, <4>3 DEF FirstCalm
        <5>2. q = p
          BY <4>1, <5>1 DEF Towards, Holding, Written, Through
        <5> QED
          BY <4>2, <4>3, <5>2 DEF Towards, Holding, Written, Through
      <4> QED
        BY <4>3 DEF Towards
    <3>8. OnlyFirst(a)' => OnlyFirst(a) /\ own.cycle = FirstStart
      BY <2>4 DEF OnlyFirst
    <3>9. Growing(a)'
      <4>1. own.total <= own.total
        BY <2>3
      <4>2. remote[a].start = FirstStart => /\ remote[a].shown = remote[a].used
                                            /\ Figure(usage[a]) <= remote[a].shown
        BY <3>1 DEF FirstCycle, Growing
      <4> QED
        BY <1>1, <3>5, <3>6, <3>7, <4>1, <4>2 DEF Growing
    <3>10. NotBehind(a)'
      BY <3>7 DEF NotBehind
    <3>11. delta = compute_sync_delta(Newest(logs[a]), own.cycle, own.total)
      BY <2>2, <2>3, <3>1, <3>2 DEF Chained
    <3>12. CASE logs[a] = {}
      <4>1. counted'[a] = own.total - own.total /\ delta = 0
        <5>1. delta = 0 /\ counted[a] = 0
          BY <3>1, <3>11, <3>12 DEF FirstCycle, Grown, Newest, compute_sync_delta
        <5> QED
          BY <2>3, <2>4, <5>1
      <4>2. logs'[a] = {own} /\ own.at <= own.at
        BY <2>3, <2>4, <3>12
      <4> QED
        BY <3>0, <3>5, <3>9, <3>10, <4>1, <4>2 DEF FirstCycle, Grown
    <3>13. CASE logs[a] # {}
      <4>1. PICK l \in logs[a] : /\ \A k \in logs[a] : l.at <= k.at
                                 /\ OnlyFirst(a) => counted[a] = Logged(a) - l.total
        BY <3>1, <3>13 DEF FirstCycle, Grown
      <4>2. PICK last \in logs[a] : last = Newest(logs[a]) /\ Logged(a) = last.total
        BY <3>1, <3>13, LastRow DEF BooksInv
      <4>3. last # None /\ last.total \in Int /\ l.total \in Int
        BY <3>1 DEF FirstCycle, Grown, BooksInv, BookShape, LogShape, Row
      <4>4. OnlyFirst(a)' => counted'[a] = own.total - l.total
        <5> SUFFICES ASSUME OnlyFirst(a)' PROVE counted'[a] = own.total - l.total
          OBVIOUS
        <5>1. last.cycle = FirstStart /\ own.cycle = FirstStart /\ counted[a] = last.total - l.total
          BY <3>8, <4>1, <4>2 DEF OnlyFirst
        <5>2. last.total <= own.total
          BY <2>2, <2>3, <3>1, <3>2, <3>8, <4>2, <5>1 DEF FirstCycle, NotBehind
        <5>3. delta = own.total - last.total
          BY <2>3, <3>11, <4>2, <4>3, <5>1, <5>2, FirstDelta
        <5>4. PICK x, y, z \in Int : x = own.total /\ y = last.total /\ z = l.total
          BY <2>3, <4>3
        <5> QED
          BY <2>4, <5>1, <5>3, <5>4
      <4>5. l \in logs'[a] /\ \A k \in logs'[a] : l.at <= k.at
        BY <2>3, <2>4, <3>4, <4>1
      <4>6. \A k \in logs'[a] : k # None
        BY <2>4, <3>0, <3>1 DEF FirstCycle, Grown
      <4>7. Grown(a)'
        BY <3>5, <4>4, <4>5, <4>6 DEF Grown
      <4> QED
        BY <3>9, <3>10, <4>7 DEF FirstCycle
    <3> QED
      BY <3>12, <3>13
  <2> QED
    BY <1>1, <2>5, <2>6 DEF FirstInv, LogWhole
<1> QED
  BY <1>3, <1>4

\* As long as the log is whole a clean-up or a repair leaves it as it is.
LEMMA CleanupFirst ==
  ASSUME BooksInv, FirstInv, cleanup_cursor_usage_history
  PROVE  FirstInv'
<1>1. /\ UNCHANGED <<today, remote, usage, counted>> /\ UNCHANGED overlap /\ UNCHANGED sync
      /\ logs' = [a \in Account |-> {l \in logs[a] : l.day >= today - LogDays}]
  BY DEF cleanup_cursor_usage_history, ghosts
<1> SUFFICES ASSUME NEW a \in Account, ~overlap[a], LogWhole PROVE FirstCycle(a)'
  BY <1>1 DEF FirstInv, LogWhole
<1>2. logs'[a] = logs[a]
  <2>1. \A l \in logs[a] : Whole(l.day)
    BY WholeLog DEF BooksInv, BookShape, LogShape, Row
  <2> QED
    BY <1>1, <2>1 DEF Whole
<1>3. FirstCycle(a) /\ FirstKept(a) /\ FirstCalm(a)
  BY <1>1, <1>2, StandCalm, CalmFirst DEF FirstInv, FirstKept
<1> QED
  BY <1>3, FirstStays

LEMMA RepairFirst ==
  ASSUME BooksInv, SealInv, AgreeInv, ChainInv, FirstInv, NEW a \in Account,
         repair_calendar_token_deltas(a)
  PROVE  FirstInv'
<1>1. /\ UNCHANGED <<today, stamp, remote, usage, counted>>
      /\ overlap' = [overlap EXCEPT ![a] = @ \/ \E p \in Proc : a \in Under(p)]
      /\ sync' = [p \in Proc |-> [sync[p] EXCEPT !.alone = @ /\ a \notin Under(p)]]
  BY DEF repair_calendar_token_deltas
<1>2. \A b \in Account : overlap[b] => overlap'[b]
  <2> DEFINE met == \E p \in Proc : a \in Under(p)
  <2>1. overlap \in [Account -> BOOLEAN] /\ overlap' = [overlap EXCEPT ![a] = overlap[a] \/ met]
    BY <1>1 DEF SealInv, RowShape
  <2> HIDE DEF met
  <2> QED
    BY <2>1
<1>3. \A b \in Account : FirstCalm(b)
  <2>1. ASSUME NEW q \in Proc
        PROVE  Shape(sync[q]) /\ \E alone : sync'[q] = [sync[q] EXCEPT !.alone = alone]
    BY <1>1 DEF SealInv, SyncShape
  <2>2. UNCHANGED <<stamp, today>>
    BY <1>1
  <2> QED
    BY <2>1, <2>2, RemarkBooks, CalmFirst DEF BooksInv, BookShape
<1> SUFFICES ASSUME NEW b \in Account, ~overlap'[b], LogWhole PROVE FirstCycle(b)'
  BY <1>1 DEF FirstInv, LogWhole
<1>4. ~overlap[b] /\ FirstCycle(b)
  BY <1>2 DEF FirstInv
<1>5. logs'[b] = logs[b]
  <2>1. CASE b = a
    BY <1>4, <2>1, RepairWhole DEF ChainInv
  <2>2. CASE b # a
    <3>1. \E x : logs' = [logs EXCEPT ![a] = x]
      BY DEF repair_calendar_token_deltas
    <3> QED
      BY <2>2, <3>1
  <2> QED
    BY <2>1, <2>2
<1>6. FirstKept(b)
  BY <1>1, <1>2, <1>5 DEF FirstKept
<1> QED
  BY <1>3, <1>4, <1>6, FirstStays

LEMMA InitFirst == Init => FirstInv
<1> SUFFICES ASSUME Init, NEW a \in Account PROVE FirstCycle(a)
  BY DEF FirstInv
<1>1. /\ logs[a] = {} /\ usage[a] = None /\ counted[a] = 0
      /\ remote[a].shown = Before /\ remote[a].used = Before
      /\ \A p \in Proc : ~Holding(p, a) /\ ~Towards(p, a)
  BY DEF Init, Idle, Holding, Towards, Written, Through
<1>2. Logged(a) = 0 /\ Figure(usage[a]) = 0
  BY <1>1 DEF Logged, Figure
<1>3. Growing(a)
  BY <1>1, <1>2 DEF Growing, Before
<1>4. NotBehind(a) /\ Grown(a)
  BY <1>1 DEF NotBehind, Grown
<1> QED
  BY <1>3, <1>4 DEF FirstCycle

LEMMA NextFirst ==
  ASSUME BooksInv, SealInv, AgreeInv, ChainInv, FirstInv, [Next]_vars
  PROVE  FirstInv'
<1>1. CASE World
  BY <1>1, NextDayFirst, RemoteFirst DEF World
<1>2. ASSUME NEW p \in Proc, Step(p) PROVE FirstInv'
  BY <1>2, SyncFetchFirst, SyncUpdateFirst, SyncCommitFirst, StepFirst DEF Step
<1>3. bound \in SUBSET Account
  BY DEF BooksInv, BookShape, TimeShape
<1>4. ASSUME NEW p \in Proc, sync_all_accounts(p) PROVE FirstInv'
  BY <1>3, <1>4, StartFirst DEF sync_all_accounts
<1>5. ASSUME NEW p \in Proc, NEW a \in Account, sync_my_account(p, a) PROVE FirstInv'
  BY <1>5, StartFirst DEF sync_my_account
<1>6. ASSUME NEW a \in Account, repair_calendar_token_deltas(a) PROVE FirstInv'
  BY <1>6, RepairFirst
<1>7. ASSUME NEW a \in Account, unbind(a) PROVE FirstInv'
  <2>1. UNCHANGED <<today, sync, remote, usage, logs, counted, overlap>>
    BY <1>7 DEF unbind, tables, ghosts
  <2> QED
    BY <2>1, StillFirst
<1>8. CASE cleanup_cursor_usage_history
  BY <1>8, CleanupFirst
<1>9. CASE UNCHANGED vars
  <2>1. UNCHANGED <<today, sync, remote, usage, logs, counted, overlap>>
    BY <1>9 DEF vars, tables, ghosts
  <2> QED
    BY <2>1, StillFirst
<1> QED
  BY <1>1, <1>2, <1>4, <1>5, <1>6, <1>7, <1>8, <1>9 DEF Next

LEMMA FirstCatchesUp == BooksInv /\ FirstInv => CatchesUp
<1> SUFFICES ASSUME BooksInv, FirstInv, NEW a \in Account, Serial(a), logs[a] # {},
                    {l \in logs[a] : l.cycle = FirstStart} = logs[a], today <= LogDays
             PROVE  counted[a] = Newest(logs[a]).total
                       - (CHOOSE l \in logs[a] : \A k \in logs[a] : l.at <= k.at).total
  BY DEF CatchesUp
<1>1. Grown(a) /\ LogOrder(a)
  BY DEF FirstInv, FirstCycle, Serial, LogWhole, BooksInv, Balanced
<1>2. OnlyFirst(a) /\ Logged(a) = Newest(logs[a]).total
  BY DEF OnlyFirst, Logged
<1>3. PICK l \in logs[a] : /\ \A k \in logs[a] : l.at <= k.at
                           /\ counted[a] = Newest(logs[a]).total - l.total
  BY <1>1, <1>2 DEF Grown
<1>4. PICK m \in logs[a] : /\ m = CHOOSE k \in logs[a] : \A j \in logs[a] : k.at <= j.at
                           /\ \A k \in logs[a] : m.at <= k.at
  BY <1>3
<1>5. m = l
  <2>1. \A k \in logs[a] : k.at \in Int
    BY DEF BooksInv, BookShape, LogShape, Row
  <2>2. m.at = l.at
    BY <1>3, <1>4, <2>1
  <2> QED
    BY <1>1, <2>2 DEF LogOrder
<1> QED
  BY <1>3, <1>4, <1>5

\* A sync that was cut short, failed or got no answer is made up for by the next:
\* as long as all of an account's syncs fall in the cycle it was bound in, its log
\* is whole and none of them overlapped, the increments booked are the growth of
\* the total from the first log row to the newest (compute_sync_delta against the
\* newest row): for any accounts, processes and disturbances.
THEOREM NothingIsMissed == Spec => []CatchesUp
<1>1. Init => SealInv /\ BooksInv /\ AgreeInv /\ ChainInv /\ FirstInv
  BY InitSeal, InitBooks, InitAgree, InitChain, InitFirst
<1>2. SealInv /\ BooksInv /\ AgreeInv /\ ChainInv /\ FirstInv /\ [Next]_vars
        => SealInv' /\ BooksInv' /\ AgreeInv' /\ ChainInv' /\ FirstInv'
  BY AllStep, StepChain, NextFirst
<1> QED
  BY <1>1, <1>2, FirstCatchesUp, PTL DEF Spec

-----------------------------------------------------------------------------
(* The cycle before the current one                                        *)

\* p is about to give the account row of a what it has fetched, or has done so
\* and has yet to write the row of the cycle.
Turning(p, a) == sync[p].pc = "update" /\ sync[p].acct = a
Turned(p, a) == sync[p].pc = "monthly" /\ sync[p].acct = a

\* The rows of the cycles of an account end with that of its current one, and all
\* the others are sealed; that one is too, if it has a row, once another is to follow.
ClosedBehind(a) ==
    /\ usage[a] = None => DOMAIN cycles[a] = {}
    /\ usage[a] # None => \A s \in DOMAIN cycles[a] :
         s \in Int /\ s <= usage[a].start /\ (s < usage[a].start => cycles[a][s].final)
    /\ \A p \in Proc :
         Turning(p, a) /\ usage[a] # None /\ usage[a].start # sync[p].new.start
         => (usage[a].start \in DOMAIN cycles[a] => cycles[a][usage[a].start].final)
    /\ \A p \in Proc : Turned(p, a) => usage[a] # None /\ usage[a].start = sync[p].new.start

TurnInv == \A a \in Account : ~overlap[a] => ClosedBehind(a)

TurnCalm(a) ==
    \A q \in Proc :
        /\ Turning(q, a)' => Turning(q, a) /\ sync'[q].new = sync[q].new
        /\ Turned(q, a)' => Turned(q, a) /\ sync'[q].new = sync[q].new

TurnKept(a) ==
    /\ overlap[a] => overlap'[a]
    /\ usage'[a] = usage[a]
    /\ \A s \in DOMAIN cycles'[a] : s \in DOMAIN cycles[a] /\ cycles'[a][s] = cycles[a][s]

LEMMA TurnStays ==
  ASSUME TurnInv, NEW a \in Account, TurnCalm(a), TurnKept(a)
  PROVE  ~overlap'[a] => ClosedBehind(a)'
<1> SUFFICES ASSUME ~overlap'[a] PROVE ClosedBehind(a)'
  OBVIOUS
<1>1. ClosedBehind(a)
  BY DEF TurnInv, TurnKept
<1>2. usage'[a] = None => DOMAIN cycles'[a] = {}
  BY <1>1 DEF ClosedBehind, TurnKept
<1>3. usage'[a] # None => \A s \in DOMAIN cycles'[a] :
        s \in Int /\ s <= usage'[a].start /\ (s < usage'[a].start => cycles'[a][s].final)
  BY <1>1 DEF ClosedBehind, TurnKept
<1>4. \A p \in Proc :
        Turning(p, a)' /\ usage'[a] # None /\ usage'[a].start # sync'[p].new.start
        => (usage'[a].start \in DOMAIN cycles'[a] => cycles'[a][usage'[a].start].final)
  BY <1>1 DEF ClosedBehind, TurnKept, TurnCalm
<1>5. \A p \in Proc : Turned(p, a)' => usage'[a] # None /\ usage'[a].start = sync'[p].new.start
  BY <1>1 DEF ClosedBehind, TurnKept, TurnCalm
<1> QED
  BY <1>2, <1>3, <1>4, <1>5 DEF ClosedBehind

LEMMA TurnQuiet ==
  ASSUME TurnInv, \A a \in Account : TurnCalm(a) /\ TurnKept(a)
  PROVE  TurnInv'
<1>1. \A a \in Account : ~overlap'[a] => ClosedBehind(a)'
  BY TurnStays
<1> QED
  BY <1>1 DEF TurnInv

\* Every process stands where it stood, or where it has nothing to turn.
Aside == \A q \in Proc :
    \/ sync'[q].pc \notin {"update", "monthly"}
    \/ sync'[q].pc = sync[q].pc /\ sync'[q].acct = sync[q].acct /\ sync'[q].new = sync[q].new

LEMMA AsideCalm == Aside => \A a \in Account : TurnCalm(a)
  BY DEF Aside, TurnCalm, Turning, Turned

LEMMA AsideBecomes ==
  ASSUME SyncShape, NEW p \in Proc, NEW r, sync' = [sync EXCEPT ![p] = r],
         r.pc \notin {"update", "monthly"}
  PROVE  Aside
<1>1. \A q \in Proc : sync'[q] = IF q = p THEN r ELSE sync[q]
  BY DEF SyncShape
<1> QED
  BY <1>1 DEF Aside

LEMMA AsideProceed ==
  ASSUME SyncShape, NEW p \in Proc, Proceed(p)
  PROVE  Aside
<1>1. PICK r : sync' = [sync EXCEPT ![p] = r] /\ r.pc \in {"idle", "fetch"}
  <2>1. CASE sync' = [sync EXCEPT ![p] = Idle]
    BY <2>1, IdleShape
  <2>2. ASSUME NEW b, sync' = [sync EXCEPT ![p] =
                 TakeUp(b, sync[p].todo, sync[p].copy, sync[p].alone)]
        PROVE  \E r : sync' = [sync EXCEPT ![p] = r] /\ r.pc \in {"idle", "fetch"}
    <3>1. TakeUp(b, sync[p].todo, sync[p].copy, sync[p].alone).pc = "fetch"
      BY DEF TakeUp, Idle
    <3> QED
      BY <2>2, <3>1
  <2> QED
    BY <2>1, <2>2 DEF Proceed
<1> QED
  BY <1>1, AsideBecomes

LEMMA RowsAside ==
  ASSUME TurnInv, Aside, UNCHANGED <<usage, cycles, overlap>>
  PROVE  TurnInv'
<1>1. \A a \in Account : TurnKept(a)
  BY DEF TurnKept
<1> QED
  BY <1>1, AsideCalm, TurnQuiet

-----------------------------------------------------------------------------
\* What happens beside the seal, the update and the write of the cycle's row.
LEMMA BesideTurn ==
  ASSUME SealInv, TurnInv, NEW p \in Proc,
         SyncFetch(p) \/ SyncFails(p) \/ SyncRecord(p) \/ SyncCommit(p) \/ Cancel(p)
  PROVE  TurnInv'
<1>1. SyncShape /\ Shape(sync[p])
  BY DEF SealInv, SyncShape
<1>2. UNCHANGED <<usage, cycles, overlap>>
  BY DEF SyncFetch, SyncFails, SyncRecord, SyncCommit, Cancel, tables, ghosts
<1>3. CASE Proceed(p)
  BY <1>1, <1>2, <1>3, AsideProceed, RowsAside
<1>4. ASSUME NEW r, NEW l, l \in {"seal", "commit"}, DOMAIN r = Locals, Goto(p, r, l)
      PROVE  TurnInv'
  <2>1. [r EXCEPT !.pc = l].pc = l
    BY <1>4 DEF Locals
  <2> DEFINE next == [r EXCEPT !.pc = l]
  <2>2. sync' = [sync EXCEPT ![p] = next]
    BY <1>4 DEF Goto
  <2> HIDE DEF next
  <2> QED
    BY <1>1, <1>2, <1>4, <2>1, <2>2, AsideBecomes, RowsAside DEF next
<1>5. CASE SyncFetch(p)
  <2>1. PICK total, pct : Goto(p, [sync[p] EXCEPT
             !.new = [start |-> remote[sync[p].acct].start, total |-> total, pct |-> pct]], "seal")
    BY <1>5 DEF SyncFetch
  <2>2. DOMAIN [sync[p] EXCEPT !.new = [start |-> remote[sync[p].acct].start,
                                        total |-> total, pct |-> pct]] = Locals
    BY <1>1 DEF Shape
  <2> QED
    BY <1>4, <2>1, <2>2
<1>6. CASE SyncRecord(p)
  <2>1. PICK delta, base, month, fresh : Goto(p, [sync[p] EXCEPT !.delta = delta, !.base = base,
             !.month = month, !.fresh = fresh], "commit")
    BY <1>6 DEF SyncRecord
  <2>2. DOMAIN [sync[p] EXCEPT !.delta = delta, !.base = base,
             !.month = month, !.fresh = fresh] = Locals
    BY <1>1 DEF Shape
  <2> QED
    BY <1>4, <2>1, <2>2
<1>7. CASE Cancel(p)
  <2>1. sync' = [sync EXCEPT ![p] = Idle] /\ Idle.pc = "idle"
    BY <1>7 DEF Cancel, Idle
  <2> QED
    BY <1>1, <1>2, <2>1, AsideBecomes, RowsAside
<1> QED
  BY <1>3, <1>5, <1>6, <1>7 DEF SyncFails, SyncCommit

LEMMA StartTurn ==
  ASSUME SealInv, TurnInv, NEW p \in Proc, NEW S, SyncStart(p, S)
  PROVE  TurnInv'
<1> DEFINE met == {a \in S : \E q \in Proc \ {p} : a \in Under(q)}
           copy == [b \in Account |-> IF b \in S THEN usage[b] ELSE None]
<1>1. PICK a \in S : sync' = [q \in Proc |->
                IF q = p THEN TakeUp(a, S, copy, met = {})
                ELSE [sync[q] EXCEPT !.alone = @ /\ Under(q) \cap S = {}]]
  BY DEF SyncStart
<1>2. /\ UNCHANGED <<usage, cycles>>
      /\ \A b \in Account : overlap[b] => overlap'[b]
  BY DEF SyncStart, tables
<1>3. TakeUp(a, S, copy, met = {}).pc = "fetch"
  BY DEF TakeUp, Idle
<1> HIDE DEF met, copy
<1>4. ASSUME NEW q \in Proc, q # p
      PROVE  sync'[q].pc = sync[q].pc /\ sync'[q].acct = sync[q].acct /\ sync'[q].new = sync[q].new
  <2>1. PICK alone : sync'[q] = [sync[q] EXCEPT !.alone = alone]
    BY <1>1, <1>4
  <2>2. Shape(sync[q])
    BY DEF SealInv, SyncShape
  <2> QED
    BY <2>1, <2>2 DEF Shape, Locals
<1>5. Aside
  BY <1>1, <1>3, <1>4 DEF Aside
<1>6. \A b \in Account : TurnKept(b)
  BY <1>2 DEF TurnKept
<1> QED
  BY <1>5, <1>6, AsideCalm, TurnQuiet

LEMMA OutsideTurn ==
  ASSUME SealInv, TurnInv,
         \/ World \/ cleanup_cursor_usage_history \/ UNCHANGED vars
         \/ \E a \in Account : unbind(a)
  PROVE  TurnInv'
<1>1. sync' = sync /\ UNCHANGED <<usage, overlap>>
  BY DEF World, NextDay, Spend, NextCycle, CatchUp, cleanup_cursor_usage_history, unbind,
     vars, tables, ghosts
<1>2. Aside
  BY <1>1 DEF Aside
<1>3. CASE cleanup_cursor_usage_history
  <2>1. ASSUME NEW a \in Account PROVE TurnKept(a)
    <3>1. cycles'[a] = Keep(cycles[a],
                {s \in DOMAIN cycles[a] : EndOf(s) >= today - KeptCycles * MonthDays})
      BY <1>3 DEF cleanup_cursor_usage_history
    <3> QED
      BY <1>1, <3>1 DEF Keep, TurnKept
  <2> QED
    BY <1>2, <2>1, AsideCalm, TurnQuiet
<1>4. CASE ~cleanup_cursor_usage_history
  <2>1. UNCHANGED cycles
    BY <1>4 DEF World, NextDay, Spend, NextCycle, CatchUp, unbind, vars, tables
  <2> QED
    BY <1>1, <1>2, <2>1, RowsAside
<1> QED
  BY <1>3, <1>4

LEMMA RepairTurn ==
  ASSUME SealInv, TurnInv, NEW a \in Account, repair_calendar_token_deltas(a)
  PROVE  TurnInv'
<1>1. /\ sync' = [p \in Proc |-> [sync[p] EXCEPT !.alone = @ /\ a \notin Under(p)]]
      /\ overlap' = [overlap EXCEPT ![a] = @ \/ \E p \in Proc : a \in Under(p)]
      /\ UNCHANGED <<usage, cycles>>
  BY DEF repair_calendar_token_deltas
<1>2. \A b \in Account : overlap[b] => overlap'[b]
  <2> DEFINE met == \E p \in Proc : a \in Under(p)
  <2>1. overlap' = [overlap EXCEPT ![a] = overlap[a] \/ met] /\ overlap \in [Account -> BOOLEAN]
    BY <1>1 DEF SealInv, RowShape
  <2> HIDE DEF met
  <2> QED
    BY <2>1
<1>3. ASSUME NEW q \in Proc
      PROVE  sync'[q].pc = sync[q].pc /\ sync'[q].acct = sync[q].acct /\ sync'[q].new = sync[q].new
  <2>1. PICK alone : sync'[q] = [sync[q] EXCEPT !.alone = alone]
    BY <1>1
  <2>2. Shape(sync[q])
    BY DEF SealInv, SyncShape
  <2> QED
    BY <2>1, <2>2 DEF Shape, Locals
<1>4. Aside
  BY <1>3 DEF Aside
<1>5. \A b \in Account : TurnKept(b)
  BY <1>1, <1>2 DEF TurnKept
<1> QED
  BY <1>4, <1>5, AsideCalm, TurnQuiet

-----------------------------------------------------------------------------
\* A step of p that leaves it with r, and the rows of all accounts but its own.
LEMMA OwnTurn ==
  ASSUME SealInv, TurnInv, NEW p \in Proc, NEW r, sync' = [sync EXCEPT ![p] = r],
         r.pc # "idle" => r.acct = sync[p].acct,
         \A a \in Account : a # sync[p].acct => TurnKept(a),
         \A a \in Account : a = sync[p].acct /\ ~overlap'[a] => ClosedBehind(a)'
  PROVE  TurnInv'
<1>1. \A q \in Proc : sync'[q] = IF q = p THEN r ELSE sync[q]
  BY DEF SealInv, SyncShape
<1>2. ASSUME NEW a \in Account, a # sync[p].acct PROVE TurnCalm(a)
  BY <1>1, <1>2 DEF TurnCalm, Turning, Turned
<1>3. \A a \in Account : ~overlap'[a] => ClosedBehind(a)'
  BY <1>2, TurnStays
<1> QED
  BY <1>3 DEF TurnInv

\* While syncs of it do not overlap, nobody else turns the account.
LEMMA NoOtherTurns ==
  ASSUME SealInv, NEW p \in Proc, NEW a \in Account, sync[p].pc # "idle", sync[p].acct = a,
         ~overlap[a]
  PROVE  /\ Apart(a) /\ Fresh(a) /\ Forward(a)
         /\ \A q \in Proc : q # p => ~Turning(q, a) /\ ~Turned(q, a)
<1>1. Apart(a) /\ Fresh(a) /\ Forward(a)
  BY DEF SealInv, InOrder
<1> QED
  BY <1>1 DEF Apart, Under, Turning, Turned

LEMMA SealTurn ==
  ASSUME SealInv, BooksInv, TurnInv, NEW p \in Proc, SyncSeal(p)
  PROVE  TurnInv'
<1> DEFINE old == sync[p].copy[sync[p].acct]
           r == [[sync[p] EXCEPT !.at = stamp + 1, !.day = today, !.copy[sync[p].acct] = None]
                    EXCEPT !.pc = "update"]
           row == [total |-> old.total, pct |-> old.pct, final |-> TRUE]
           over == old # None /\ old.start # sync[p].new.start
<1>1. /\ Shape(sync[p]) /\ sync[p].pc = "seal" /\ UNCHANGED <<usage, overlap>>
      /\ sync' = [sync EXCEPT ![p] = r]
      /\ cycles' = IF over THEN [cycles EXCEPT ![sync[p].acct] = Put(@, old.start, row)]
                   ELSE cycles
  BY DEF SealInv, SyncShape, SyncSeal, Goto, ghosts, _finalize_monthly_usage_if_cycle_changed
<1>2. r.pc = "update" /\ r.acct = sync[p].acct /\ r.new = sync[p].new
  BY <1>1 DEF Shape, Locals
<1>3. row.final
  OBVIOUS
<1>4. /\ DOMAIN cycles = Account
      /\ \A q \in Proc : sync'[q] = IF q = p THEN r ELSE sync[q]
  BY <1>1 DEF SealInv, SyncShape, RowShape
<1> HIDE DEF r, row
<1>5. \A a \in Account : cycles'[a] = IF over /\ a = sync[p].acct
                                      THEN Put(cycles[a], old.start, row) ELSE cycles[a]
  <2> HIDE DEF over, old
  <2> QED
    BY <1>1, <1>4
<1>6. \A a \in Account : a # sync[p].acct => TurnKept(a)
  BY <1>1, <1>5 DEF TurnKept
<1>7. ASSUME NEW a \in Account, a = sync[p].acct, ~overlap'[a] PROVE ClosedBehind(a)'
  <2>1. /\ Fresh(a)
        /\ \A q \in Proc : q # p => ~Turning(q, a) /\ ~Turned(q, a)
    BY <1>1, <1>7, NoOtherTurns
  <2>2. old = usage[a]
    BY <1>1, <1>7, <2>1 DEF Fresh, Early
  <2>3. ClosedBehind(a)
    BY <1>1, <1>7 DEF TurnInv
  <2>4. usage[a] # None => usage[a].start \in Int
    BY DEF SealInv, RowShape
  <2>5. /\ over => /\ DOMAIN cycles'[a] = DOMAIN cycles[a] \cup {usage[a].start}
                   /\ \A s \in DOMAIN cycles'[a] :
                        cycles'[a][s] = IF s = usage[a].start THEN row ELSE cycles[a][s]
        /\ ~over => cycles'[a] = cycles[a]
    <3> HIDE DEF over, old
    <3>1. cycles'[a] = IF over THEN Put(cycles[a], usage[a].start, row) ELSE cycles[a]
      BY <1>5, <1>7, <2>2
    <3>2. /\ DOMAIN Put(cycles[a], usage[a].start, row) = DOMAIN cycles[a] \cup {usage[a].start}
          /\ \A s \in DOMAIN cycles[a] \cup {usage[a].start} :
               Put(cycles[a], usage[a].start, row)[s]
                   = IF s = usage[a].start THEN row ELSE cycles[a][s]
      BY DEF Put
    <3> QED
      BY <3>1, <3>2
  <2>6. over => usage[a] # None
    BY <2>2
  <2>7. usage'[a] = usage[a]
    BY <1>1
  <2>8. usage'[a] = None => DOMAIN cycles'[a] = {}
    <3> HIDE DEF over
    <3> QED
      BY <2>3, <2>5, <2>6, <2>7 DEF ClosedBehind
  <2>9. usage'[a] # None => \A s \in DOMAIN cycles'[a] :
          s \in Int /\ s <= usage'[a].start /\ (s < usage'[a].start => cycles'[a][s].final)
    <3> HIDE DEF over
    <3> QED
      BY <1>3, <2>3, <2>4, <2>5, <2>7 DEF ClosedBehind
  <2>10. ASSUME NEW q \in Proc, Turning(q, a)', usage'[a] # None,
                usage'[a].start # sync'[q].new.start
         PROVE  cycles'[a][usage'[a].start].final
    <3>1. q = p
      BY <1>4, <2>1, <2>10 DEF Turning
    <3>2. over
      BY <1>2, <1>4, <2>2, <2>7, <2>10, <3>1
    <3> HIDE DEF over
    <3> QED
      BY <1>3, <2>5, <2>7, <3>2
  <2>11. \A q \in Proc : ~Turned(q, a)'
    BY <1>2, <1>4, <2>1 DEF Turned
  <2> QED
    BY <2>8, <2>9, <2>10, <2>11 DEF ClosedBehind
<1> QED
  BY <1>1, <1>2, <1>6, <1>7, OwnTurn

LEMMA UpdateTurn ==
  ASSUME SealInv, BooksInv, TurnInv, NEW p \in Proc, SyncUpdate(p)
  PROVE  TurnInv'
<1>1. /\ Shape(sync[p]) /\ sync[p].pc = "update" /\ SyncShape
      /\ UNCHANGED <<cycles, overlap>>
  BY DEF SealInv, SyncShape, SyncUpdate, tables, ghosts
<1>2. CASE Proceed(p) /\ UNCHANGED usage
  BY <1>1, <1>2, AsideProceed, RowsAside
<1>3. CASE usage' = [usage EXCEPT ![sync[p].acct] = sync[p].new] /\ Goto(p, sync[p], "monthly")
  <2> DEFINE r == [sync[p] EXCEPT !.pc = "monthly"]
             new == sync[p].new
  <2>1. r.pc = "monthly" /\ r.acct = sync[p].acct /\ r.new = new
    BY <1>1 DEF Shape, Locals
  <2>2. sync' = [sync EXCEPT ![p] = r]
    BY <1>3 DEF Goto
  <2> HIDE DEF r
  <2>3. /\ \A a \in Account : usage'[a] = IF a = sync[p].acct THEN new ELSE usage[a]
        /\ \A q \in Proc : sync'[q] = IF q = p THEN r ELSE sync[q]
    BY <1>3, <2>2 DEF SealInv, SyncShape, RowShape
  <2>4. \A a \in Account : a # sync[p].acct => TurnKept(a)
    BY <1>1, <2>3 DEF TurnKept
  <2>5. ASSUME NEW a \in Account, a = sync[p].acct, ~overlap'[a] PROVE ClosedBehind(a)'
    <3>1. /\ Forward(a)
          /\ \A q \in Proc : q # p => ~Turning(q, a) /\ ~Turned(q, a)
      BY <1>1, <2>5, NoOtherTurns
    <3>2. ClosedBehind(a)
      BY <1>1, <2>5 DEF TurnInv
    <3>3. new # None /\ new.start \in Int /\ usage'[a] = new
      BY <1>1, <2>3, <2>5 DEF Shape, BooksInv, BookShape, SyncSound, Sound, Read
    <3>4. usage[a] # None => usage[a].start \in Int /\ usage[a].start <= new.start
      BY <1>1, <2>5, <3>1 DEF SealInv, RowShape, Forward, Holding
    <3>5. cycles'[a] = cycles[a]
      BY <1>1
    <3>6. usage[a] # None /\ usage[a].start # new.start
            => (usage[a].start \in DOMAIN cycles[a] => cycles[a][usage[a].start].final)
      BY <1>1, <2>5, <3>2 DEF ClosedBehind, Turning
    <3> HIDE DEF new
    <3>7. \A s \in DOMAIN cycles[a] :
            s \in Int /\ s <= new.start /\ (s < new.start => cycles[a][s].final)
      <4> SUFFICES ASSUME NEW s \in DOMAIN cycles[a]
                   PROVE  s \in Int /\ s <= new.start /\ (s < new.start => cycles[a][s].final)
        OBVIOUS
      <4>1. usage[a] # None
        BY <3>2 DEF ClosedBehind
      <4>2. /\ s \in Int /\ s <= usage[a].start
            /\ s < usage[a].start => cycles[a][s].final
        BY <3>2, <4>1 DEF ClosedBehind
      <4>3. CASE s = usage[a].start
        BY <3>3, <3>4, <3>6, <4>1, <4>2, <4>3
      <4>4. CASE s # usage[a].start
        BY <3>3, <3>4, <4>1, <4>2, <4>4
      <4> QED
        BY <4>3, <4>4
    <3>8. \A q \in Proc : ~Turning(q, a)'
      BY <2>1, <2>3, <3>1 DEF Turning
    <3>9. \A q \in Proc : Turned(q, a)' => sync'[q].new = new
      BY <2>1, <2>3, <3>1 DEF Turned
    <3> QED
      BY <3>3, <3>5, <3>7, <3>8, <3>9 DEF ClosedBehind
  <2> QED
    BY <2>1, <2>2, <2>4, <2>5, OwnTurn
<1> QED
  BY <1>2, <1>3 DEF SyncUpdate

LEMMA MonthlyTurn ==
  ASSUME SealInv, BooksInv, TurnInv, NEW p \in Proc, SyncMonthly(p)
  PROVE  TurnInv'
<1> DEFINE new == sync[p].new
           row == [total |-> new.total, pct |-> new.pct, final |-> FALSE]
<1>1. /\ Shape(sync[p]) /\ SyncShape /\ sync[p].pc = "monthly" /\ UNCHANGED <<usage, overlap>>
      /\ DOMAIN cycles = Account
      /\ \/ UNCHANGED cycles
         \/ cycles' = [cycles EXCEPT ![sync[p].acct] = Put(@, new.start, row)]
  BY DEF SealInv, SyncShape, RowShape, SyncMonthly, _upsert_monthly_usage, ghosts
<1>2. PICK r : sync' = [sync EXCEPT ![p] = r] /\ r.pc \in {"idle", "fetch", "record"}
                 /\ (r.pc = "record" => r.acct = sync[p].acct)
  <2>1. CASE sync' = [sync EXCEPT ![p] = Idle]
    BY <2>1, IdleShape
  <2>2. ASSUME NEW b, sync' = [sync EXCEPT ![p] =
                 TakeUp(b, sync[p].todo, sync[p].copy, sync[p].alone)]
        PROVE  \E r : sync' = [sync EXCEPT ![p] = r] /\ r.pc \in {"idle", "fetch", "record"}
                 /\ (r.pc = "record" => r.acct = sync[p].acct)
    <3>1. TakeUp(b, sync[p].todo, sync[p].copy, sync[p].alone).pc = "fetch"
      BY DEF TakeUp, Idle
    <3> QED
      BY <2>2, <3>1
  <2>3. CASE Goto(p, sync[p], "record")
    <3> DEFINE next == [sync[p] EXCEPT !.pc = "record"]
    <3>1. next.pc = "record" /\ next.acct = sync[p].acct
      BY <1>1 DEF Shape, Locals
    <3>2. sync' = [sync EXCEPT ![p] = next]
      BY <2>3 DEF Goto
    <3> HIDE DEF next
    <3> QED
      BY <3>1, <3>2
  <2> QED
    BY <2>1, <2>2, <2>3 DEF SyncMonthly, Proceed
<1>3. \A q \in Proc : sync'[q] = IF q = p THEN r ELSE sync[q]
  BY <1>1, <1>2 DEF SyncShape
<1>4. Aside
  BY <1>2, <1>3 DEF Aside
<1> HIDE DEF new, row
<1>5. CASE UNCHANGED cycles
  BY <1>1, <1>4, <1>5, RowsAside
<1>6. CASE cycles' = [cycles EXCEPT ![sync[p].acct] = Put(@, new.start, row)]
  <2>1. \A a \in Account : cycles'[a] = IF a = sync[p].acct THEN Put(cycles[a], new.start, row)
                                        ELSE cycles[a]
    BY <1>1, <1>6
  <2>2. ASSUME NEW a \in Account PROVE ~overlap'[a] => ClosedBehind(a)'
    <3>1. CASE a # sync[p].acct
      <4>1. TurnKept(a)
        BY <1>1, <2>1, <3>1 DEF TurnKept
      <4> QED
        BY <1>4, <4>1, AsideCalm, TurnStays
    <3>2. ASSUME a = sync[p].acct, ~overlap'[a] PROVE ClosedBehind(a)'
      <4>1. \A q \in Proc : q # p => ~Turning(q, a) /\ ~Turned(q, a)
        BY <1>1, <3>2, NoOtherTurns
      <4>2. ClosedBehind(a) /\ usage'[a] = usage[a]
        BY <1>1, <3>2 DEF TurnInv
      <4>3. usage[a] # None /\ usage[a].start = new.start /\ usage[a].start \in Int
        BY <1>1, <3>2, <4>2 DEF ClosedBehind, Turned, SealInv, RowShape, new
      <4>4. /\ DOMAIN cycles'[a] = DOMAIN cycles[a] \cup {new.start}
            /\ \A s \in DOMAIN cycles'[a] :
                 cycles'[a][s] = IF s = new.start THEN row ELSE cycles[a][s]
        BY <2>1, <3>2 DEF Put
      <4>5. \A q \in Proc : ~Turning(q, a)' /\ ~Turned(q, a)'
        BY <1>2, <1>3, <4>1 DEF Turning, Turned
      <4>6. \A s \in DOMAIN cycles'[a] : s \in Int /\ s <= usage'[a].start
                                          /\ (s < usage'[a].start => cycles'[a][s].final)
        BY <4>2, <4>3, <4>4 DEF ClosedBehind
      <4> QED
        BY <4>2, <4>3, <4>5, <4>6 DEF ClosedBehind
    <3> QED
      BY <3>1, <3>2
  <2> QED
    BY <2>2 DEF TurnInv
<1> QED
  BY <1>1, <1>5, <1>6

LEMMA InitTurn == Init => TurnInv
<1> SUFFICES ASSUME Init, NEW a \in Account PROVE ClosedBehind(a)
  BY DEF TurnInv
<1>1. usage[a] = None /\ DOMAIN cycles[a] = {} /\ \A p \in Proc : sync[p].pc = "idle"
  BY IdleShape DEF Init
<1> QED
  BY <1>1 DEF ClosedBehind, Turning, Turned

LEMMA NextTurn == SealInv /\ BooksInv /\ TurnInv /\ [Next]_vars => TurnInv'
<1> SUFFICES ASSUME SealInv, BooksInv, TurnInv, [Next]_vars PROVE TurnInv'
  OBVIOUS
<1>1. ASSUME NEW p \in Proc, Step(p) PROVE TurnInv'
  BY <1>1, BesideTurn, SealTurn, UpdateTurn, MonthlyTurn DEF Step
<1>2. ASSUME NEW p \in Proc, sync_all_accounts(p) PROVE TurnInv'
  BY <1>2, StartTurn DEF sync_all_accounts
<1>3. ASSUME NEW p \in Proc, NEW a \in Account, sync_my_account(p, a) PROVE TurnInv'
  BY <1>3, StartTurn DEF sync_my_account
<1>4. ASSUME NEW a \in Account, repair_calendar_token_deltas(a) PROVE TurnInv'
  BY <1>4, RepairTurn
<1> QED
  BY <1>1, <1>2, <1>3, <1>4, OutsideTurn DEF Next

\* Of the cycles before the current one the latest exists, and is what is reported.
LEMMA LatestEarlier ==
  ASSUME NEW T, T # {}, NEW top \in Int, \A s \in T : s \in Int /\ s < top
  PROVE  Max(T) \in T
<1> DEFINE back == {n \in Nat : top - n \in T}
<1>1. back # {}
  <2>1. PICK s \in T : s \in Int /\ s < top
    OBVIOUS
  <2>2. top - s \in Nat /\ top - (top - s) = s
    BY <2>1
  <2> QED
    BY <2>1, <2>2
<1>2. PICK n \in back : \A m \in back : ~(<<m, n>> \in OpToRel(<, Nat))
  BY <1>1, NatLessThanWellFounded, WFMin
<1>3. ASSUME NEW m \in back PROVE n <= m
  <2>1. <<m, n>> \in OpToRel(<, Nat) <=> m < n
    BY DEF OpToRel
  <2>2. ~(<<m, n>> \in OpToRel(<, Nat))
    BY <1>2
  <2> HIDE DEF back
  <2>3. ~(m < n)
    BY <2>1, <2>2
  <2>4. m \in Nat /\ n \in Nat
    BY DEF back
  <2> QED
    BY <2>3, <2>4
<1>4. top - n \in T /\ \A s \in T : top - n >= s
  <2>1. ASSUME NEW s \in T PROVE top - n >= s
    <3>1. top - s \in Nat /\ top - (top - s) = s
      OBVIOUS
    <3>2. n <= top - s
      BY <1>3, <3>1
    <3> QED
      BY <3>2
  <2> QED
    BY <2>1
<1>5. \E x \in T : \A y \in T : x >= y
  BY <1>4
<1> QED
  BY <1>5 DEF Max

LEMMA TurnReports == ASSUME SealInv, BooksInv, TurnInv PROVE PreviousCycleIsFinal
<1> DEFINE earlier(a) == {s \in DOMAIN cycles[a] : s < usage[a].start}
           latest(a) == Max(DOMAIN cycles[a])
<1>1. bound \subseteq Account
  BY DEF BooksInv, BookShape, TimeShape
<1>2. ASSUME NEW a \in bound, Serial(a), usage[a] # None, earlier(a) # {}
      PROVE  cycles[a][Max(earlier(a))].final /\ usage[a].start # Max(earlier(a))
  <2>1. usage[a].start \in Int
    BY <1>1, <1>2 DEF SealInv, RowShape
  <2>2. \A s \in earlier(a) : s \in Int /\ s < usage[a].start /\ cycles[a][s].final
    BY <1>1, <1>2 DEF TurnInv, ClosedBehind, Serial
  <2> DEFINE T == earlier(a)
  <2>3. T # {} /\ \A s \in T : s \in Int /\ s < usage[a].start /\ cycles[a][s].final
    BY <1>2, <2>2
  <2> HIDE DEF T
  <2>4. Max(T) \in T
    BY <2>1, <2>3, LatestEarlier
  <2>5. cycles[a][Max(T)].final /\ Max(T) < usage[a].start /\ Max(T) \in Int
    BY <2>3, <2>4
  <2> QED
    BY <2>1, <2>5 DEF T
<1>3. ASSUME NEW a \in bound, Serial(a), usage[a] = None
      PROVE  ~(Cardinality(DOMAIN cycles[a]) >= 2) /\ DOMAIN cycles[a] = {}
  <2>1. DOMAIN cycles[a] = {}
    BY <1>1, <1>3 DEF TurnInv, ClosedBehind, Serial
  <2> QED
    BY <2>1, FS_EmptySet
<1>4. ASSUME NEW r \in _load_previous_cycle_rows, Serial(r.account_id)
      PROVE  r.is_finalized /\ usage[r.account_id].start # r.billing_cycle_start
  <2>1. CASE \E a \in bound : usage[a] # None /\ earlier(a) # {}
                               /\ r = CycleRecord(a, Max(earlier(a)))
    <3>1. PICK a \in bound : usage[a] # None /\ earlier(a) # {}
                             /\ r = CycleRecord(a, Max(earlier(a)))
      BY <2>1
    <3>2. /\ r.account_id = a /\ r.billing_cycle_start = Max(earlier(a))
          /\ r.is_finalized = cycles[a][Max(earlier(a))].final
      BY <3>1 DEF CycleRecord
    <3> QED
      BY <1>2, <1>4, <3>1, <3>2
  <2>2. CASE \E a \in bound :
               /\ usage[a] = None
               /\ \/ Cardinality(DOMAIN cycles[a]) >= 2
                  \/ DOMAIN cycles[a] # {} /\ cycles[a][latest(a)].final
               /\ r.account_id = a
    BY <1>3, <1>4, <2>2
  <2>3. CASE r \in {CycleRecord(a, Max(earlier(a))) :
                       a \in {b \in bound : usage[b] # None /\ earlier(b) # {}}}
    BY <2>1, <2>3
  <2>4. ASSUME NEW a, NEW s, r = CycleRecord(a, s) PROVE r.account_id = a
    BY <2>4 DEF CycleRecord
  <2>5. CASE r \in {CycleRecord(a, IF Cardinality(DOMAIN cycles[a]) >= 2
                        THEN Max(DOMAIN cycles[a] \ {latest(a)}) ELSE latest(a)) :
            a \in {b \in bound : /\ usage[b] = None
                                 /\ \/ Cardinality(DOMAIN cycles[b]) >= 2
                                    \/ DOMAIN cycles[b] # {} /\ cycles[b][latest(b)].final}}
    <3>1. PICK a \in {b \in bound : /\ usage[b] = None
                                    /\ \/ Cardinality(DOMAIN cycles[b]) >= 2
                                       \/ DOMAIN cycles[b] # {} /\ cycles[b][latest(b)].final} :
               r = CycleRecord(a, IF Cardinality(DOMAIN cycles[a]) >= 2
                        THEN Max(DOMAIN cycles[a] \ {latest(a)}) ELSE latest(a))
      BY <2>5
    <3>2. r.account_id = a
      BY <2>4, <3>1
    <3> QED
      BY <2>2, <3>1, <3>2
  <2> QED
    BY <1>4, <2>3, <2>5 DEF _load_previous_cycle_rows
<1> QED
  BY <1>4 DEF PreviousCycleIsFinal

\* The cycle that is reported as an account's previous one is over and its row is
\* sealed (_load_previous_cycle_rows), unless syncs of the account have overlapped:
\* no sync that is cut short between the seal, the account row and the row of the
\* new cycle leaves an open row behind, for any accounts, processes and disturbances.
THEOREM PreviousCyclesAreSealed == Spec => []PreviousCycleIsFinal
<1>1. Init => SealInv /\ BooksInv /\ TurnInv
  BY InitSeal, InitBooks, InitTurn
<1>2. SealInv /\ BooksInv /\ TurnInv /\ [Next]_vars => SealInv' /\ BooksInv' /\ TurnInv'
  BY StepGood, StepBooks, NextTurn DEF AllGood, Good, SealInv, AllBalanced, BooksInv
<1> QED
  BY <1>1, <1>2, TurnReports, PTL DEF Spec

-----------------------------------------------------------------------------
\* What overlapping syncs do to a calendar month, and what mends it.

\* A sync that is alone shares its accounts with no other.
AloneApart == \A p, q \in Proc : p # q /\ sync[p].alone => Under(p) \cap Under(q) = {}

\* What the log makes of the month once sync r has logged its own row.
LogWith(r, rows) == DeltaSum(InMonth(rows \cup {Entry(r, r.delta)}, Month(r.day)))

\* The figure that r has resolved is no more than that, and just that of a sync
\* that ran alone.
Resolved(r, rows) ==
    Counts(Month(r.day)) => /\ r.month \in Nat /\ r.month <= LogWith(r, rows)
                            /\ r.alone => r.month = LogWith(r, rows)

\* A calendar row is not empty, and the log bears it out.
BorneOut(a) ==
    \A m \in DOMAIN calendar[a] : Counts(m) =>
        /\ calendar[a][m] \in Nat /\ calendar[a][m] > 0
        /\ calendar[a][m] <= DeltaSum(InMonth(logs[a], m))

Mending(a) == BorneOut(a) /\ \A p \in Proc : Closing(p, a) => Resolved(sync[p], logs[a])
MendInv == AloneApart /\ \A a \in Account : Mending(a)

\* No sync that commits becomes alone.
StaysAlone == \A q \in Proc : sync'[q].pc = "commit" /\ sync'[q].alone => sync[q].alone

LEMMA MonthSumGrows ==
  ASSUME NEW rows, IsFiniteSet(rows), \A l \in rows : l.delta \in Nat,
         NEW own, own.delta \in Nat, own.day \in Int, NEW m
  PROVE  /\ DeltaSum(InMonth(rows, m)) \in Nat /\ DeltaSum(InMonth(rows \cup {own}, m)) \in Nat
         /\ DeltaSum(InMonth(rows, m)) <= DeltaSum(InMonth(rows \cup {own}, m))
<1>1. \A part \in SUBSET rows : DeltaSum(part) \in Nat
  BY PartSum
<1>2. InMonth(rows, m) \in SUBSET rows
  BY DEF InMonth
<1>3. CASE own \in rows
  <2>1. rows \cup {own} = rows
    BY <1>3
  <2> QED
    BY <1>1, <1>2, <2>1
<1>4. CASE own \notin rows
  <2>1. DeltaSum(InMonth(rows \cup {own}, m))
          = IF Month(own.day) = m THEN DeltaSum(InMonth(rows, m)) + own.delta
            ELSE DeltaSum(InMonth(rows, m))
    BY <1>4, PartGrows
  <2> QED
    BY <1>1, <1>2, <2>1
<1> QED
  BY <1>3, <1>4

LEMMA LocalsAlone ==
  ASSUME SyncShape, AloneApart, NEW p \in Proc, NEW r, sync' = [sync EXCEPT ![p] = r],
         \/ r.pc = "idle"
         \/ /\ r.pc # "idle" /\ sync[p].pc # "idle" /\ r.acct \in Under(p)
            /\ r.todo \subseteq Under(p) /\ (r.alone => sync[p].alone)
  PROVE  AloneApart' /\ StaysAlone
<1>1. \A q \in Proc : sync'[q] = IF q = p THEN r ELSE sync[q]
  BY DEF SyncShape
<1>2. \A q \in Proc : /\ Under(q)' \subseteq Under(q)
                      /\ (sync'[q].alone => sync[q].alone \/ Under(q)' = {})
  BY <1>1 DEF Under
<1>3. StaysAlone
  BY <1>1 DEF StaysAlone
<1> QED
  BY <1>2, <1>3 DEF AloneApart

LEMMA ProceedAlone ==
  ASSUME SyncShape, AloneApart, NEW p \in Proc, sync[p].pc # "idle", Proceed(p)
  PROVE  AloneApart' /\ StaysAlone
<1>1. CASE sync' = [sync EXCEPT ![p] = Idle]
  BY <1>1, IdleShape, LocalsAlone
<1>2. CASE \E a \in sync[p].todo : sync' = [sync EXCEPT ![p] =
               TakeUp(a, sync[p].todo, sync[p].copy, sync[p].alone)]
  <2>1. PICK a \in sync[p].todo : sync' = [sync EXCEPT ![p] =
               TakeUp(a, sync[p].todo, sync[p].copy, sync[p].alone)]
    BY <1>2
  <2>2. PICK r : r = TakeUp(a, sync[p].todo, sync[p].copy, sync[p].alone)
    OBVIOUS
  <2>3. /\ r.pc = "fetch" /\ r.acct = a /\ r.todo = sync[p].todo \ {a}
        /\ r.alone = sync[p].alone
    BY <2>2 DEF TakeUp, Idle
  <2>4. r.acct \in Under(p) /\ r.todo \subseteq Under(p)
    BY <2>3 DEF Under
  <2> QED
    BY <2>1, <2>2, <2>3, <2>4, LocalsAlone
<1> QED
  BY <1>1, <1>2 DEF Proceed

LEMMA StillAlone ==
  ASSUME AloneApart, UNCHANGED sync
  PROVE  AloneApart' /\ StaysAlone
  BY DEF AloneApart, StaysAlone, Under

LEMMA StartAlone ==
  ASSUME SyncShape, AloneApart, NEW p \in Proc, NEW S \in SUBSET Account, SyncStart(p, S)
  PROVE  AloneApart' /\ StaysAlone
<1> DEFINE met == {a \in S : \E q \in Proc \ {p} : a \in Under(q)}
           copy == [b \in Account |-> IF b \in S THEN usage[b] ELSE None]
<1>1. PICK a \in S : sync' = [q \in Proc |->
                IF q = p THEN TakeUp(a, S, copy, met = {})
                ELSE [sync[q] EXCEPT !.alone = @ /\ Under(q) \cap S = {}]]
  BY DEF SyncStart
<1>2. PICK only : only = (met = {})
  OBVIOUS
<1>3. only => \A q \in Proc : q # p => Under(q) \cap S = {}
  BY <1>2
<1> HIDE DEF copy, met
<1>4. sync'[p].pc = "fetch" /\ sync'[p].alone = only /\ Under(p)' \subseteq S
  <2>1. sync'[p] = TakeUp(a, S, copy, only)
    BY <1>1, <1>2
  <2>2. /\ sync'[p].pc = "fetch" /\ sync'[p].alone = only
        /\ sync'[p].todo = S \ {a} /\ sync'[p].acct = a
    BY <2>1 DEF TakeUp, Idle
  <2> QED
    BY <1>1, <2>2 DEF Under
<1>5. ASSUME NEW q \in Proc, q # p
      PROVE  /\ Under(q)' = Under(q)
             /\ sync'[q].alone => sync[q].alone /\ Under(q) \cap S = {}
  <2>1. PICK here : here = (Under(q) \cap S = {})
    OBVIOUS
  <2>2. sync'[q] = [sync[q] EXCEPT !.alone = sync[q].alone /\ here] /\ Shape(sync[q])
    BY <1>1, <1>5, <2>1 DEF SyncShape
  <2>3. /\ sync'[q].pc = sync[q].pc /\ sync'[q].acct = sync[q].acct
        /\ sync'[q].todo = sync[q].todo /\ sync'[q].alone = (sync[q].alone /\ here)
    BY <2>2 DEF Shape, Locals
  <2> QED
    BY <2>1, <2>3 DEF Under
<1>6. AloneApart'
  BY <1>3, <1>4, <1>5 DEF AloneApart
<1> QED
  BY <1>4, <1>5, <1>6 DEF StaysAlone

LEMMA StepAlone ==
  ASSUME SyncShape, bound \in SUBSET Account, AloneApart, "repair" \notin Env, [Next]_vars
  PROVE  AloneApart' /\ StaysAlone
<1>1. CASE World
  BY <1>1, StillAlone DEF World, NextDay, Spend, NextCycle, CatchUp
<1>2. ASSUME NEW p \in Proc, Step(p) PROVE AloneApart' /\ StaysAlone
  <2>1. Shape(sync[p])
    BY DEF SyncShape
  <2>2. ASSUME NEW r, sync' = [sync EXCEPT ![p] = r], sync[p].pc # "idle", r.pc # "idle",
               r.acct = sync[p].acct, r.todo = sync[p].todo, r.alone = sync[p].alone
        PROVE  AloneApart' /\ StaysAlone
    <3>1. r.acct \in Under(p) /\ r.todo \subseteq Under(p)
      BY <2>2 DEF Under
    <3> QED
      BY <2>2, <3>1, LocalsAlone
  <2>3. CASE SyncFetch(p)
    <3>1. PICK new : sync' = [sync EXCEPT ![p] = [[sync[p] EXCEPT !.new = new] EXCEPT !.pc = "seal"]]
      BY <2>3 DEF SyncFetch, Goto
    <3>2. PICK r : r = [[sync[p] EXCEPT !.new = new] EXCEPT !.pc = "seal"]
      OBVIOUS
    <3>3. r.pc # "idle" /\ r.acct = sync[p].acct /\ r.todo = sync[p].todo /\ r.alone = sync[p].alone
      BY <2>1, <3>2 DEF Shape, Locals
    <3>4. sync[p].pc # "idle"
      BY <2>3 DEF SyncFetch
    <3> QED
      BY <2>2, <3>1, <3>2, <3>3, <3>4
  <2>4. CASE SyncFails(p)
    BY <2>4, ProceedAlone DEF SyncFails
  <2>5. CASE SyncSeal(p)
    <3>1. PICK r : /\ r = [[sync[p] EXCEPT !.at = stamp + 1, !.day = today,
                                           !.copy[sync[p].acct] = None] EXCEPT !.pc = "update"]
                   /\ sync' = [sync EXCEPT ![p] = r]
      BY <2>5 DEF SyncSeal, Goto
    <3>2. r.pc # "idle" /\ r.acct = sync[p].acct /\ r.todo = sync[p].todo /\ r.alone = sync[p].alone
      BY <2>1, <3>1 DEF Shape, Locals
    <3>3. sync[p].pc # "idle"
      BY <2>5 DEF SyncSeal
    <3> QED
      BY <2>2, <3>1, <3>2, <3>3
  <2>6. ASSUME NEW label, label # "idle", sync[p].pc # "idle",
               sync' = [sync EXCEPT ![p] = [sync[p] EXCEPT !.pc = label]]
        PROVE  AloneApart' /\ StaysAlone
    <3>1. PICK r : r = [sync[p] EXCEPT !.pc = label]
      OBVIOUS
    <3>2. r.pc # "idle" /\ r.acct = sync[p].acct /\ r.todo = sync[p].todo /\ r.alone = sync[p].alone
      BY <2>1, <2>6, <3>1 DEF Shape, Locals
    <3> QED
      BY <2>2, <2>6, <3>1, <3>2
  <2>7. CASE SyncUpdate(p)
    <3>1. sync[p].pc # "idle" /\ (Proceed(p) \/ Goto(p, sync[p], "monthly"))
      BY <2>7 DEF SyncUpdate
    <3> QED
      BY <2>6, <3>1, ProceedAlone DEF Goto
  <2>8. CASE SyncMonthly(p)
    <3>1. sync[p].pc # "idle" /\ (Proceed(p) \/ Goto(p, sync[p], "record"))
      BY <2>8 DEF SyncMonthly
    <3> QED
      BY <2>6, <3>1, ProceedAlone DEF Goto
  <2>9. CASE SyncRecord(p)
    <3>1. PICK delta, base, month, fresh : sync' = [sync EXCEPT ![p] =
             [[sync[p] EXCEPT !.delta = delta, !.base = base, !.month = month, !.fresh = fresh]
                    EXCEPT !.pc = "commit"]]
      BY <2>9 DEF SyncRecord, Goto
    <3>2. PICK r : r = [[sync[p] EXCEPT !.delta = delta, !.base = base, !.month = month,
                                        !.fresh = fresh] EXCEPT !.pc = "commit"]
      OBVIOUS
    <3>3. r.pc # "idle" /\ r.acct = sync[p].acct /\ r.todo = sync[p].todo /\ r.alone = sync[p].alone
      BY <2>1, <3>2 DEF Shape, Locals
    <3>4. sync[p].pc # "idle"
      BY <2>9 DEF SyncRecord
    <3> QED
      BY <2>2, <3>1, <3>2, <3>3, <3>4
  <2>10. CASE SyncCommit(p)
    BY <2>10, ProceedAlone DEF SyncCommit
  <2>11. CASE Cancel(p)
    BY <2>11, IdleShape, LocalsAlone DEF Cancel
  <2> QED
    BY <1>2, <2>3, <2>4, <2>5, <2>7, <2>8, <2>9, <2>10, <2>11 DEF Step
<1>3. ASSUME NEW p \in Proc, sync_all_accounts(p) PROVE AloneApart' /\ StaysAlone
  BY <1>3, StartAlone DEF sync_all_accounts
<1>4. ASSUME NEW p \in Proc, NEW a \in Account, sync_my_account(p, a)
      PROVE  AloneApart' /\ StaysAlone
  BY <1>4, StartAlone DEF sync_my_account
<1>5. ASSUME NEW a \in Account, unbind(a) PROVE AloneApart' /\ StaysAlone
  BY <1>5, StillAlone DEF unbind
<1>6. CASE cleanup_cursor_usage_history
  BY <1>6, StillAlone DEF cleanup_cursor_usage_history
<1>7. CASE UNCHANGED vars
  BY <1>7, StillAlone DEF vars
<1>8. \A a \in Account : ~repair_calendar_token_deltas(a)
  BY DEF repair_calendar_token_deltas
<1> QED
  BY <1>1, <1>2, <1>3, <1>4, <1>5, <1>6, <1>7, <1>8 DEF Next

-----------------------------------------------------------------------------
\* What is resolved, and what is borne out, is so of a later day too.
LEMMA CountsLater ==
  ASSUME today \in Int, today' \in Int, today <= today'
  PROVE  \A m \in Int : Counts(m)' => Counts(m)
<1>1. LogDays \in Int /\ Created \in Int /\ MonthDays \in Int
  BY LedgerAssumption, MetricsAssumption
<1>2. \A d \in Int : Whole(d)' => Whole(d)
  BY <1>1, LaterCutoff DEF Whole
<1> QED
  BY <1>1, <1>2 DEF Counts, MonthStart

LEMMA MendStays ==
  ASSUME BooksInv, AgreeInv, TablesStand, CommitsCalm, StaysAlone, MendInv
  PROVE  \A a \in Account : Mending(a)'
<1> SUFFICES ASSUME NEW a \in Account PROVE Mending(a)'
  OBVIOUS
<1>1. BorneOut(a) /\ \A p \in Proc : Closing(p, a) => Resolved(sync[p], logs[a])
  BY DEF MendInv, Mending
<1>2. \A m \in Int : Counts(m)' => Counts(m)
  BY CountsLater DEF TablesStand
<1>3. BorneOut(a)'
  <2>1. DOMAIN calendar[a] \subseteq Int
    BY DEF AgreeInv, TableShape
  <2> QED
    BY <1>1, <1>2, <2>1 DEF BorneOut, TablesStand
<1>4. ASSUME NEW p \in Proc, Closing(p, a)' PROVE Resolved(sync[p], logs[a])'
  <2>1. PICK r, s : r = sync[p] /\ s = sync'[p]
    OBVIOUS
  <2>2. /\ r.pc = "commit" /\ r.acct = a /\ s.day = r.day /\ s.month = r.month
        /\ Entry(s, s.delta) = Entry(r, r.delta) /\ (s.alone => r.alone)
    BY <1>4, <2>1 DEF Closing, CommitsCalm, StaysAlone, Entry
  <2>3. Resolved(r, logs[a])
    BY <1>1, <2>1, <2>2 DEF Closing
  <2>4. r.day \in Int /\ Month(r.day) \in Int
    BY <2>1, <2>2, MonthBegins DEF BooksInv, BookShape, SyncSound, Sound, Timed
  <2>5. LogWith(s, logs'[a]) = LogWith(r, logs[a])
    BY <2>2 DEF LogWith, TablesStand
  <2>6. Counts(Month(s.day))' => /\ s.month \in Nat /\ s.month <= LogWith(s, logs'[a])
                                 /\ s.alone => s.month = LogWith(s, logs'[a])
    BY <1>2, <2>2, <2>3, <2>4, <2>5 DEF Resolved
  <2> QED
    BY <2>1, <2>6 DEF Resolved, LogWith
<1> QED
  BY <1>3, <1>4 DEF Mending

LEMMA RecordMend ==
  ASSUME BooksInv, SealInv, AgreeInv, MendInv, NEW p \in Proc, SyncRecord(p)
  PROVE  \A a \in Account : Mending(a)'
<1>1. UNCHANGED <<today, logs, calendar>>
  BY DEF SyncRecord, tables
<1>2. PICK a \in Account, delta \in Nat : \E r :
           /\ sync[p].pc = "record" /\ sync[p].acct = a /\ sync' = [sync EXCEPT ![p] = r]
           /\ \A q \in Proc : sync'[q] = IF q = p THEN r ELSE sync[q]
           /\ delta = compute_sync_delta(Newest(logs[a]), r.new.start, r.new.total)
           /\ r.pc = "commit" /\ r.acct = a /\ r.delta = delta
           /\ r.at = sync[p].at /\ r.day = sync[p].day /\ r.new = sync[p].new
           /\ r.base = IF r.day \in DOMAIN daily[a] THEN daily[a][r.day] ELSE None
           /\ r.month = resolve_calendar_month(r.new, Month(r.day),
                            logs[a] \cup {Entry(r, delta)}, Created, today)
  BY RecordReads DEF AgreeInv
<1>3. PICK r :
           /\ sync[p].pc = "record" /\ sync[p].acct = a
           /\ \A q \in Proc : sync'[q] = IF q = p THEN r ELSE sync[q]
           /\ r.pc = "commit" /\ r.acct = a /\ r.delta = delta /\ r.day = sync[p].day
           /\ r.month = resolve_calendar_month(r.new, Month(r.day),
                            logs[a] \cup {Entry(r, delta)}, Created, today)
  BY <1>2
<1>4. Resolved(r, logs[a])
  <2>1. Counts(Month(r.day)) => r.month = LogWith(r, logs[a])
    BY <1>3 DEF Counts, LogWith, resolve_calendar_month, _incremental_month_tokens, InMonth
  <2>2. LogWith(r, logs[a]) \in Nat
    <3>1. PICK own : own = Entry(r, r.delta)
      OBVIOUS
    <3>2. own.delta \in Nat /\ own.day \in Int
      BY <1>3, <3>1 DEF Entry, BooksInv, BookShape, SyncSound, Sound, Timed
    <3>3. IsFiniteSet(logs[a]) /\ \A l \in logs[a] : l.delta \in Nat
      BY DEF AgreeInv, TableShape
    <3> QED
      BY <3>1, <3>2, <3>3, MonthSumGrows DEF LogWith
  <2> QED
    BY <2>1, <2>2 DEF Resolved
<1>5. ASSUME NEW b \in Account PROVE Mending(b)'
  <2>1. BorneOut(b) /\ \A q \in Proc : Closing(q, b) => Resolved(sync[q], logs[b])
    BY DEF MendInv, Mending
  <2>2. BorneOut(b)'
    BY <1>1, <2>1 DEF BorneOut, Counts, Whole
  <2>3. ASSUME NEW q \in Proc, Closing(q, b)' PROVE Resolved(sync'[q], logs[b])
    BY <1>3, <1>4, <2>1, <2>3 DEF Closing
  <2>4. \A s : Resolved(s, logs[b]) => Resolved(s, logs[b])'
    BY <1>1 DEF Resolved, LogWith, Counts, Whole
  <2> QED
    BY <2>2, <2>3, <2>4 DEF Mending
<1> QED
  BY <1>5

LEMMA CommitMend ==
  ASSUME BooksInv, SealInv, AgreeInv, MendInv, StaysAlone, NEW p \in Proc, SyncCommit(p)
  PROVE  \A a \in Account : Mending(a)'
<1>1. UNCHANGED today /\ UNCHANGED overlap /\ Proceed(p) /\ sync[p].pc = "commit"
  BY DEF SyncCommit
<1>2. TableShape /\ TableShape' /\ CommitsCalm
  BY CommitShape DEF AgreeInv
<1>3. CASE UNCHANGED <<logs, daily, calendar, counted>>
  BY <1>1, <1>2, <1>3, TablesSame, MendStays
<1>4. CASE ~(UNCHANGED <<logs, daily, calendar, counted>>)
  <2>1. PICK a \in Account, delta \in Nat : \E r, own :
           /\ r = sync[p] /\ r.pc = "commit" /\ r.acct = a /\ r.delta = delta
           /\ r.day \in Nat /\ r.day \in Day /\ r.at \in Int /\ Sound(r) /\ Shape(r)
           /\ own = Entry(r, delta)
           /\ logs' = [logs EXCEPT ![a] = logs[a] \cup {own}]
           /\ counted' = [counted EXCEPT ![a] = counted[a] + delta]
           /\ daily' = IF delta = 0 THEN daily
                       ELSE [daily EXCEPT ![a] = Put(daily[a], r.day, Booked(r, delta))]
           /\ calendar' = IF r.month = 0 THEN calendar
                          ELSE [calendar EXCEPT ![a] = Put(calendar[a], Month(r.day), r.month)]
    BY <1>2, <1>4, CommitWrites
  <2>2. PICK r, own :
           /\ r = sync[p] /\ r.pc = "commit" /\ r.acct = a /\ r.delta = delta
           /\ r.day \in Nat /\ own = Entry(r, delta)
           /\ logs' = [logs EXCEPT ![a] = logs[a] \cup {own}]
           /\ calendar' = IF r.month = 0 THEN calendar
                          ELSE [calendar EXCEPT ![a] = Put(calendar[a], Month(r.day), r.month)]
    BY <2>1
  <2>3. own.delta \in Nat /\ own.day \in Int /\ own.day = r.day
    BY <2>2 DEF Entry
  <2>4. /\ \A b \in Account : logs'[b] = IF b = a THEN logs[a] \cup {own} ELSE logs[b]
        /\ \A b \in Account : b # a => calendar'[b] = calendar[b]
    BY <2>2 DEF BooksInv, BookShape, LogShape
  <2>5. \A b \in Account : IsFiniteSet(logs[b]) /\ \A l \in logs[b] : l.delta \in Nat
    BY <1>2 DEF TableShape
  <2>6. \A b \in Account : BorneOut(b) /\ \A q \in Proc : Closing(q, b) => Resolved(sync[q], logs[b])
    BY DEF MendInv, Mending
  <2>7. \A m : /\ DeltaSum(InMonth(logs[a], m)) \in Nat
               /\ DeltaSum(InMonth(logs[a] \cup {own}, m)) \in Nat
               /\ DeltaSum(InMonth(logs[a], m)) <= DeltaSum(InMonth(logs[a] \cup {own}, m))
    BY <2>3, <2>5, MonthSumGrows
  <2>8. ASSUME NEW b \in Account, NEW m \in DOMAIN calendar'[b], Counts(m)
        PROVE  /\ calendar'[b][m] \in Nat /\ calendar'[b][m] > 0
               /\ calendar'[b][m] <= DeltaSum(InMonth(logs'[b], m))
    <3>1. ASSUME calendar'[b][m] = calendar[b][m], m \in DOMAIN calendar[b]
          PROVE  /\ calendar'[b][m] \in Nat /\ calendar'[b][m] > 0
                 /\ calendar'[b][m] <= DeltaSum(InMonth(logs'[b], m))
      <4>1. /\ calendar[b][m] \in Nat /\ calendar[b][m] > 0
            /\ calendar[b][m] <= DeltaSum(InMonth(logs[b], m))
        BY <2>6, <2>8, <3>1 DEF BorneOut
      <4>2. CASE b = a
        BY <2>4, <2>7, <3>1, <4>1, <4>2
      <4>3. CASE b # a
        BY <2>4, <3>1, <4>1, <4>3
      <4> QED
        BY <4>2, <4>3
    <3>2. CASE b # a \/ r.month = 0
      <4>1. calendar'[b] = calendar[b]
        BY <2>2, <2>4, <3>2
      <4> QED
        BY <2>8, <3>1, <4>1
    <3>3. CASE b = a /\ r.month # 0
      <4>1. calendar'[a] = Put(calendar[a], Month(r.day), r.month)
        BY <2>2, <3>3, <1>2 DEF TableShape
      <4>2. DOMAIN calendar'[a] = DOMAIN calendar[a] \cup {Month(r.day)}
        BY <4>1, PutShape
      <4>3. CASE m = Month(r.day)
        <5>1. calendar'[b][m] = r.month
          BY <3>3, <4>1, <4>3, PutAt
        <5>2. r.month \in Nat /\ r.month <= LogWith(r, logs[a])
          BY <2>2, <2>6, <2>8, <4>3 DEF Closing, Resolved
        <5>3. LogWith(r, logs[a]) = DeltaSum(InMonth(logs'[b], m))
          BY <2>2, <2>4, <3>3, <4>3 DEF LogWith
        <5> QED
          BY <3>3, <5>1, <5>2, <5>3
      <4>4. CASE m # Month(r.day)
        <5>1. m \in DOMAIN calendar[a]
          BY <2>8, <3>3, <4>2, <4>4
        <5>2. calendar'[a][m] = calendar[a][m]
          BY <4>1, <4>4, <5>1, PutAt
        <5> QED
          BY <3>1, <3>3, <5>1, <5>2
      <4> QED
        BY <4>3, <4>4
    <3> QED
      BY <3>2, <3>3
  <2>9. ASSUME NEW b \in Account, NEW q \in Proc, Closing(q, b)'
        PROVE  Resolved(sync[q], logs[b])'
    <3>1. PICK s, t : s = sync[q] /\ t = sync'[q]
      OBVIOUS
    <3>2. /\ s.pc = "commit" /\ s.acct = b /\ t.day = s.day /\ t.month = s.month
          /\ t.delta = s.delta /\ Entry(t, t.delta) = Entry(s, s.delta) /\ (t.alone => s.alone)
      BY <1>2, <2>9, <3>1 DEF Closing, CommitsCalm, StaysAlone, Entry
    <3>3. Resolved(s, logs[b])
      BY <2>6, <3>1, <3>2 DEF Closing
    <3>4. q # p
      <4>1. sync'[p].pc \in {"idle", "fetch"}
        BY <1>1, <2>2, TimeType, ProceedBooks DEF BooksInv, BookShape, SealInv, SyncCommit
      <4> QED
        BY <2>9, <4>1 DEF Closing
    <3>5. CASE b # a
      <4>1. LogWith(t, logs'[b]) = LogWith(s, logs[b])
        BY <2>4, <3>2, <3>5 DEF LogWith
      <4> QED
        BY <1>1, <3>1, <3>2, <3>3, <4>1 DEF Resolved, LogWith, Counts, Whole
    <3>6. CASE b = a
      <4>1. ~s.alone
        <5>1. a \in Under(p) /\ a \in Under(q)
          BY <2>2, <3>1, <3>2, <3>6 DEF Under
        <5> QED
          BY <3>1, <3>4, <5>1 DEF MendInv, AloneApart
      <4>2. PICK other : other = Entry(s, s.delta)
        OBVIOUS
      <4>3. other.delta \in Nat /\ other.day \in Int
        BY <1>2, <3>1, <3>2, <4>2 DEF Entry, TableShape, BooksInv, BookShape, SyncSound, Sound, Timed
      <4>4. PICK rows : rows = logs[a] \cup {other}
        OBVIOUS
      <4>5. IsFiniteSet(rows) /\ \A l \in rows : l.delta \in Nat
        <5>1. IsFiniteSet(rows)
          BY <2>5, <4>4, FS_AddElement
        <5>2. \A l \in rows : l \in logs[a] \/ l = other
          BY <4>4
        <5> QED
          BY <2>5, <4>3, <5>1, <5>2
      <4>6. logs'[b] \cup {other} = rows \cup {own}
        BY <2>4, <3>6, <4>4
      <4>7. PICK m : m = Month(s.day)
        OBVIOUS
      <4>8. /\ DeltaSum(InMonth(rows, m)) \in Nat /\ DeltaSum(InMonth(rows \cup {own}, m)) \in Nat
            /\ DeltaSum(InMonth(rows, m)) <= DeltaSum(InMonth(rows \cup {own}, m))
        BY <2>3, <4>5, MonthSumGrows
      <4>9. /\ LogWith(s, logs[b]) = DeltaSum(InMonth(rows, m))
            /\ LogWith(t, logs'[b]) = DeltaSum(InMonth(rows \cup {own}, m))
        BY <3>2, <3>6, <4>2, <4>4, <4>6, <4>7 DEF LogWith
      <4>10. Counts(m) => s.month \in Nat /\ s.month <= DeltaSum(InMonth(rows, m))
        BY <3>3, <4>7, <4>9 DEF Resolved
      <4>11. Counts(m) => t.month \in Nat /\ t.month <= LogWith(t, logs'[b])
        BY <3>2, <4>8, <4>9, <4>10
      <4>12. ~t.alone /\ Month(t.day) = m
        BY <3>2, <4>1, <4>7
      <4>13. Counts(m)' = Counts(m)
        BY <1>1 DEF Counts, Whole
      <4> QED
        BY <3>1, <4>11, <4>12, <4>13 DEF Resolved, LogWith, Counts, Whole
    <3> QED
      BY <3>5, <3>6
  <2>10. \A m : Counts(m)' = Counts(m)
    BY <1>1 DEF Counts, Whole
  <2>11. \A b \in Account : BorneOut(b)'
    BY <2>8, <2>10 DEF BorneOut
  <2> QED
    BY <2>9, <2>11 DEF Mending
<1> QED
  BY <1>3, <1>4

LEMMA CleanupMend ==
  ASSUME BooksInv, AgreeInv, MendInv, cleanup_cursor_usage_history
  PROVE  \A a \in Account : Mending(a)'
<1>1. /\ UNCHANGED today /\ UNCHANGED sync
      /\ logs' = [a \in Account |-> {l \in logs[a] : l.day >= today - LogDays}]
      /\ \A a \in Account : \E K : calendar'[a] = Keep(calendar[a], K)
  BY DEF cleanup_cursor_usage_history
<1> SUFFICES ASSUME NEW a \in Account PROVE Mending(a)'
  OBVIOUS
<1>2. BorneOut(a) /\ \A p \in Proc : Closing(p, a) => Resolved(sync[p], logs[a])
  BY DEF MendInv, Mending
<1>3. logs'[a] = {l \in logs[a] : Whole(l.day)} /\ \A l \in logs[a] : l.day \in Int
  BY <1>1 DEF Whole, BooksInv, BookShape, LogShape, Row
<1>4. ASSUME NEW m \in Int, Whole(MonthStart(m))
      PROVE  \A own : InMonth(logs'[a] \cup {own}, m) = InMonth(logs[a] \cup {own}, m)
                      /\ InMonth(logs'[a], m) = InMonth(logs[a], m)
  <2>1. ASSUME NEW l \in logs[a], Month(l.day) = m PROVE Whole(l.day)
    <3>1. MonthStart(m) <= l.day /\ MonthStart(m) \in Int /\ l.day \in Int
      BY <1>3, <2>1, MonthBegins, MetricsAssumption DEF MonthStart
    <3>2. \A x, y, z \in Int : x <= y /\ x >= z => y >= z
      OBVIOUS
    <3>3. today - LogDays \in Int
      BY TimeType, LedgerAssumption DEF BooksInv
    <3> QED
      BY <1>4, <3>1, <3>2, <3>3 DEF Whole
  <2> QED
    BY <1>3, <2>1 DEF InMonth
<1>5. PICK K : calendar'[a] = Keep(calendar[a], K)
  BY <1>1
<1>6. \A m \in DOMAIN calendar'[a] : m \in DOMAIN calendar[a] /\ calendar'[a][m] = calendar[a][m]
  <2>1. DOMAIN calendar'[a] = DOMAIN calendar[a] \cap K
    BY <1>5, KeepShape
  <2> QED
    BY <1>5, <2>1, KeepAt
<1>7. \A m : Counts(m)' = Counts(m)
  BY <1>1 DEF Counts, Whole
<1>8. BorneOut(a)'
  <2>1. DOMAIN calendar[a] \subseteq Int
    BY DEF AgreeInv, TableShape
  <2>2. ASSUME NEW m \in DOMAIN calendar'[a], Counts(m)
        PROVE  /\ calendar'[a][m] \in Nat /\ calendar'[a][m] > 0
               /\ calendar'[a][m] <= DeltaSum(InMonth(logs'[a], m))
    <3>1. m \in Int /\ InMonth(logs'[a], m) = InMonth(logs[a], m)
      BY <1>4, <1>6, <2>1, <2>2 DEF Counts
    <3> QED
      BY <1>2, <1>6, <2>2, <3>1 DEF BorneOut
  <2> QED
    BY <1>7, <2>2 DEF BorneOut
<1>9. ASSUME NEW p \in Proc, Closing(p, a)' PROVE Resolved(sync[p], logs[a])'
  <2>1. PICK r : r = sync[p] /\ r = sync'[p]
    BY <1>1
  <2>2. Resolved(r, logs[a]) /\ r.pc = "commit"
    BY <1>2, <1>9, <2>1 DEF Closing
  <2>3. r.day \in Int /\ Month(r.day) \in Int
    <3>1. Sound(sync[p])
      BY DEF BooksInv, BookShape, SyncSound
    <3>2. Sound(r) /\ r.pc = "commit"
      BY <2>1, <2>2, <3>1
    <3>3. r.day \in Int
      BY <3>2 DEF Sound, Timed
    <3> QED
      BY <3>3, MonthBegins
  <2>4. Counts(Month(r.day)) => LogWith(r, logs'[a]) = LogWith(r, logs[a])
    BY <1>4, <2>3 DEF Counts, LogWith
  <2>5. Counts(Month(r.day))' => /\ r.month \in Nat /\ r.month <= LogWith(r, logs'[a])
                                 /\ r.alone => r.month = LogWith(r, logs'[a])
    BY <1>7, <2>2, <2>4 DEF Resolved
  <2> QED
    BY <2>1, <2>5 DEF Resolved, LogWith
<1> QED
  BY <1>8, <1>9 DEF Mending

LEMMA InitMend == Init => MendInv
<1> SUFFICES ASSUME Init PROVE MendInv
  OBVIOUS
<1>1. \A p \in Proc : sync[p].pc = "idle" /\ Under(p) = {}
  BY DEF Init, Idle, Under
<1>2. \A a \in Account : DOMAIN calendar[a] = {}
  BY DEF Init
<1> QED
  BY <1>1, <1>2 DEF MendInv, AloneApart, Mending, BorneOut, Closing

LEMMA StepMend ==
  ASSUME SealInv, BooksInv, AgreeInv, MendInv, "repair" \notin Env, [Next]_vars
  PROVE  MendInv'
<1>1. AloneApart' /\ StaysAlone
  BY StepAlone DEF SealInv, BooksInv, BookShape, TimeShape, MendInv
<1>2. \A a \in Account : ~repair_calendar_token_deltas(a)
  BY DEF repair_calendar_token_deltas
<1>3. CASE Books
  BY <1>1, <1>2, <1>3, RecordMend, CommitMend, CleanupMend DEF Books, MendInv
<1>4. CASE ~Books
  BY <1>1, <1>4, OthersStand, MendStays DEF MendInv
<1> QED
  BY <1>3, <1>4

\* What a commit leaves behind, if the sync has run alone.
LEMMA CommitMends ==
  ASSUME SealInv, BooksInv, AgreeInv, MendInv, NEW p \in Proc, SyncCommit(p), sync[p].alone,
         NEW a, a = sync[p].acct, NEW m, m = Month(sync[p].day),
         logs'[a] # logs[a], m \in DOMAIN calendar'[a], Counts(m)
  PROVE  calendar'[a][m] = DeltaSum(InMonth(logs'[a], m))
<1>1. TableShape /\ ~(UNCHANGED <<logs, daily, calendar, counted>>)
  BY DEF AgreeInv
<1>2. PICK delta \in Nat : \E r, own :
           /\ r = sync[p] /\ r.pc = "commit" /\ r.acct \in Account /\ r.delta = delta
           /\ r.day \in Nat /\ own = Entry(r, delta)
           /\ logs' = [logs EXCEPT ![a] = logs[a] \cup {own}]
           /\ calendar' = IF r.month = 0 THEN calendar
                          ELSE [calendar EXCEPT ![a] = Put(calendar[a], Month(r.day), r.month)]
  BY <1>1, CommitWrites
<1>3. PICK r, own :
           /\ r = sync[p] /\ r.pc = "commit" /\ r.acct \in Account /\ r.delta = delta
           /\ r.day \in Nat /\ own = Entry(r, delta)
           /\ logs' = [logs EXCEPT ![a] = logs[a] \cup {own}]
           /\ calendar' = IF r.month = 0 THEN calendar
                          ELSE [calendar EXCEPT ![a] = Put(calendar[a], Month(r.day), r.month)]
  BY <1>2
<1>4. a \in Account /\ logs'[a] = logs[a] \cup {own}
  BY <1>3 DEF BooksInv, BookShape, LogShape
<1>5. r.month = DeltaSum(InMonth(logs'[a], m)) /\ BorneOut(a)
  <2>1. Resolved(r, logs[a]) /\ BorneOut(a)
    BY <1>3, <1>4 DEF MendInv, Mending, Closing
  <2> QED
    BY <1>3, <1>4, <2>1 DEF Resolved, LogWith
<1>6. CASE r.month # 0
  <2>1. calendar'[a] = Put(calendar[a], m, r.month)
    BY <1>3, <1>4, <1>6 DEF AgreeInv, TableShape
  <2> QED
    BY <1>5, <2>1, PutAt
<1>7. CASE r.month = 0
  <2>1. m \in DOMAIN calendar[a]
    BY <1>3, <1>7
  <2>2. /\ calendar[a][m] \in Nat /\ calendar[a][m] > 0
        /\ calendar[a][m] <= DeltaSum(InMonth(logs[a], m))
    BY <1>5, <2>1 DEF BorneOut
  <2>3. DeltaSum(InMonth(logs[a], m)) \in Nat
        /\ DeltaSum(InMonth(logs[a], m)) <= DeltaSum(InMonth(logs'[a], m))
    <3>1. own.delta \in Nat /\ own.day \in Int
      BY <1>3 DEF Entry
    <3>2. IsFiniteSet(logs[a]) /\ \A l \in logs[a] : l.delta \in Nat
      BY <1>1, <1>4 DEF TableShape
    <3> QED
      BY <1>4, <3>1, <3>2, MonthSumGrows
  <2> QED
    BY <1>5, <1>7, <2>2, <2>3
<1> QED
  BY <1>6, <1>7

\* What overlapping syncs did to a calendar month does not outlast the next sync
\* that runs alone (resolve_calendar_month makes the row anew of the log, and
\* _record_token_sync writes it in the transaction that logs the sync): for any
\* accounts, processes and disturbances, but that no repair comes in between. A
\* repair may bring a month down to nothing while a sync holds its old figure,
\* and the later syncs, which resolve nothing, leave what that one wrote.
THEOREM MonthsAreMended ==
  ASSUME "repair" \notin Env
  PROVE  Spec => MonthIsMended
<1>1. Init => SealInv /\ BooksInv /\ AgreeInv /\ MendInv
  BY InitSeal, InitBooks, InitAgree, InitMend
<1>2. SealInv /\ BooksInv /\ AgreeInv /\ MendInv /\ [Next]_vars
        => SealInv' /\ BooksInv' /\ AgreeInv' /\ MendInv'
  BY AllStep, StepMend
<1> DEFINE Mended == \A p \in Proc :
         LET a == sync[p].acct
             m == Month(sync[p].day)
         IN  /\ sync[p].pc = "commit" /\ sync'[p].pc # "commit" /\ sync[p].alone
             /\ logs'[a] # logs[a] /\ m \in DOMAIN calendar'[a]
             /\ m # Month(Created) /\ MonthStart(m) >= today - LogDays
             => calendar'[a][m] = _incremental_month_tokens(logs'[a], m)
<1>3. SealInv /\ BooksInv /\ AgreeInv /\ MendInv /\ [Next]_vars => Mended
  <2> SUFFICES ASSUME SealInv, BooksInv, AgreeInv, MendInv, [Next]_vars, NEW p \in Proc,
                      NEW a, a = sync[p].acct, NEW m, m = Month(sync[p].day),
                      sync[p].pc = "commit", sync'[p].pc # "commit", sync[p].alone,
                      logs'[a] # logs[a], m \in DOMAIN calendar'[a],
                      m # Month(Created), MonthStart(m) >= today - LogDays
               PROVE  calendar'[a][m] = DeltaSum(InMonth(logs'[a], m))
    BY DEF _incremental_month_tokens, InMonth
  <2>1. \A b \in Account : ~repair_calendar_token_deltas(b)
    BY DEF repair_calendar_token_deltas
  <2>2. ~(UNCHANGED logs) /\ ~(UNCHANGED sync)
    OBVIOUS
  <2>3. Books
    BY <2>2, OthersStand DEF TablesStand
  <2>4. ~cleanup_cursor_usage_history /\ \A q \in Proc : ~SyncRecord(q)
    BY <2>2 DEF cleanup_cursor_usage_history, SyncRecord, tables
  <2>5. PICK q \in Proc : SyncCommit(q)
    BY <2>1, <2>3, <2>4 DEF Books
  <2>6. q = p
    <3>1. sync[q].pc = "commit" /\ Proceed(q)
      BY <2>5 DEF SyncCommit
    <3>2. PICK r : sync' = [sync EXCEPT ![q] = r]
      BY <3>1 DEF Proceed
    <3> QED
      BY <3>2 DEF SealInv, SyncShape
  <2> QED
    BY <2>5, <2>6, CommitMends DEF Counts, Whole
<1>4. MonthIsMended <=> [][Mended]_vars
  BY DEF MonthIsMended
<1> HIDE DEF Mended
<1> QED
  BY <1>1, <1>2, <1>3, <1>4, PTL DEF Spec

-----------------------------------------------------------------------------
\* Type correctness of all the variables, the locals of the syncs among them.
\* It rests on two counts: no account spends more than MaxUsed, by all that was
\* spent, and the syncs that took their time and those yet to take it are not
\* more than MaxSyncs.

\* What the syncs of a process have still to take, and their sum, for any
\* locals s of the processes.
Owed(r) == Cardinality(r.todo) + (IF r.pc \in {"fetch", "seal"} THEN 1 ELSE 0)
Owing(s) == [p \in Proc |-> Owed(s[p])]
DueOf(s) == TotalOf(Proc, LAMBDA p : Cardinality(s[p].todo)
                                     + (IF s[p].pc \in {"fetch", "seal"} THEN 1 ELSE 0))

IsDueSum(g, s) ==
    g = [t \in SUBSET Proc |-> IF t = {} THEN 0
            ELSE (Cardinality(s[Some(t)].todo)
                    + (IF s[Some(t)].pc \in {"fetch", "seal"} THEN 1 ELSE 0)) + g[t \ {Some(t)}]]

LEMMA DueChosen == \A s : DueOf(s) = (CHOOSE g : IsDueSum(g, s))[Proc]
  BY DEF DueOf, TotalOf, MapThenSumSet, MapThenFoldSet, IsDueSum, Some

LEMMA DueIsSum ==
  ASSUME IsFiniteSet(Proc), NEW s
  PROVE  DueOf(s) = SumOf(Proc, Owing(s))
<1>1. \A t \in SUBSET Proc : t # {} =>
        Owing(s)[Some(t)] = Cardinality(s[Some(t)].todo)
                              + (IF s[Some(t)].pc \in {"fetch", "seal"} THEN 1 ELSE 0)
  BY SomeIn DEF Owing, Owed
<1>2. \A g : IsDueSum(g, s) <=> IsSum(g, Proc, Owing(s))
  BY <1>1 DEF IsDueSum, IsSum
<1> DEFINE g == CHOOSE f : IsDueSum(f, s)
           h == CHOOSE f : IsSum(f, Proc, Owing(s))
<1>3. \E f : IsSum(f, Proc, Owing(s))
  BY SumExists
<1>4. IsDueSum(g, s)
  BY <1>2, <1>3
<1>5. IsSum(h, Proc, Owing(s))
  BY <1>3
<1>6. DueOf(s) = g[Proc] /\ SumOf(Proc, Owing(s)) = h[Proc]
  BY DueChosen, SumChosen
<1> HIDE DEF g, h
<1>7. IsSum(g, Proc, Owing(s))
  BY <1>2, <1>4
<1> QED
  BY <1>5, <1>6, <1>7, SumsAgree

LEMMA DueNow == Due = DueOf(sync) /\ Due' = DueOf(sync')
  BY DEF Due, DueOf, TotalOf, MapThenSumSet, MapThenFoldSet

\* All that was spent.
Spendings(w) == [b \in Account |-> SumOf(Start, w[b])]
AllSpent(w) == TotalOf(Account, LAMBDA b : TotalOf(Start, LAMBDA s : w[b][s]))

IsSpentSum(g, w) ==
    g = [t \in SUBSET Account |-> IF t = {} THEN 0
            ELSE SumOf(Start, w[Some(t)]) + g[t \ {Some(t)}]]

LEMMA SpentChosen == \A w : AllSpent(w) = (CHOOSE g : IsSpentSum(g, w))[Account]
  BY DEF AllSpent, SumOf, TotalOf, MapThenSumSet, MapThenFoldSet, IsSpentSum, Some

LEMMA SpentIsSum ==
  ASSUME IsFiniteSet(Account), NEW w
  PROVE  AllSpent(w) = SumOf(Account, Spendings(w))
<1>1. \A t \in SUBSET Account : t # {} => Spendings(w)[Some(t)] = SumOf(Start, w[Some(t)])
  BY SomeIn DEF Spendings
<1>2. \A g : IsSpentSum(g, w) <=> IsSum(g, Account, Spendings(w))
  BY <1>1 DEF IsSpentSum, IsSum
<1> DEFINE g == CHOOSE f : IsSpentSum(f, w)
           h == CHOOSE f : IsSum(f, Account, Spendings(w))
<1>3. \E f : IsSum(f, Account, Spendings(w))
  BY SumExists
<1>4. IsSpentSum(g, w)
  BY <1>2, <1>3
<1>5. IsSum(h, Account, Spendings(w))
  BY <1>3
<1>6. AllSpent(w) = g[Account] /\ SumOf(Account, Spendings(w)) = h[Account]
  BY SpentChosen, SumChosen
<1> HIDE DEF g, h
<1>7. IsSum(g, Account, Spendings(w))
  BY <1>2, <1>4
<1> QED
  BY <1>5, <1>6, <1>7, SumsAgree

\* In no cycle is more spent than in all of them.
LEMMA SpentWithin ==
  ASSUME IsFiniteSet(Account), spent \in [Account -> [Start -> Nat]],
         NEW a \in Account, NEW s \in Start
  PROVE  /\ AllSpent(spent) \in Nat
         /\ spent[a][s] <= AllSpent(spent)
<1>1. \A b \in Account : \A t \in Start : spent[b][t] \in Nat
  OBVIOUS
<1>2. \A b \in Account : /\ SumOf(Start, spent[b]) \in Nat
                         /\ \A t \in Start : spent[b][t] <= SumOf(Start, spent[b])
  BY <1>1, StartFinite, SumNat
<1>3. \A b \in Account : Spendings(spent)[b] = SumOf(Start, spent[b])
  BY DEF Spendings
<1>4. /\ SumOf(Account, Spendings(spent)) \in Nat
      /\ Spendings(spent)[a] <= SumOf(Account, Spendings(spent))
  <2>1. \A b \in Account : Spendings(spent)[b] \in Nat
    BY <1>2, <1>3
  <2> QED
    BY <2>1, SumNat
<1>5. AllSpent(spent) = SumOf(Account, Spendings(spent))
  BY SpentIsSum
<1>6. /\ spent[a][s] <= SumOf(Start, spent[a]) /\ spent[a][s] \in Nat
      /\ SumOf(Start, spent[a]) \in Nat
      /\ SumOf(Start, spent[a]) <= SumOf(Account, Spendings(spent))
  BY <1>1, <1>2, <1>3, <1>4
<1> QED
  BY <1>4, <1>5, <1>6

\* The least and the greatest of two numbers.
LEMMA MinOfTwo == \A x, y \in Int : /\ Min({x, y}) \in {x, y}
                                    /\ Min({x, y}) <= x /\ Min({x, y}) <= y
<1> TAKE x, y \in Int
<1>1. \E m \in {x, y} : \A k \in {x, y} : m <= k
  BY SMT
<1>2. PICK m \in {x, y} : m = Min({x, y}) /\ \A k \in {x, y} : m <= k
  BY <1>1 DEF Min
<1> QED
  BY <1>2

LEMMA MaxOfTwo == \A x, y \in Int : /\ Max({x, y}) \in {x, y}
                                    /\ Max({x, y}) >= x /\ Max({x, y}) >= y
<1> TAKE x, y \in Int
<1>1. \E m \in {x, y} : \A k \in {x, y} : m >= k
  BY SMT
<1>2. PICK m \in {x, y} : m = Max({x, y}) /\ \A k \in {x, y} : m >= k
  BY <1>1 DEF Max
<1> QED
  BY <1>2

LEMMA DivNat == \A x \in Nat : \A n \in Nat \ {0} : x \div n \in Nat
  OBVIOUS

LEMMA PercentIn == \A used \in Nat : Percent(used) \in 0..100
<1> TAKE used \in Nat
<1> DEFINE n == (100 * used) \div Plan
<1>1. n \in Nat
  BY LedgerAssumption, DivNat
<1> HIDE DEF n
<1>2. Min({100, n}) \in {100, n} /\ Min({100, n}) <= 100
  BY <1>1, MinOfTwo
<1>3. Percent(used) = Min({100, n})
  BY DEF Percent, n
<1> QED
  BY <1>1, <1>2, <1>3

LEMMA MonthIn == \A day \in Day : Month(day) \in 0..MaxDay /\ Month(day) \in Nat
<1> TAKE day \in Day
<1>1. day \in Nat /\ day <= MaxDay /\ MaxDay \in Nat /\ MonthDays \in Nat \ {0}
  BY LedgerAssumption, MetricsAssumption DEF Day
<1>2. day \div MonthDays \in Nat /\ day \div MonthDays <= day
  BY <1>1
<1> QED
  BY <1>1, <1>2 DEF Month

\* An increment is never more than the total it is taken of.
LEMMA DeltaWithin ==
  ASSUME NEW prev, NEW cycle, NEW total \in Tokens, prev # None => prev.total \in Tokens
  PROVE  compute_sync_delta(prev, cycle, total) \in Tokens
  BY LedgerAssumption DEF compute_sync_delta, Tokens

LEMMA ProrateNat ==
  ASSUME NEW total \in Nat, NEW start \in Int, NEW month \in Nat, NEW now \in Int
  PROVE  _prorate_first_month(total, start, month, now) \in Nat
<1> DEFINE end == Min({now, MonthStart(month + 1) - 1})
           first == Max({start, MonthStart(month)})
           elapsed == end - start + 1
           over == end - first + 1
<1>1. MonthStart(month) \in Int /\ MonthStart(month + 1) \in Int
  BY MetricsAssumption DEF MonthStart
<1>2. end \in Int
  <2>1. MonthStart(month + 1) - 1 \in Int
    BY <1>1
  <2> QED
    BY <2>1, MinOfTwo
<1>3. first \in Int
  BY <1>1, MaxOfTwo
<1> HIDE DEF end, first
<1>4. elapsed \in Int /\ over \in Int
  BY <1>2, <1>3
<1>5. _prorate_first_month(total, start, month, now)
        = IF elapsed <= 0 THEN total ELSE IF over <= 0 THEN 0 ELSE (total * over) \div elapsed
  BY DEF _prorate_first_month, end, first
<1> HIDE DEF elapsed, over
<1>6. CASE elapsed <= 0
  BY <1>5, <1>6
<1>7. CASE ~(elapsed <= 0) /\ over <= 0
  BY <1>5, <1>7
<1>8. CASE ~(elapsed <= 0) /\ ~(over <= 0)
  <2>1. elapsed \in Nat \ {0} /\ over \in Nat
    BY <1>4, <1>8
  <2>2. total * over \in Nat
    BY <2>1
  <2> QED
    BY <1>5, <1>8, <2>1, <2>2, DivNat
<1> QED
  BY <1>6, <1>7, <1>8

LEMMA ResolveNat ==
  ASSUME NEW u, u # None => u.total \in Nat /\ u.start \in Int,
         NEW month \in Nat, NEW rows, IsFiniteSet(rows), \A l \in rows : l.delta \in Nat,
         NEW created, NEW now \in Int
  PROVE  resolve_calendar_month(u, month, rows, created, now) \in Nat
<1>1. _incremental_month_tokens(rows, month) \in Nat
  <2>1. IsFiniteSet({l \in rows : Month(l.day) = month})
    BY FS_Subset
  <2> QED
    BY <2>1, DeltaNat DEF _incremental_month_tokens
<1>2. u # None => _prorate_first_month(u.total, u.start, month, now) \in Nat
  BY ProrateNat
<1> QED
  BY <1>1, <1>2 DEF resolve_calendar_month

-----------------------------------------------------------------------------
\* What a sync has read, and taken, by the step it is at.
Phase(r) ==
    /\ r.pc # "idle" => r.acct \in Account
    /\ r.pc \in Read => r.new \in Snapshot
    /\ r.pc \in Timed => r.at >= 1

WorldIn ==
    /\ today \in Day
    /\ remote \in [Account -> Remote]
    /\ spent \in [Account -> [Start -> Nat]]
    /\ \A a \in Account : remote[a].used <= spent[a][remote[a].start]

AccountsIn ==
    /\ usage \in [Account -> Snapshot \cup {None}]
    /\ bound \subseteq Account
    /\ counted \in [Account -> Nat]
    /\ overlap \in [Account -> BOOLEAN]

LogsIn ==
    /\ DOMAIN logs = Account
    /\ \A a \in Account : IsFiniteSet(logs[a]) /\ logs[a] \subseteq LogRow
RowsIn ==
    /\ DOMAIN daily = Account /\ DOMAIN calendar = Account
    /\ \A a \in Account : IsRows(daily[a], Day, Nat) /\ IsRows(calendar[a], 0..MaxDay, Nat)
CyclesIn ==
    /\ DOMAIN cycles = Account
    /\ \A a \in Account : IsRows(cycles[a], Start, CycleRow)

SyncsIn == sync \in [Proc -> Sync] /\ \A p \in Proc : Phase(sync[p])
TimesIn == stamp \in Nat /\ stamp + Due <= MaxSyncs

TypeInv == WorldIn /\ AccountsIn /\ LogsIn /\ RowsIn /\ CyclesIn /\ SyncsIn /\ TimesIn

LEMMA OwedType ==
  ASSUME IsFiniteSet(Account), NEW r \in Sync
  PROVE  /\ Owed(r) \in Nat
         /\ IsFiniteSet(r.todo) /\ Cardinality(r.todo) \in Nat /\ Cardinality(r.todo) <= Owed(r)
<1>1. r.todo \subseteq Account
  BY DEF Sync
<1>2. IsFiniteSet(r.todo)
  BY <1>1, FS_Subset
<1>3. Cardinality(r.todo) \in Nat
  BY <1>2, FS_CardinalityType
<1> QED
  BY <1>2, <1>3 DEF Owed

LEMMA DueType ==
  ASSUME IsFiniteSet(Account), IsFiniteSet(Proc), SyncsIn
  PROVE  Due \in Nat /\ \A p \in Proc : Owed(sync[p]) \in Nat /\ Owed(sync[p]) <= Due
<1>1. \A p \in Proc : Owed(sync[p]) \in Nat
  BY OwedType DEF SyncsIn
<1>2. \A p \in Proc : Owing(sync)[p] = Owed(sync[p])
  BY DEF Owing
<1>3. Due = SumOf(Proc, Owing(sync))
  BY DueNow, DueIsSum
<1>4. \A p \in Proc : Owing(sync)[p] \in Nat
  BY <1>1, <1>2
<1> QED
  BY <1>1, <1>2, <1>3, <1>4, SumNat

LEMMA InvTypes ==
  IsFiniteSet(Account) /\ IsFiniteSet(Proc) /\ TypeInv => TypeOK
<1> SUFFICES ASSUME IsFiniteSet(Account), IsFiniteSet(Proc), TypeInv PROVE TypeOK
  OBVIOUS
<1>1. stamp \in 0..MaxSyncs
  BY DueType, LedgerAssumption DEF TypeInv, TimesIn
<1> QED
  BY <1>1 DEF TypeInv, WorldIn, AccountsIn, LogsIn, RowsIn, CyclesIn, SyncsIn, TypeOK

\* The locals of one process become r.
LEMMA SyncsBecome ==
  ASSUME SyncsIn, NEW p \in Proc, NEW r \in Sync, Phase(r), sync' = [sync EXCEPT ![p] = r]
  PROVE  SyncsIn'
<1>1. sync' \in [Proc -> Sync]
  BY DEF SyncsIn
<1>2. \A q \in Proc : sync'[q] = IF q = p THEN r ELSE sync[q]
  BY DEF SyncsIn
<1>3. \A q \in Proc : Phase(sync'[q])
  BY <1>2 DEF SyncsIn
<1>4. \A q \in Proc : Phase(sync[q])'
  BY <1>3 DEF Phase
<1> QED
  BY <1>1, <1>4 DEF SyncsIn

\* One process owes another number than before.
LEMMA OwingBecomes ==
  ASSUME IsFiniteSet(Account), IsFiniteSet(Proc), NEW s \in [Proc -> Sync], NEW p \in Proc,
         NEW t, Owed(t[p]) \in Nat, \A q \in Proc \ {p} : Owed(t[q]) = Owed(s[q])
  PROVE  DueOf(t) = DueOf(s) + Owed(t[p]) - Owed(s[p])
<1> DEFINE f == Owing(s)
           g == Owing(t)
<1>1. \A q \in Proc : f[q] = Owed(s[q]) /\ Owed(s[q]) \in Nat
  BY OwedType DEF Owing
<1>2. \A q \in Proc : g[q] = Owed(t[q])
  BY DEF Owing
<1>3. DueOf(s) = SumOf(Proc, f) /\ DueOf(t) = SumOf(Proc, g)
  BY DueIsSum
<1> HIDE DEF f, g
<1>4. \A q \in Proc : f[q] \in Int
  BY <1>1
<1>5. g[p] = Owed(t[p]) /\ g[p] \in Int
  BY <1>2
<1>6. \A q \in Proc \ {p} : g[q] = f[q]
  BY <1>1, <1>2
<1>7. SumOf(Proc, g) = SumOf(Proc, f) + g[p] - f[p]
  BY <1>4, <1>5, <1>6, SumChange
<1> QED
  BY <1>1, <1>3, <1>5, <1>7

LEMMA DueBecomes ==
  ASSUME IsFiniteSet(Account), IsFiniteSet(Proc), SyncsIn, NEW p \in Proc, NEW r \in Sync,
         sync' = [sync EXCEPT ![p] = r]
  PROVE  /\ Due' = Due + Owed(r) - Owed(sync[p])
         /\ Due \in Nat /\ Owed(r) \in Nat /\ Owed(sync[p]) \in Nat
<1>1. sync \in [Proc -> Sync]
  BY DEF SyncsIn
<1>2. PICK t : t = [sync EXCEPT ![p] = r] /\ sync' = t
  OBVIOUS
<1>3. Owed(r) \in Nat
  BY OwedType
<1>4. t[p] = r /\ \A q \in Proc \ {p} : t[q] = sync[q]
  BY <1>1, <1>2
<1>5. DueOf(t) = DueOf(sync) + Owed(r) - Owed(sync[p])
  BY <1>1, <1>3, <1>4, OwingBecomes
<1> QED
  BY <1>2, <1>3, <1>5, DueNow, DueType

LEMMA IdleIn == Idle \in Sync /\ Phase(Idle) /\ Idle.pc = "idle" /\ Owed(Idle) = 0
<1>1. Idle \in Sync
  BY LedgerAssumption DEF Idle, Sync, Day, Tokens
<1>2. Idle.pc = "idle" /\ Idle.todo = {}
  BY DEF Idle
<1> QED
  BY <1>1, <1>2, FS_EmptySet DEF Phase, Read, Timed, Owed

LEMMA TakeUpIn ==
  ASSUME IsFiniteSet(Account), today \in Day, NEW todo, todo \subseteq Account, NEW a \in todo,
         NEW copy \in [Account -> Snapshot \cup {None}], NEW alone \in BOOLEAN
  PROVE  /\ TakeUp(a, todo, copy, alone) \in Sync /\ Phase(TakeUp(a, todo, copy, alone))
         /\ Owed(TakeUp(a, todo, copy, alone)) = Cardinality(todo)
<1> DEFINE r == TakeUp(a, todo, copy, alone)
<1>1. r \in Sync
  BY IdleIn DEF TakeUp, Sync
<1>2. r.pc = "fetch" /\ r.acct = a /\ r.todo = todo \ {a}
  BY DEF TakeUp, Idle
<1>3. IsFiniteSet(todo)
  BY FS_Subset
<1>4. Cardinality(todo \ {a}) = Cardinality(todo) - 1 /\ Cardinality(todo) \in Nat
  BY <1>3, FS_RemoveElement, FS_CardinalityType
<1> HIDE DEF r
<1>5. Owed(r) = Cardinality(todo)
  BY <1>2, <1>4 DEF Owed
<1>6. Phase(r)
  BY <1>2 DEF Phase, Read, Timed
<1> QED
  BY <1>1, <1>5, <1>6 DEF r

\* A process that is done with an account takes the next or goes idle, and has
\* no more to do than before.
LEMMA ProceedIn ==
  ASSUME IsFiniteSet(Account), IsFiniteSet(Proc), SyncsIn, today \in Day, NEW p \in Proc,
         Proceed(p)
  PROVE  SyncsIn' /\ Due' <= Due /\ Due \in Nat /\ Due' \in Int
<1> DEFINE r == sync[p]
<1>1. r \in Sync
  BY DEF SyncsIn
<1>2. PICK s \in Sync : Phase(s) /\ Owed(s) <= Owed(r) /\ sync' = [sync EXCEPT ![p] = s]
  <2>0. Owed(r) \in Nat /\ Cardinality(r.todo) \in Nat /\ Cardinality(r.todo) <= Owed(r)
    BY <1>1, OwedType
  <2>1. CASE r.todo = {}
    <3>1. sync' = [sync EXCEPT ![p] = Idle]
      BY <2>1 DEF Proceed
    <3>2. Owed(Idle) <= Owed(r)
      BY <2>0, IdleIn
    <3> HIDE DEF r
    <3> QED
      BY <3>1, <3>2, IdleIn
  <2>2. CASE r.todo # {}
    <3>1. PICK a \in r.todo : sync' = [sync EXCEPT ![p] = TakeUp(a, r.todo, r.copy, r.alone)]
      BY <2>2 DEF Proceed
    <3>2. /\ r.todo \subseteq Account /\ r.copy \in [Account -> Snapshot \cup {None}]
          /\ r.alone \in BOOLEAN
      BY <1>1 DEF Sync
    <3> HIDE DEF r
    <3> DEFINE s == TakeUp(a, r.todo, r.copy, r.alone)
    <3>3. s \in Sync /\ Phase(s) /\ Owed(s) = Cardinality(r.todo)
      BY <3>2, TakeUpIn
    <3> HIDE DEF s
    <3>4. Owed(s) <= Owed(r)
      BY <2>0, <3>3
    <3> QED
      BY <3>1, <3>3, <3>4 DEF s
  <2> QED
    BY <2>1, <2>2
<1> HIDE DEF r
<1>3. SyncsIn'
  BY <1>2, SyncsBecome
<1>4. Due' = Due + Owed(s) - Owed(sync[p]) /\ Due \in Nat /\ Owed(s) \in Nat /\ Owed(sync[p]) \in Nat
  BY <1>2, DueBecomes
<1> QED
  BY <1>2, <1>3, <1>4 DEF r

\* What a step leaves as it is stays of its type.
LEMMA TypesStand ==
  /\ WorldIn /\ UNCHANGED <<today, remote, spent>> => WorldIn'
  /\ AccountsIn /\ UNCHANGED <<usage, bound, counted, overlap>> => AccountsIn'
  /\ LogsIn /\ UNCHANGED logs => LogsIn'
  /\ RowsIn /\ UNCHANGED <<daily, calendar>> => RowsIn'
  /\ CyclesIn /\ UNCHANGED cycles => CyclesIn'
  /\ SyncsIn /\ UNCHANGED sync => SyncsIn'
  /\ TimesIn /\ UNCHANGED <<stamp, sync>> => TimesIn'
<1>1. WorldIn /\ UNCHANGED <<today, remote, spent>> => WorldIn'
  BY DEF WorldIn
<1>2. AccountsIn /\ UNCHANGED <<usage, bound, counted, overlap>> => AccountsIn'
  BY DEF AccountsIn
<1>3. LogsIn /\ UNCHANGED logs => LogsIn'
  BY DEF LogsIn
<1>4. RowsIn /\ UNCHANGED <<daily, calendar>> => RowsIn'
  BY DEF RowsIn
<1>5. CyclesIn /\ UNCHANGED cycles => CyclesIn'
  BY DEF CyclesIn
<1>6. SyncsIn /\ UNCHANGED sync => SyncsIn'
  BY DEF SyncsIn, Phase
<1>7. TimesIn /\ UNCHANGED <<stamp, sync>> => TimesIn'
  BY DueNow DEF TimesIn
<1> QED
  BY <1>1, <1>2, <1>3, <1>4, <1>5, <1>6, <1>7

BooksIn == LogsIn /\ RowsIn /\ CyclesIn

LEMMA BooksStand == BooksIn /\ UNCHANGED tables => BooksIn'
  BY TypesStand DEF BooksIn, tables

\* The accounts and the processes are finitely many from here on.
Finite == IsFiniteSet(Account) /\ IsFiniteSet(Proc)

LEMMA NextDayTypes == TypeInv /\ NextDay => TypeInv'
<1> SUFFICES ASSUME TypeInv, NextDay PROVE TypeInv'
  OBVIOUS
<1>1. WorldIn'
  BY LedgerAssumption DEF TypeInv, WorldIn, NextDay, Day, ghosts
<1>2. BooksIn'
  BY BooksStand DEF TypeInv, BooksIn, NextDay
<1> QED
  BY <1>1, <1>2, TypesStand DEF TypeInv, NextDay, ghosts, BooksIn

LEMMA SpendTypes == Finite /\ TypeInv => \A a \in Account : Spend(a) => TypeInv'
<1> SUFFICES ASSUME Finite, TypeInv, NEW a \in Account, Spend(a) PROVE TypeInv'
  OBVIOUS
<1> DEFINE r == remote[a]
<1>1. /\ r \in Remote /\ r.used \in Nat /\ r.shown \in Nat /\ r.start \in Start
      /\ r.used <= spent[a][r.start] /\ spent \in [Account -> [Start -> Nat]]
  BY LedgerAssumption DEF TypeInv, WorldIn, Remote, Tokens
<1>2. AllSpent(spent) < MaxUsed /\ MaxUsed \in Nat
  BY LedgerAssumption DEF Spend, AllSpent
<1>3. spent[a][r.start] <= AllSpent(spent) /\ AllSpent(spent) \in Nat /\ spent[a][r.start] \in Nat
  BY <1>1, SpentWithin DEF Finite
<1>4. r.used + 1 \in Tokens /\ r.used < MaxUsed
  BY <1>1, <1>2, <1>3 DEF Tokens
<1>5. PICK s : /\ s = [r EXCEPT !.used = @ + 1, !.shown = IF @ = r.used THEN @ + 1 ELSE @]
               /\ remote' = [remote EXCEPT ![a] = s]
  BY DEF Spend
<1>6. s \in Remote /\ s.used = r.used + 1 /\ s.start = r.start
  <2>1. (IF r.shown = r.used THEN r.shown + 1 ELSE r.shown) \in Tokens
    BY <1>1, <1>4 DEF Remote
  <2> QED
    BY <1>1, <1>4, <1>5, <2>1 DEF Remote
<1>7. spent' = [spent EXCEPT ![a][r.start] = @ + 1]
  BY DEF Spend
<1> HIDE DEF r
<1>8. WorldIn'
  <2>1. today' = today /\ today \in Day /\ remote \in [Account -> Remote]
        /\ \A b \in Account : remote[b].used <= spent[b][remote[b].start]
    BY DEF TypeInv, WorldIn, Spend
  <2>2. remote' \in [Account -> Remote]
    BY <1>5, <1>6, <2>1
  <2>3. spent' \in [Account -> [Start -> Nat]]
    BY <1>1, <1>7
  <2>4. ASSUME NEW b \in Account PROVE remote'[b].used <= spent'[b][remote'[b].start]
    <3>1. CASE b = a
      <4>1. remote'[a] = s
        BY <1>5, <2>1
      <4>2. spent'[a][r.start] = spent[a][r.start] + 1
        BY <1>1, <1>7
      <4>3. r.used + 1 <= spent[a][r.start] + 1
        BY <1>1, <1>3
      <4> QED
        BY <1>6, <3>1, <4>1, <4>2, <4>3
    <3>2. CASE b # a
      <4>1. remote'[b] = remote[b] /\ spent'[b] = spent[b]
        BY <1>1, <1>5, <1>7, <2>1, <3>2
      <4> QED
        BY <2>1, <4>1
    <3> QED
      BY <3>1, <3>2
  <2> QED
    BY <2>1, <2>2, <2>3, <2>4 DEF WorldIn
<1>9. BooksIn'
  BY BooksStand DEF TypeInv, BooksIn, Spend
<1> QED
  BY <1>8, <1>9, TypesStand DEF TypeInv, Spend, BooksIn

LEMMA NextCycleTypes == TypeInv => \A a \in Account : NextCycle(a) => TypeInv'
<1> SUFFICES ASSUME TypeInv, NEW a \in Account, NextCycle(a) PROVE TypeInv'
  OBVIOUS
<1>1. remote \in [Account -> Remote] /\ spent \in [Account -> [Start -> Nat]] /\ today \in Day
  BY DEF TypeInv, WorldIn
<1>2. EndOf(remote[a].start) \in Start
  <2>1. remote[a].start \in Start /\ EndOf(remote[a].start) <= today
    BY <1>1 DEF NextCycle, Remote
  <2>2. today \in Int /\ today <= MaxDay /\ MaxDay \in Int
    BY <1>1, LedgerAssumption DEF Day
  <2>3. remote[a].start \in Int
    <3>1. FirstStart \in Int /\ CycleDays \in Int
      BY LedgerAssumption, MetricsAssumption DEF FirstStart
    <3>2. \A k \in 0..(MaxDay + 1) : FirstStart + k * CycleDays \in Int
      BY <3>1
    <3> QED
      BY <2>1, <3>2 DEF Start
  <2>4. EndOf(remote[a].start) \in Int
    BY <2>3, MetricsAssumption DEF EndOf
  <2> QED
    BY <2>1, <2>2, <2>4, NextStart
<1>3. PICK shown \in Tokens :
        remote' = [remote EXCEPT ![a] =
                     [start |-> EndOf(remote[a].start), used |-> 0, shown |-> shown]]
  <2>1. remote[a].shown \in Tokens /\ 0 \in Tokens
    BY <1>1, LedgerAssumption DEF Remote, Tokens
  <2>2. PICK shown \in {0} \cup (IF "lag" \in Env THEN {remote[a].shown} ELSE {}) :
          remote' = [remote EXCEPT ![a] =
                       [start |-> EndOf(remote[a].start), used |-> 0, shown |-> shown]]
    BY DEF NextCycle
  <2>3. shown \in Tokens
    BY <2>1
  <2> QED
    BY <2>2, <2>3
<1>4. WorldIn'
  <2> DEFINE s == [start |-> EndOf(remote[a].start), used |-> 0, shown |-> shown]
  <2>1. s \in Remote /\ s.used = 0 /\ s.start \in Start
    BY <1>2, LedgerAssumption DEF Remote, Tokens
  <2> HIDE DEF s
  <2>2. remote' = [remote EXCEPT ![a] = s]
    BY <1>3 DEF s
  <2>3. remote' \in [Account -> Remote]
    BY <1>1, <2>1, <2>2
  <2>4. ASSUME NEW b \in Account PROVE remote'[b].used <= spent[b][remote'[b].start]
    <3>1. CASE b = a
      <4>1. remote'[b] = s
        BY <1>1, <2>2, <3>1
      <4>2. spent[b][s.start] \in Nat
        BY <1>1, <2>1
      <4>3. 0 <= spent[b][s.start]
        BY <4>2
      <4> QED
        BY <2>1, <4>1, <4>3
    <3>2. CASE b # a
      <4>1. remote'[b] = remote[b]
        BY <1>1, <2>2, <3>2
      <4> QED
        BY <4>1 DEF TypeInv, WorldIn
    <3> QED
      BY <3>1, <3>2
  <2> QED
    BY <1>1, <2>3, <2>4 DEF WorldIn, NextCycle, ghosts
<1>5. BooksIn'
  BY BooksStand DEF TypeInv, BooksIn, NextCycle
<1> QED
  BY <1>4, <1>5, TypesStand DEF TypeInv, NextCycle, ghosts, BooksIn

LEMMA CatchUpTypes == TypeInv => \A a \in Account : CatchUp(a) => TypeInv'
<1> SUFFICES ASSUME TypeInv, NEW a \in Account, CatchUp(a) PROVE TypeInv'
  OBVIOUS
<1>1. remote \in [Account -> Remote]
  BY DEF TypeInv, WorldIn
<1>2. PICK s : s = [remote[a] EXCEPT !.shown = remote[a].used] /\ remote' = [remote EXCEPT ![a] = s]
  BY DEF CatchUp
<1>3. s \in Remote /\ s.used = remote[a].used /\ s.start = remote[a].start
  <2>1. remote[a] \in Remote
    BY <1>1
  <2> QED
    BY <1>2, <2>1 DEF Remote
<1>4. WorldIn'
  <2>1. remote' \in [Account -> Remote]
    BY <1>1, <1>2, <1>3
  <2>2. \A b \in Account : remote'[b].used = remote[b].used /\ remote'[b].start = remote[b].start
    BY <1>1, <1>2, <1>3
  <2> QED
    BY <2>1, <2>2 DEF TypeInv, WorldIn, CatchUp, ghosts
<1>5. BooksIn'
  BY BooksStand DEF TypeInv, BooksIn, CatchUp
<1> QED
  BY <1>4, <1>5, TypesStand DEF TypeInv, CatchUp, ghosts, BooksIn

LEMMA PutRows ==
  ASSUME NEW f, NEW Key, NEW Cell, IsRows(f, Key, Cell), NEW k \in Key, NEW v \in Cell
  PROVE  IsRows(Put(f, k, v), Key, Cell)
  BY DEF IsRows, Put

LEMMA KeepRows ==
  ASSUME NEW f, NEW Key, NEW Cell, IsRows(f, Key, Cell), NEW K
  PROVE  IsRows(Keep(f, K), Key, Cell)
  BY DEF IsRows, Keep

\* The locals of a process that is in a sync.
LEMMA OwnLocals ==
  ASSUME Finite, TypeInv, NEW p \in Proc
  PROVE  /\ sync[p] \in Sync /\ Phase(sync[p]) /\ today \in Day
         /\ sync[p].pc # "idle" => sync[p].acct \in Account
         /\ SyncsIn /\ IsFiniteSet(Account) /\ IsFiniteSet(Proc)
  BY DEF TypeInv, SyncsIn, WorldIn, Phase, Finite

\* A step that takes its process on, and no time.
LEMMA GoesOn ==
  ASSUME Finite, TypeInv, NEW p \in Proc, NEW r \in Sync, Phase(r), Owed(r) <= Owed(sync[p]),
         sync' = [sync EXCEPT ![p] = r], stamp' = stamp
  PROVE  SyncsIn' /\ TimesIn'
<1>1. SyncsIn'
  BY OwnLocals, SyncsBecome
<1>2. Due' = Due + Owed(r) - Owed(sync[p]) /\ Due \in Nat /\ Owed(r) \in Nat /\ Owed(sync[p]) \in Nat
  BY OwnLocals, DueBecomes
<1>3. stamp + Due <= MaxSyncs /\ stamp \in Nat /\ MaxSyncs \in Nat
  BY LedgerAssumption DEF TypeInv, TimesIn
<1>4. stamp' + Due' <= MaxSyncs
  BY <1>2, <1>3
<1> QED
  BY <1>1, <1>3, <1>4 DEF TimesIn

LEMMA ProceedTypes ==
  ASSUME Finite, TypeInv, NEW p \in Proc, Proceed(p), stamp' = stamp
  PROVE  SyncsIn' /\ TimesIn'
<1>1. SyncsIn' /\ Due' <= Due /\ Due \in Nat /\ Due' \in Int
  BY OwnLocals, ProceedIn
<1>2. stamp + Due <= MaxSyncs /\ stamp \in Nat /\ MaxSyncs \in Nat
  BY LedgerAssumption DEF TypeInv, TimesIn
<1>3. stamp' + Due' <= MaxSyncs
  <2>1. \A x, y, z, n \in Int : x <= y /\ z + y <= n => z + x <= n
    OBVIOUS
  <2>2. Due \in Int /\ stamp \in Int /\ MaxSyncs \in Int
    BY <1>1, <1>2
  <2>3. Due' \in Int /\ Due' <= Due
    BY <1>1
  <2>4. stamp + Due' <= MaxSyncs
    BY <1>2, <2>1, <2>2, <2>3
  <2> QED
    BY <2>4
<1> QED
  BY <1>1, <1>2, <1>3 DEF TimesIn

LEMMA SyncFailsTypes == Finite /\ TypeInv => \A p \in Proc : SyncFails(p) => TypeInv'
<1> SUFFICES ASSUME Finite, TypeInv, NEW p \in Proc, SyncFails(p) PROVE TypeInv'
  OBVIOUS
<1>1. SyncsIn' /\ TimesIn'
  BY ProceedTypes DEF SyncFails
<1>2. BooksIn'
  BY BooksStand DEF TypeInv, BooksIn, SyncFails
<1> QED
  BY <1>1, <1>2, TypesStand DEF TypeInv, SyncFails, ghosts, BooksIn

LEMMA CancelTypes == Finite /\ TypeInv => \A p \in Proc : Cancel(p) => TypeInv'
<1> SUFFICES ASSUME Finite, TypeInv, NEW p \in Proc, Cancel(p) PROVE TypeInv'
  OBVIOUS
<1>1. SyncsIn' /\ TimesIn'
  <2>1. Owed(Idle) <= Owed(sync[p])
    BY OwnLocals, OwedType, IdleIn
  <2> QED
    BY <2>1, IdleIn, GoesOn DEF Cancel
<1>2. BooksIn'
  BY BooksStand DEF TypeInv, BooksIn, Cancel
<1> QED
  BY <1>1, <1>2, TypesStand DEF TypeInv, Cancel, ghosts, BooksIn

LEMMA SyncFetchTypes == Finite /\ TypeInv => \A p \in Proc : SyncFetch(p) => TypeInv'
<1> SUFFICES ASSUME Finite, TypeInv, NEW p \in Proc, SyncFetch(p) PROVE TypeInv'
  OBVIOUS
<1> DEFINE r == sync[p]
           cur == remote[r.acct]
           old == IF r.copy[r.acct] = None THEN 0 ELSE r.copy[r.acct].total
<1>1. r.pc = "fetch" /\ r \in Sync /\ r.acct \in Account
  BY OwnLocals DEF SyncFetch
<1>2. cur.start \in Start /\ cur.used \in Nat /\ cur.shown \in Tokens
  BY <1>1, LedgerAssumption DEF TypeInv, WorldIn, Remote, Tokens
<1>3. old \in Tokens
  <2>1. r.copy[r.acct] \in Snapshot \cup {None}
    BY <1>1 DEF Sync
  <2>2. 0 \in Tokens
    BY LedgerAssumption DEF Tokens
  <2> HIDE DEF r
  <2> QED
    BY <2>1, <2>2 DEF Snapshot
<1>4. PICK total \in Tokens :
        Goto(p, [r EXCEPT !.new = [start |-> cur.start, total |-> total,
                                   pct |-> Percent(cur.used)]], "seal")
  <2> HIDE DEF r, cur, old
  <2> DEFINE totals == {IF cur.shown > 0 THEN cur.shown ELSE old}
                          \cup (IF "noTokens" \in Env THEN {old} ELSE {})
  <2>1. totals \subseteq Tokens
    BY <1>2, <1>3
  <2>2. \E total \in totals :
          Goto(p, [r EXCEPT !.new = [start |-> cur.start, total |-> total,
                                     pct |-> Percent(cur.used)]], "seal")
    BY DEF SyncFetch, r, cur, old
  <2> QED
    BY <2>1, <2>2
<1> DEFINE new == [start |-> cur.start, total |-> total, pct |-> Percent(cur.used)]
<1>5. new \in Snapshot
  BY <1>2, PercentIn DEF Snapshot
<1> HIDE DEF new
<1>6. PICK s : s = [[r EXCEPT !.new = new] EXCEPT !.pc = "seal"] /\ sync' = [sync EXCEPT ![p] = s]
  BY <1>4 DEF Goto, new
<1> HIDE DEF r
<1>7. s \in Sync /\ s.pc = "seal" /\ s.acct = r.acct /\ s.new = new /\ s.todo = r.todo
  BY <1>1, <1>5, <1>6 DEF Sync
<1>8. Phase(s)
  BY <1>1, <1>5, <1>7 DEF Phase, Timed
<1>9. Owed(s) = Owed(r) /\ Owed(r) \in Nat
  BY <1>1, <1>7, OwnLocals, OwedType DEF Owed
<1>10. SyncsIn' /\ TimesIn'
  <2>1. Owed(s) <= Owed(r)
    BY <1>9
  <2> QED
    BY <1>6, <1>7, <1>8, <2>1, GoesOn DEF SyncFetch, r
<1>11. BooksIn'
  BY BooksStand DEF TypeInv, BooksIn, SyncFetch
<1> QED
  BY <1>10, <1>11, TypesStand DEF TypeInv, SyncFetch, ghosts, BooksIn

LEMMA SyncSealTypes == Finite /\ TypeInv => \A p \in Proc : SyncSeal(p) => TypeInv'
<1> SUFFICES ASSUME Finite, TypeInv, NEW p \in Proc, SyncSeal(p) PROVE TypeInv'
  OBVIOUS
<1> DEFINE r == sync[p]
<1>1. r.pc = "seal" /\ r \in Sync /\ r.acct \in Account /\ r.new \in Snapshot /\ today \in Day
  BY OwnLocals DEF SyncSeal, Phase, Read
<1>2. CyclesIn'
  <2> DEFINE a == r.acct
             old == r.copy[r.acct]
  <2>1. DOMAIN cycles = Account /\ \A b \in Account : IsRows(cycles[b], Start, CycleRow)
    BY DEF TypeInv, CyclesIn
  <2>2. CASE cycles' = cycles
    BY <2>2, TypesStand DEF TypeInv
  <2>3. CASE cycles' # cycles
    <3>1. old # None /\ old \in Snapshot \cup {None}
      BY <1>1, <2>3 DEF SyncSeal, _finalize_monthly_usage_if_cycle_changed, Sync
    <3>2. old.start \in Start /\ [total |-> old.total, pct |-> old.pct, final |-> TRUE] \in CycleRow
      BY <3>1 DEF Snapshot, CycleRow
    <3>3. PICK f : /\ f = Put(cycles[a], old.start,
                              [total |-> old.total, pct |-> old.pct, final |-> TRUE])
                   /\ cycles' = [cycles EXCEPT ![a] = f]
      BY <2>3 DEF SyncSeal, _finalize_monthly_usage_if_cycle_changed
    <3>4. IsRows(f, Start, CycleRow)
      BY <1>1, <2>1, <3>2, <3>3, PutRows
    <3> QED
      BY <2>1, <3>3, <3>4 DEF CyclesIn
  <2> QED
    BY <2>2, <2>3
<1>3. /\ stamp + Due <= MaxSyncs /\ stamp \in Nat /\ MaxSyncs \in Nat
      /\ Due \in Nat /\ Owed(r) \in Nat /\ Owed(r) <= Due
      /\ Owed(r) = Cardinality(r.todo) + 1 /\ Cardinality(r.todo) \in Nat
  <2>1. Due \in Nat /\ Owed(r) \in Nat /\ Owed(r) <= Due
    BY OwnLocals, DueType
  <2>2. Owed(r) = Cardinality(r.todo) + 1
    BY <1>1 DEF Owed
  <2>3. Cardinality(r.todo) \in Nat
    BY <1>1, OwnLocals, OwedType
  <2> QED
    BY <2>1, <2>2, <2>3, LedgerAssumption DEF TypeInv, TimesIn
<1>4. stamp + 1 \in 0..MaxSyncs /\ stamp + 1 >= 1
  <2> HIDE DEF r
  <2> QED
    BY <1>3
<1>5. stamp' = stamp + 1
  BY DEF SyncSeal
<1>6. PICK s : /\ s = [[r EXCEPT !.at = stamp + 1, !.day = today, !.copy[r.acct] = None]
                          EXCEPT !.pc = "update"]
               /\ sync' = [sync EXCEPT ![p] = s]
  BY DEF SyncSeal, Goto
<1> HIDE DEF r
<1>7. /\ s \in Sync /\ s.pc = "update" /\ s.acct = r.acct /\ s.new = r.new /\ s.todo = r.todo
      /\ s.at = stamp + 1
  <2>1. [r.copy EXCEPT ![r.acct] = None] \in [Account -> Snapshot \cup {None}]
    BY <1>1 DEF Sync
  <2> QED
    BY <1>1, <1>4, <1>6, <2>1 DEF Sync
<1>8. Phase(s)
  BY <1>1, <1>4, <1>7 DEF Phase
<1>9. Owed(s) = Cardinality(r.todo)
  BY <1>3, <1>7 DEF Owed
<1>10. SyncsIn'
  BY <1>6, <1>7, <1>8, OwnLocals, SyncsBecome
<1>11. Due' = Due + Owed(s) - Owed(r)
  BY <1>6, <1>7, OwnLocals, DueBecomes DEF r
<1>12. TimesIn'
  <2>1. stamp' \in Nat /\ stamp' + Due' <= MaxSyncs
    BY <1>3, <1>5, <1>9, <1>11
  <2> QED
    BY <2>1 DEF TimesIn
<1>13. WorldIn' /\ AccountsIn' /\ LogsIn' /\ RowsIn'
  BY TypesStand DEF TypeInv, SyncSeal, ghosts
<1> QED
  BY <1>2, <1>10, <1>12, <1>13 DEF TypeInv

LEMMA SyncUpdateTypes == Finite /\ TypeInv => \A p \in Proc : SyncUpdate(p) => TypeInv'
<1> SUFFICES ASSUME Finite, TypeInv, NEW p \in Proc, SyncUpdate(p) PROVE TypeInv'
  OBVIOUS
<1> DEFINE r == sync[p]
<1>1. /\ r.pc = "update" /\ r \in Sync /\ Phase(r) /\ r.acct \in Account /\ r.new \in Snapshot
      /\ r.at >= 1
  BY OwnLocals DEF SyncUpdate, Phase, Read, Timed
<1>2. SyncsIn' /\ TimesIn'
  <2>1. CASE Proceed(p)
    BY <2>1, ProceedTypes DEF SyncUpdate
  <2>2. CASE Goto(p, r, "monthly")
    <3>1. PICK s : s = [r EXCEPT !.pc = "monthly"] /\ sync' = [sync EXCEPT ![p] = s]
      BY <2>2 DEF Goto
    <3> HIDE DEF r
    <3>2. /\ s \in Sync /\ s.pc = "monthly" /\ s.acct = r.acct /\ s.new = r.new
          /\ s.todo = r.todo /\ s.at = r.at
      BY <1>1, <3>1 DEF Sync
    <3>3. Phase(s)
      BY <1>1, <3>2 DEF Phase
    <3>4. Owed(s) <= Owed(r)
      BY <1>1, <3>2, OwnLocals, OwedType DEF Owed
    <3> QED
      BY <3>1, <3>2, <3>3, <3>4, GoesOn DEF SyncUpdate, r
  <2> QED
    BY <2>1, <2>2 DEF SyncUpdate
<1>3. AccountsIn'
  <2>1. usage' \in [Account -> Snapshot \cup {None}]
    BY <1>1 DEF TypeInv, AccountsIn, SyncUpdate
  <2> QED
    BY <2>1 DEF TypeInv, AccountsIn, SyncUpdate, ghosts
<1>4. BooksIn'
  BY BooksStand DEF TypeInv, BooksIn, SyncUpdate
<1> QED
  BY <1>2, <1>3, <1>4, TypesStand DEF TypeInv, SyncUpdate, ghosts, BooksIn

LEMMA SyncMonthlyTypes == Finite /\ TypeInv => \A p \in Proc : SyncMonthly(p) => TypeInv'
<1> SUFFICES ASSUME Finite, TypeInv, NEW p \in Proc, SyncMonthly(p) PROVE TypeInv'
  OBVIOUS
<1> DEFINE r == sync[p]
<1>1. /\ r.pc = "monthly" /\ r \in Sync /\ Phase(r) /\ r.acct \in Account /\ r.new \in Snapshot
      /\ r.at >= 1
  BY OwnLocals DEF SyncMonthly, Phase, Read, Timed
<1>2. SyncsIn' /\ TimesIn'
  <2>1. CASE Proceed(p)
    BY <2>1, ProceedTypes DEF SyncMonthly
  <2>2. CASE Goto(p, r, "record")
    <3>1. PICK s : s = [r EXCEPT !.pc = "record"] /\ sync' = [sync EXCEPT ![p] = s]
      BY <2>2 DEF Goto
    <3> HIDE DEF r
    <3>2. /\ s \in Sync /\ s.pc = "record" /\ s.acct = r.acct /\ s.new = r.new
          /\ s.todo = r.todo /\ s.at = r.at
      BY <1>1, <3>1 DEF Sync
    <3>3. Phase(s)
      BY <1>1, <3>2 DEF Phase
    <3>4. Owed(s) <= Owed(r)
      BY <1>1, <3>2, OwnLocals, OwedType DEF Owed
    <3> QED
      BY <3>1, <3>2, <3>3, <3>4, GoesOn DEF SyncMonthly, r
  <2> QED
    BY <2>1, <2>2 DEF SyncMonthly
<1>3. CyclesIn'
  <2> DEFINE a == r.acct
             new == r.new
  <2>1. DOMAIN cycles = Account /\ \A b \in Account : IsRows(cycles[b], Start, CycleRow)
    BY DEF TypeInv, CyclesIn
  <2>2. CASE cycles' = cycles
    BY <2>2, TypesStand DEF TypeInv
  <2>3. CASE cycles' # cycles
    <3>2. new.start \in Start /\ [total |-> new.total, pct |-> new.pct, final |-> FALSE] \in CycleRow
      BY <1>1 DEF Snapshot, CycleRow
    <3>3. PICK f : /\ f = Put(cycles[a], new.start,
                              [total |-> new.total, pct |-> new.pct, final |-> FALSE])
                   /\ cycles' = [cycles EXCEPT ![a] = f]
      BY <2>3 DEF SyncMonthly, _upsert_monthly_usage
    <3>4. IsRows(f, Start, CycleRow)
      BY <1>1, <2>1, <3>2, <3>3, PutRows
    <3> QED
      BY <2>1, <3>3, <3>4 DEF CyclesIn
  <2> QED
    BY <2>2, <2>3
<1>4. WorldIn' /\ AccountsIn' /\ LogsIn' /\ RowsIn'
  BY TypesStand DEF TypeInv, SyncMonthly, ghosts
<1> QED
  BY <1>2, <1>3, <1>4 DEF TypeInv

\* The newest row of a log, if it has one, is one of its rows.
LEMMA NewestType ==
  ASSUME NEW rows, IsFiniteSet(rows), rows \subseteq LogRow
  PROVE  Newest(rows) # None => Newest(rows) \in rows /\ Newest(rows).total \in Tokens
<1>1. CASE rows = {}
  BY <1>1 DEF Newest
<1>2. CASE rows # {}
  <2>1. \A l \in rows : l.at \in Int /\ l.total \in Tokens
    BY DEF LogRow
  <2> QED
    BY <1>2, <2>1, NewestIn
<1> QED
  BY <1>1, <1>2

LEMMA SyncRecordTypes == Finite /\ TypeInv => \A p \in Proc : SyncRecord(p) => TypeInv'
<1> SUFFICES ASSUME Finite, TypeInv, NEW p \in Proc, SyncRecord(p) PROVE TypeInv'
  OBVIOUS
<1> DEFINE r == sync[p]
           a == r.acct
           delta == compute_sync_delta(Newest(logs[a]), r.new.start, r.new.total)
           own == [at |-> r.at, day |-> r.day, cycle |-> r.new.start, total |-> r.new.total,
                   delta |-> delta]
           base == IF r.day \in DOMAIN daily[a] THEN daily[a][r.day] ELSE None
           month == resolve_calendar_month(r.new, Month(r.day), logs[a] \cup {own},
                                           Created, today)
           fresh == Month(r.day) \notin DOMAIN calendar[a]
<1>1. /\ r.pc = "record" /\ r \in Sync /\ a \in Account /\ r.new \in Snapshot /\ r.at >= 1
      /\ r.day \in Day
  BY OwnLocals DEF SyncRecord, Phase, Read, Timed, Sync
<1>2. /\ r.new.total \in Tokens /\ r.new.total \in Nat /\ r.new.start \in Int
  <2>1. r.new.total \in Tokens /\ r.new.start \in Start
    BY <1>1 DEF Snapshot
  <2>2. FirstStart \in Int /\ CycleDays \in Int
    BY LedgerAssumption, MetricsAssumption DEF FirstStart
  <2>3. \A k \in 0..(MaxDay + 1) : FirstStart + k * CycleDays \in Int
    BY <2>2
  <2> HIDE DEF r
  <2> QED
    BY <2>1, <2>3 DEF Start, Tokens
<1>3. IsFiniteSet(logs[a]) /\ logs[a] \subseteq LogRow
  BY <1>1 DEF TypeInv, LogsIn
<1>4. delta \in Tokens
  <2>1. Newest(logs[a]) # None => Newest(logs[a]).total \in Tokens
    BY <1>3, NewestType
  <2> QED
    BY <1>2, <2>1, DeltaWithin
<1>5. base \in Nat \cup {None}
  BY <1>1 DEF TypeInv, RowsIn, IsRows
<1>6. month \in Nat
  <2> HIDE DEF delta, r
  <2>1. own.delta = delta
    OBVIOUS
  <2> HIDE DEF own, a
  <2>2. \A l \in logs[a] \cup {own} : l.delta \in Nat
    BY <1>3, <1>4, <2>1 DEF LogRow, Tokens
  <2>3. IsFiniteSet(logs[a] \cup {own})
    BY <1>3, FS_AddElement
  <2>4. today \in Int /\ Month(r.day) \in Nat
    BY <1>1, MonthIn DEF TypeInv, WorldIn, Day
  <2> QED
    BY <1>2, <2>2, <2>3, <2>4, ResolveNat
<1> HIDE DEF delta, base, month, fresh
<1>7. PICK s : /\ s = [[r EXCEPT !.delta = delta, !.base = base, !.month = month, !.fresh = fresh]
                          EXCEPT !.pc = "commit"]
               /\ sync' = [sync EXCEPT ![p] = s]
  BY DEF SyncRecord, Goto, delta, base, month, fresh
<1>8. fresh \in BOOLEAN
  BY DEF fresh
<1> HIDE DEF r, own
<1>9. /\ s \in Sync /\ s.pc = "commit" /\ s.acct = a /\ s.new = r.new /\ s.todo = r.todo
      /\ s.at = r.at
  BY <1>1, <1>4, <1>5, <1>6, <1>7, <1>8 DEF Sync
<1>10. Phase(s)
  BY <1>1, <1>9 DEF Phase
<1>11. Owed(s) <= Owed(r)
  BY <1>1, <1>9, OwnLocals, OwedType DEF Owed
<1>12. SyncsIn' /\ TimesIn'
  BY <1>7, <1>9, <1>10, <1>11, GoesOn DEF SyncRecord, r
<1>13. BooksIn'
  BY BooksStand DEF TypeInv, BooksIn, SyncRecord
<1> QED
  BY <1>12, <1>13, TypesStand DEF TypeInv, SyncRecord, ghosts, BooksIn

LEMMA SyncCommitTypes == Finite /\ TypeInv => \A p \in Proc : SyncCommit(p) => TypeInv'
<1> SUFFICES ASSUME Finite, TypeInv, NEW p \in Proc, SyncCommit(p) PROVE TypeInv'
  OBVIOUS
<1> DEFINE r == sync[p]
           a == r.acct
           row == [at |-> r.at, day |-> r.day, cycle |-> r.new.start, total |-> r.new.total,
                   delta |-> r.delta]
<1>1. /\ r.pc = "commit" /\ r \in Sync /\ a \in Account /\ r.new \in Snapshot /\ r.at >= 1
      /\ r.at \in 0..MaxSyncs /\ r.day \in Day /\ r.delta \in Tokens /\ r.delta \in Nat
      /\ r.base \in Nat \cup {None} /\ r.month \in Nat
  BY OwnLocals DEF SyncCommit, Phase, Read, Timed, Sync, Tokens
<1>2. row \in LogRow
  <2>1. r.at \in 1..MaxSyncs
    <3> HIDE DEF r
    <3> QED
      BY <1>1, LedgerAssumption
  <2> QED
    BY <1>1, <2>1 DEF LogRow, Snapshot
<1>3. SyncsIn' /\ TimesIn'
  BY ProceedTypes DEF SyncCommit
<1>4. CASE UNCHANGED <<logs, daily, calendar, counted>>
  BY <1>3, <1>4, TypesStand DEF TypeInv, SyncCommit
<1>5. CASE ~ UNCHANGED <<logs, daily, calendar, counted>>
  <2>1. /\ logs' = [logs EXCEPT ![a] = logs[a] \cup {row}]
        /\ daily' = IF r.delta = 0 THEN daily
                    ELSE [daily EXCEPT ![a] = Put(daily[a], r.day,
                            r.delta + IF r.base = None THEN 0 ELSE r.base)]
        /\ calendar' = IF r.month = 0 THEN calendar
                       ELSE [calendar EXCEPT ![a] = Put(calendar[a], Month(r.day), r.month)]
        /\ counted' = [counted EXCEPT ![a] = counted[a] + r.delta]
    BY <1>5 DEF SyncCommit
  <2> HIDE DEF r, a
  <2>2. LogsIn'
    <3> HIDE DEF row
    <3>1. DOMAIN logs = Account /\ \A b \in Account : IsFiniteSet(logs[b]) /\ logs[b] \subseteq LogRow
      BY DEF TypeInv, LogsIn
    <3>2. IsFiniteSet(logs[a] \cup {row}) /\ logs[a] \cup {row} \subseteq LogRow
      BY <1>1, <1>2, <3>1, FS_AddElement
    <3> QED
      BY <2>1, <3>1, <3>2 DEF LogsIn
  <2>3. RowsIn'
    <3>1. /\ DOMAIN daily = Account /\ DOMAIN calendar = Account
          /\ \A b \in Account : IsRows(daily[b], Day, Nat) /\ IsRows(calendar[b], 0..MaxDay, Nat)
      BY DEF TypeInv, RowsIn
    <3>2. r.delta + (IF r.base = None THEN 0 ELSE r.base) \in Nat
      BY <1>1
    <3>3. IsRows(Put(daily[a], r.day, r.delta + IF r.base = None THEN 0 ELSE r.base), Day, Nat)
      BY <1>1, <3>1, <3>2, PutRows
    <3>4. IsRows(Put(calendar[a], Month(r.day), r.month), 0..MaxDay, Nat)
      <4>1. Month(r.day) \in 0..MaxDay
        BY <1>1, MonthIn
      <4> QED
        BY <1>1, <3>1, <4>1, PutRows
    <3>5. DOMAIN daily' = Account /\ \A b \in Account : IsRows(daily'[b], Day, Nat)
      BY <2>1, <3>1, <3>3
    <3>6. DOMAIN calendar' = Account /\ \A b \in Account : IsRows(calendar'[b], 0..MaxDay, Nat)
      BY <2>1, <3>1, <3>4
    <3> QED
      BY <3>5, <3>6 DEF RowsIn
  <2>4. AccountsIn'
    <3>1. counted \in [Account -> Nat]
      BY DEF TypeInv, AccountsIn
    <3>2. counted[a] + r.delta \in Nat
      BY <1>1, <3>1
    <3>3. counted' \in [Account -> Nat]
      BY <2>1, <3>1, <3>2
    <3> QED
      BY <3>3 DEF TypeInv, AccountsIn, SyncCommit
  <2> QED
    BY <1>3, <2>2, <2>3, <2>4, TypesStand DEF TypeInv, SyncCommit
<1> QED
  BY <1>4, <1>5

LEMMA UnbindTypes == TypeInv => \A a \in Account : unbind(a) => TypeInv'
<1> SUFFICES ASSUME TypeInv, NEW a \in Account, unbind(a) PROVE TypeInv'
  OBVIOUS
<1>1. AccountsIn'
  BY DEF TypeInv, AccountsIn, unbind, ghosts
<1>2. BooksIn'
  BY BooksStand DEF TypeInv, BooksIn, unbind
<1> QED
  BY <1>1, <1>2, TypesStand DEF TypeInv, unbind, ghosts, BooksIn

LEMMA CleanupTypes == TypeInv /\ cleanup_cursor_usage_history => TypeInv'
<1> SUFFICES ASSUME TypeInv, cleanup_cursor_usage_history PROVE TypeInv'
  OBVIOUS
<1>1. LogsIn'
  <2>1. \A a \in Account : logs'[a] \subseteq logs[a]
    BY DEF cleanup_cursor_usage_history
  <2>2. \A a \in Account : IsFiniteSet(logs[a]) /\ logs[a] \subseteq LogRow
    BY DEF TypeInv, LogsIn
  <2>3. \A a \in Account : IsFiniteSet(logs'[a]) /\ logs'[a] \subseteq LogRow
    BY <2>1, <2>2, FS_Subset
  <2>4. DOMAIN logs' = Account
    BY DEF cleanup_cursor_usage_history
  <2> QED
    BY <2>3, <2>4 DEF LogsIn
<1>2. RowsIn'
  BY KeepRows DEF TypeInv, RowsIn, cleanup_cursor_usage_history
<1>3. CyclesIn'
  BY KeepRows DEF TypeInv, CyclesIn, cleanup_cursor_usage_history
<1> QED
  BY <1>1, <1>2, <1>3, TypesStand DEF TypeInv, cleanup_cursor_usage_history, ghosts

\* The other processes note that somebody else is at work on their account.
LEMMA NotedType ==
  ASSUME NEW r \in Sync, NEW alone \in BOOLEAN, NEW s, s = [r EXCEPT !.alone = alone]
  PROVE  /\ s \in Sync /\ Owed(s) = Owed(r) /\ (Phase(r) => Phase(s))
<1>1. /\ s \in Sync /\ s.pc = r.pc /\ s.acct = r.acct /\ s.todo = r.todo /\ s.new = r.new
      /\ s.at = r.at
  BY DEF Sync
<1> QED
  BY <1>1 DEF Owed, Phase

LEMMA SyncsAre ==
  ASSUME NEW s, sync' = s, s \in [Proc -> Sync], \A q \in Proc : Phase(s[q])
  PROVE  SyncsIn'
  BY DEF SyncsIn, Phase

LEMMA SyncStartTypes ==
  ASSUME Finite, TypeInv, NEW p \in Proc, NEW S \in SUBSET Account, SyncStart(p, S)
  PROVE  TypeInv'
<1> DEFINE met == {a \in S : \E q \in Proc \ {p} : a \in Under(q)}
           copy == [b \in Account |-> IF b \in S THEN usage[b] ELSE None]
           apart(q) == Under(q) \cap S = {}
<1>0. PICK a \in S : sync' = [q \in Proc |->
                IF q = p THEN TakeUp(a, S, copy, met = {})
                ELSE [sync[q] EXCEPT !.alone = sync[q].alone /\ apart(q)]]
  BY DEF SyncStart
<1>1. PICK t : /\ sync' = t
               /\ t = [q \in Proc |-> IF q = p THEN TakeUp(a, S, copy, met = {})
                         ELSE [sync[q] EXCEPT !.alone = sync[q].alone /\ apart(q)]]
  BY <1>0
<1>2. copy \in [Account -> Snapshot \cup {None}] /\ (met = {}) \in BOOLEAN /\ today \in Day
  BY DEF TypeInv, AccountsIn, WorldIn
<1>3. /\ sync \in [Proc -> Sync] /\ IsFiniteSet(Account) /\ IsFiniteSet(Proc)
      /\ \A q \in Proc : Phase(sync[q]) /\ sync[q].alone \in BOOLEAN
  BY DEF TypeInv, SyncsIn, Sync, Finite
<1>4. t[p] \in Sync /\ Phase(t[p]) /\ Owed(t[p]) = Cardinality(S)
  <2>1. t[p] = TakeUp(a, S, copy, met = {})
    BY <1>1
  <2>2. S \subseteq Account
    OBVIOUS
  <2> DEFINE noted == met = {}
  <2>3. noted \in BOOLEAN
    OBVIOUS
  <2> HIDE DEF copy, noted
  <2>4. /\ TakeUp(a, S, copy, noted) \in Sync /\ Phase(TakeUp(a, S, copy, noted))
        /\ Owed(TakeUp(a, S, copy, noted)) = Cardinality(S)
    BY <1>2, <1>3, <2>2, <2>3, TakeUpIn
  <2> QED
    BY <2>1, <2>4 DEF noted
<1>5. ASSUME NEW q \in Proc, q # p
      PROVE  t[q] \in Sync /\ Phase(t[q]) /\ Owed(t[q]) = Owed(sync[q])
  <2>1. t[q] = [sync[q] EXCEPT !.alone = sync[q].alone /\ apart(q)]
    BY <1>1, <1>5
  <2>2. (sync[q].alone /\ apart(q)) \in BOOLEAN
    OBVIOUS
  <2>3. sync[q] \in Sync /\ Phase(sync[q])
    BY <1>3
  <2> HIDE DEF apart
  <2> QED
    BY <2>1, <2>2, <2>3, NotedType
<1>6. SyncsIn'
  <2>1. t = [q \in Proc |-> t[q]]
    BY <1>1
  <2>2. \A q \in Proc : t[q] \in Sync /\ Phase(t[q])
    BY <1>4, <1>5
  <2>3. t \in [Proc -> Sync]
    BY <2>1, <2>2
  <2> QED
    BY <1>1, <2>2, <2>3, SyncsAre
<1>7. TimesIn'
  <2>1. Owed(t[p]) \in Nat /\ Owed(sync[p]) \in Nat
    BY <1>3, <1>4, OwedType
  <2>2. DueOf(t) = DueOf(sync) + Owed(t[p]) - Owed(sync[p])
    BY <1>3, <1>5, <2>1, OwingBecomes
  <2>3. Due = DueOf(sync) /\ Due' = DueOf(t) /\ Due \in Nat
    BY <1>1, <1>3, DueNow, DueType DEF TypeInv
  <2>4. stamp + Due + Cardinality(S) <= MaxSyncs /\ stamp' = stamp /\ stamp \in Nat /\ MaxSyncs \in Nat
    BY LedgerAssumption DEF SyncStart, TypeInv, TimesIn
  <2>5. DueOf(t) <= Due + Cardinality(S) /\ DueOf(t) \in Int /\ Cardinality(S) \in Nat
    BY <1>4, <2>1, <2>2, <2>3
  <2>6. stamp + DueOf(t) <= MaxSyncs
    BY <2>3, <2>4, <2>5
  <2> QED
    BY <2>3, <2>4, <2>6 DEF TimesIn
<1>8. AccountsIn'
  <2>1. overlap' = [b \in Account |-> overlap[b] \/ b \in met]
    BY DEF SyncStart
  <2>2. \A b \in Account : (overlap[b] \/ b \in met) \in BOOLEAN
    OBVIOUS
  <2> HIDE DEF met
  <2>3. overlap' \in [Account -> BOOLEAN]
    BY <2>1, <2>2
  <2> QED
    BY <2>3 DEF TypeInv, AccountsIn, SyncStart
<1>9. BooksIn'
  BY BooksStand DEF TypeInv, BooksIn, SyncStart
<1> QED
  BY <1>6, <1>7, <1>8, <1>9, TypesStand DEF TypeInv, SyncStart, BooksIn

LEMMA RepairTypes == Finite /\ TypeInv => \A a \in Account : repair_calendar_token_deltas(a) => TypeInv'
<1> SUFFICES ASSUME Finite, TypeInv, NEW a \in Account, repair_calendar_token_deltas(a)
             PROVE  TypeInv'
  OBVIOUS
<1> DEFINE Renewed(l) == [l EXCEPT
                         !.delta = compute_sync_delta(Previous(logs[a], l), l.cycle, l.total)]
           rebuilt == {Renewed(l) : l \in logs[a]}
           total(m) == resolve_calendar_month(usage[a], m, rebuilt, Created, today)
           tokens(d) == DeltaSum({l \in rebuilt : l.day = d})
           months == {Month(l.day) : l \in rebuilt}
           booked == {l.day : l \in {k \in rebuilt : k.delta > 0}}
           monthRows == [m \in DOMAIN calendar[a] \cup {n \in months : total(n) > 0} |->
                            IF m \in months THEN total(m) ELSE calendar[a][m]]
           dayRows == [d \in DOMAIN daily[a] \cup booked |-> tokens(d)]
<1>1. /\ logs' = [logs EXCEPT ![a] = rebuilt]
      /\ calendar' = [calendar EXCEPT ![a] = monthRows]
      /\ daily' = [daily EXCEPT ![a] = dayRows]
  BY DEF repair_calendar_token_deltas, recompute_sync_log_deltas
<1>2. /\ DOMAIN logs = Account
      /\ \A b \in Account : IsFiniteSet(logs[b]) /\ logs[b] \subseteq LogRow
  BY DEF TypeInv, LogsIn
<1>3. rebuilt \subseteq LogRow
  <2> SUFFICES ASSUME NEW l \in logs[a] PROVE Renewed(l) \in LogRow
    OBVIOUS
  <2> DEFINE before == {k \in logs[a] : k.at < l.at}
             delta == compute_sync_delta(Previous(logs[a], l), l.cycle, l.total)
  <2>1. l \in LogRow /\ l.total \in Tokens
    BY <1>2 DEF LogRow
  <2>2. IsFiniteSet(before) /\ before \subseteq LogRow
    BY <1>2, FS_Subset
  <2>3. Previous(logs[a], l) # None => Previous(logs[a], l).total \in Tokens
    <3> HIDE DEF before
    <3>1. Newest(before) # None => Newest(before).total \in Tokens
      BY <2>2, NewestType
    <3> QED
      BY <3>1 DEF Previous, before
  <2>4. delta \in Tokens
    BY <2>1, <2>3, DeltaWithin
  <2> HIDE DEF delta
  <2>5. [l EXCEPT !.delta = delta] \in LogRow
    BY <2>1, <2>4 DEF LogRow
  <2> QED
    BY <2>5 DEF delta
<1>4. IsFiniteSet(rebuilt)
  <2>1. PICK f : f = [l \in logs[a] |-> Renewed(l)]
    OBVIOUS
  <2>2. f \in Surjection(logs[a], rebuilt)
    BY <2>1 DEF Surjection
  <2> HIDE DEF rebuilt
  <2> QED
    BY <1>2, <2>2, FS_Surjection
<1> HIDE DEF rebuilt
<1>5. \A l \in rebuilt : /\ l.delta \in Nat /\ l.day \in Day
                         /\ Month(l.day) \in 0..MaxDay /\ Month(l.day) \in Nat
  <2>1. \A l \in rebuilt : l.delta \in Nat /\ l.day \in Day
    BY <1>3 DEF LogRow, Tokens
  <2> QED
    BY <2>1, MonthIn
<1>6. \A m \in months : m \in 0..MaxDay /\ total(m) \in Nat
  <2>1. \A m \in months : m \in 0..MaxDay /\ m \in Nat
    BY <1>5
  <2>2. usage[a] # None => usage[a].total \in Nat /\ usage[a].start \in Int
    <3>1. usage[a] \in Snapshot \cup {None}
      BY DEF TypeInv, AccountsIn
    <3>2. FirstStart \in Int /\ CycleDays \in Int
      BY LedgerAssumption, MetricsAssumption DEF FirstStart
    <3>3. \A k \in 0..(MaxDay + 1) : FirstStart + k * CycleDays \in Int
      BY <3>2
    <3>4. Start \subseteq Int /\ Tokens \subseteq Nat
      BY <3>3 DEF Start, Tokens
    <3> QED
      BY <3>1, <3>4 DEF Snapshot
  <2>3. today \in Int
    BY DEF TypeInv, WorldIn, Day
  <2>4. ASSUME NEW m \in Nat
        PROVE  resolve_calendar_month(usage[a], m, rebuilt, Created, today) \in Nat
    BY <1>4, <1>5, <2>2, <2>3, ResolveNat
  <2> QED
    BY <2>1, <2>4
<1>7. \A d \in Day : tokens(d) \in Nat
  <2> TAKE d \in Day
  <2>1. IsFiniteSet({l \in rebuilt : l.day = d})
    BY <1>4, FS_Subset
  <2>2. \A l \in {k \in rebuilt : k.day = d} : l.delta \in Nat
    BY <1>5
  <2> QED
    BY <2>1, <2>2, DeltaNat
<1>8. LogsIn'
  BY <1>1, <1>2, <1>3, <1>4 DEF LogsIn
<1>9. RowsIn'
  <2>1. /\ DOMAIN daily = Account /\ DOMAIN calendar = Account
        /\ \A b \in Account : IsRows(daily[b], Day, Nat) /\ IsRows(calendar[b], 0..MaxDay, Nat)
    BY DEF TypeInv, RowsIn
  <2>2. IsRows(dayRows, Day, Nat)
    <3>1. booked \subseteq Day
      BY <1>5
    <3> HIDE DEF booked, tokens
    <3> QED
      BY <1>7, <2>1, <3>1 DEF IsRows
  <2>3. IsRows(monthRows, 0..MaxDay, Nat)
    <3> HIDE DEF months, total
    <3> QED
      BY <1>6, <2>1 DEF IsRows
  <2> HIDE DEF dayRows, monthRows
  <2>4. DOMAIN daily' = Account /\ \A b \in Account : IsRows(daily'[b], Day, Nat)
    BY <1>1, <2>1, <2>2
  <2>5. DOMAIN calendar' = Account /\ \A b \in Account : IsRows(calendar'[b], 0..MaxDay, Nat)
    BY <1>1, <2>1, <2>3
  <2> QED
    BY <2>4, <2>5 DEF RowsIn
<1>10. PICK t : /\ sync' = t
                /\ t = [q \in Proc |->
                          [sync[q] EXCEPT !.alone = sync[q].alone /\ a \notin Under(q)]]
  BY DEF repair_calendar_token_deltas
<1>11. /\ sync \in [Proc -> Sync] /\ IsFiniteSet(Account) /\ IsFiniteSet(Proc)
       /\ \A q \in Proc : Phase(sync[q])
  BY DEF TypeInv, SyncsIn, Finite
<1>12. ASSUME NEW q \in Proc PROVE t[q] \in Sync /\ Phase(t[q]) /\ Owed(t[q]) = Owed(sync[q])
  <2>1. t[q] = [sync[q] EXCEPT !.alone = sync[q].alone /\ a \notin Under(q)]
    BY <1>10
  <2>2. (sync[q].alone /\ a \notin Under(q)) \in BOOLEAN
    OBVIOUS
  <2>3. sync[q] \in Sync /\ Phase(sync[q])
    BY <1>11
  <2> QED
    BY <2>1, <2>2, <2>3, NotedType
<1>13. SyncsIn'
  <2>1. t \in [Proc -> Sync]
    BY <1>10, <1>12
  <2> QED
    BY <1>10, <1>12, <2>1, SyncsAre
<1>14. TimesIn'
  <2>1. Owing(t) = Owing(sync)
    BY <1>12 DEF Owing
  <2>2. Due' = Due
    BY <1>10, <1>11, <2>1, DueNow, DueIsSum
  <2> QED
    BY <2>2 DEF TypeInv, TimesIn, repair_calendar_token_deltas
<1>15. AccountsIn'
  <2> DEFINE over == overlap[a] \/ \E p \in Proc : a \in Under(p)
  <2>1. overlap' = [overlap EXCEPT ![a] = over]
    BY DEF repair_calendar_token_deltas
  <2>2. over \in BOOLEAN
    OBVIOUS
  <2> HIDE DEF over
  <2>3. overlap \in [Account -> BOOLEAN]
    BY DEF TypeInv, AccountsIn
  <2>4. overlap' \in [Account -> BOOLEAN]
    BY <2>1, <2>2, <2>3
  <2> QED
    BY <2>4 DEF TypeInv, AccountsIn, repair_calendar_token_deltas
<1>16. WorldIn' /\ CyclesIn'
  BY TypesStand DEF TypeInv, repair_calendar_token_deltas
<1> QED
  BY <1>8, <1>9, <1>13, <1>14, <1>15, <1>16 DEF TypeInv

LEMMA StutterTypes == TypeInv /\ UNCHANGED vars => TypeInv'
  BY TypesStand DEF TypeInv, vars, tables, ghosts

LEMMA InitTypes == Finite /\ Init => TypeInv
<1> SUFFICES ASSUME Finite, Init PROVE TypeInv
  OBVIOUS
<1>1. FirstStart \in Start
  <2>1. 0 \in 0..(MaxDay + 1) /\ CycleDays \in Nat
    BY LedgerAssumption, MetricsAssumption
  <2>2. FirstStart = FirstStart + 0 * CycleDays
    BY <2>1, LedgerAssumption DEF FirstStart
  <2> QED
    BY <2>1, <2>2 DEF Start
<1>2. WorldIn
  <2>1. Before \in Tokens /\ Before \in Nat /\ today \in Day
    BY LedgerAssumption DEF Init, Before, Tokens, Day
  <2>2. remote \in [Account -> Remote]
    BY <1>1, <2>1 DEF Init, Remote
  <2>3. spent \in [Account -> [Start -> Nat]]
    BY <2>1 DEF Init
  <2>4. \A a \in Account : remote[a].used <= spent[a][remote[a].start]
    BY <1>1, <2>1 DEF Init
  <2> QED
    BY <2>1, <2>2, <2>3, <2>4 DEF WorldIn
<1>3. AccountsIn
  BY DEF Init, AccountsIn
<1>4. LogsIn
  BY FS_EmptySet DEF Init, LogsIn
<1>5. RowsIn /\ CyclesIn
  BY DEF Init, RowsIn, CyclesIn, IsRows
<1>6. SyncsIn
  BY IdleIn DEF Init, SyncsIn
<1>7. TimesIn
  <2>1. \A p \in Proc : Owing(sync)[p] = 0
    BY IdleIn DEF Init, Owing
  <2>2. Due = 0
    BY <2>1, DueNow, DueIsSum, SumZero DEF Finite
  <2> QED
    BY <2>2, LedgerAssumption DEF Init, TimesIn
<1> QED
  BY <1>2, <1>3, <1>4, <1>5, <1>6, <1>7 DEF TypeInv

LEMMA StepTypes == Finite /\ TypeInv /\ [Next]_vars => TypeInv'
<1> SUFFICES ASSUME Finite, TypeInv, [Next]_vars PROVE TypeInv'
  OBVIOUS
<1>1. CASE World
  BY <1>1, NextDayTypes, SpendTypes, NextCycleTypes, CatchUpTypes DEF World
<1>2. ASSUME NEW p \in Proc, Step(p) PROVE TypeInv'
  BY <1>2, SyncFetchTypes, SyncFailsTypes, SyncSealTypes, SyncUpdateTypes, SyncMonthlyTypes,
     SyncRecordTypes, SyncCommitTypes, CancelTypes DEF Step
<1>3. ASSUME NEW p \in Proc, sync_all_accounts(p) PROVE TypeInv'
  <2>1. bound \in SUBSET Account
    BY DEF TypeInv, AccountsIn
  <2> QED
    BY <1>3, <2>1, SyncStartTypes DEF sync_all_accounts
<1>4. ASSUME NEW p \in Proc, NEW a \in Account, sync_my_account(p, a) PROVE TypeInv'
  <2>1. {a} \in SUBSET Account
    OBVIOUS
  <2> QED
    BY <1>4, <2>1, SyncStartTypes DEF sync_my_account
<1>5. ASSUME NEW a \in Account, unbind(a) \/ repair_calendar_token_deltas(a) PROVE TypeInv'
  BY <1>5, UnbindTypes, RepairTypes
<1>6. CASE cleanup_cursor_usage_history
  BY <1>6, CleanupTypes
<1>7. CASE UNCHANGED vars
  BY <1>7, StutterTypes
<1> QED
  BY <1>1, <1>2, <1>3, <1>4, <1>5, <1>6, <1>7 DEF Next

\* Every variable of the ledgers, the locals of the syncs among them, stays of
\* its type, for finitely many accounts and processes: increments lie between
\* none and the total they are taken of, a month's figure is never negative, and
\* the bounds on tokens and syncs hold of all of them together.
THEOREM LedgerTypeCorrect ==
  ASSUME IsFiniteSet(Account), IsFiniteSet(Proc)
  PROVE  Spec => []TypeOK
<1>1. Finite
  BY DEF Finite
<1>2. Init => TypeInv
  BY <1>1, InitTypes
<1>3. TypeInv /\ [Next]_vars => TypeInv'
  BY <1>1, StepTypes
<1>4. TypeInv => TypeOK
  BY InvTypes
<1> QED
  BY <1>2, <1>3, <1>4, PTL DEF Spec

=============================================================================
