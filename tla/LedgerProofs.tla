---------------------------- MODULE LedgerProofs ----------------------------
(***************************************************************************)
(* Proofs about UsageLedger, for any accounts, processes, lengths of a     *)
(* cycle and disturbances: a cycle is sealed before the account row takes  *)
(* up the next one, and stays sealed as it is.                             *)
(***************************************************************************)
EXTENDS UsageBooks, TLAPS

\* The locals of a sync, whatever they hold.
Locals == {"pc", "acct", "todo", "copy", "new", "at", "day", "delta", "base", "month",
           "fresh", "alone"}
Shape(r) ==
    /\ DOMAIN r = Locals /\ r = [f \in Locals |-> r[f]]
    /\ DOMAIN r.copy = Account
    /\ r.pc # "idle" => r.acct \notin r.todo
    /\ r.pc \in {"seal", "update"} /\ r.acct \in Account => r.new.start \in Int

RemoteShape(r) ==
    LET fields == {"start", "used", "shown"}
    IN  DOMAIN r = fields /\ r = [f \in fields |-> r[f]] /\ r.start \in Int

Sealed(a) == {s \in DOMAIN cycles[a] : cycles[a][s].final}
SealOf(u) == [total |-> u.total, pct |-> u.pct, final |-> TRUE]

\* A cycle whose row is not yet to be cleaned up.
Horizon == KeptCycles * MonthDays
Within(s) == EndOf(s) >= today - Horizon

SyncShape == DOMAIN sync = Proc /\ \A p \in Proc : Shape(sync[p])

RowShape ==
    /\ DOMAIN remote = Account /\ \A a \in Account : RemoteShape(remote[a])
    /\ DOMAIN usage = Account
    /\ \A a \in Account : usage[a] # None => usage[a].start \in Int
    /\ DOMAIN cycles = Account
    /\ overlap \in [Account -> BOOLEAN]
    /\ today \in Int

\* p has yet to seal a, or has sealed it and not yet taken up the new cycle.
Early(p, a) == \/ sync[p].pc # "idle" /\ a \in sync[p].todo
               \/ sync[p].pc \in {"fetch", "seal"} /\ sync[p].acct = a
Holding(p, a) == sync[p].pc \in {"seal", "update"} /\ sync[p].acct = a

\* One process at most works for a.
Apart(a) == \A p, q \in Proc : a \in Under(p) /\ a \in Under(q) => p = q

\* Its copy of the row is the row.
Fresh(a) == \A p \in Proc : Early(p, a) => sync[p].copy[a] = usage[a]

\* Cycles go forward: the sealed ones come before the one it has read of, which
\* comes not before that of the row, nor after that at Cursor.
Forward(a) ==
    /\ usage[a] # None => usage[a].start <= remote[a].start
    /\ \A s \in Sealed(a) : s \in Int /\ s < remote[a].start
    /\ \A p \in Proc : Holding(p, a) =>
         /\ sync[p].new.start <= remote[a].start
         /\ usage[a] # None => usage[a].start <= sync[p].new.start
         /\ \A s \in Sealed(a) : s < sync[p].new.start

\* The cycle of the row, if it is sealed already, is sealed as the row has it;
\* and it is, once a process is about to replace it.
SealedAsIs(a) ==
    usage[a] # None =>
        /\ usage[a].start \in Sealed(a) => cycles[a][usage[a].start] = SealOf(usage[a])
        /\ \A p \in Proc :
             (/\ sync[p].pc = "update" /\ sync[p].acct = a
              /\ usage[a].start # sync[p].new.start /\ Within(usage[a].start))
             => /\ usage[a].start \in DOMAIN cycles[a]
                /\ cycles[a][usage[a].start] = SealOf(usage[a])

InOrder(a) == ~overlap[a] => Apart(a) /\ Fresh(a) /\ Forward(a) /\ SealedAsIs(a)

SealInv == SyncShape /\ RowShape /\ \A a \in Account : InOrder(a)

-----------------------------------------------------------------------------
\* What the two properties say of a step, for one account.
Overwritten(a) ==
    (/\ Serial(a) /\ usage[a] # None /\ usage'[a] # None
     /\ usage[a].start # usage'[a].start /\ Within(usage[a].start))
    => /\ usage[a].start \in DOMAIN cycles[a]
       /\ cycles[a][usage[a].start] = SealOf(usage[a])

Stays(a) ==
    \A s \in DOMAIN cycles[a] \cap DOMAIN cycles'[a] :
        cycles[a][s].final /\ cycles'[a][s] # cycles[a][s]
            => /\ cycles'[a][s].final
               /\ ~Serial(a)
               /\ \E p \in Proc : sync[p].pc = "seal" /\ sync[p].acct = a

Good(a) == InOrder(a)' /\ Overwritten(a) /\ Stays(a)

\* Nobody comes to work for a, or gets further with it than it was.
Calm(a) ==
    \A q \in Proc :
        /\ a \in Under(q)' => a \in Under(q)
        /\ Early(q, a)' => Early(q, a) /\ sync'[q].copy[a] = sync[q].copy[a]
        /\ Holding(q, a)' => Holding(q, a) /\ sync'[q].new = sync[q].new
        /\ sync'[q].pc = "update" /\ sync'[q].acct = a => sync[q].pc = "update"

\* Its rows are what they were, but for cycles that are not sealed and for
\* those that are cleaned up.
Kept(a) ==
    /\ overlap[a] => overlap'[a]
    /\ usage'[a] = usage[a]
    /\ remote[a].start <= remote'[a].start
    /\ today <= today'
    /\ \A s \in DOMAIN cycles'[a] : cycles'[a][s].final =>
         s \in DOMAIN cycles[a] /\ cycles'[a][s] = cycles[a][s]
    /\ \A s \in DOMAIN cycles[a] : cycles[a][s].final =>
         IF s \in DOMAIN cycles'[a] THEN cycles'[a][s] = cycles[a][s]
         ELSE ~(EndOf(s) >= today' - Horizon)

LEMMA HorizonType == Horizon \in Int /\ CycleDays \in Int /\ CycleDays > 0
  BY LedgerAssumption, MetricsAssumption DEF Horizon

LEMMA QuietGood ==
  ASSUME SealInv, SyncShape', RowShape', NEW a \in Account, Calm(a), Kept(a)
  PROVE  Good(a)
<1>1. Overwritten(a)
  BY DEF Overwritten, Kept
<1>2. Stays(a)
  BY DEF Stays, Kept
<1>3. SUFFICES ASSUME ~overlap'[a] PROVE (Apart(a) /\ Fresh(a) /\ Forward(a) /\ SealedAsIs(a))'
  BY <1>1, <1>2, <1>3 DEF Good, InOrder
<1>4. ~overlap[a] /\ Apart(a) /\ Fresh(a) /\ Forward(a) /\ SealedAsIs(a)
  BY <1>3 DEF Kept, SealInv, InOrder
<1>5. Apart(a)'
  BY <1>4 DEF Calm, Apart
<1>6. Fresh(a)'
  BY <1>4 DEF Calm, Kept, Fresh
<1>7. \A s : s \in Sealed(a)' => s \in Sealed(a) /\ cycles'[a][s] = cycles[a][s]
  BY DEF Sealed, Kept
<1>8. /\ remote[a].start \in Int /\ remote'[a].start \in Int
      /\ usage[a] # None => usage[a].start \in Int
      /\ today \in Int /\ today' \in Int
  BY DEF SealInv, RowShape, RemoteShape
<1>9. Forward(a)'
  <2>1. usage'[a] # None => usage'[a].start <= remote'[a].start
    BY <1>4, <1>8 DEF Forward, Kept
  <2>2. \A s \in Sealed(a)' : s \in Int /\ s < remote'[a].start
    BY <1>4, <1>7, <1>8 DEF Forward, Kept
  <2>3. ASSUME NEW q \in Proc, Holding(q, a)'
        PROVE  /\ sync'[q].new.start <= remote'[a].start
               /\ usage'[a] # None => usage'[a].start <= sync'[q].new.start
               /\ \A s \in Sealed(a)' : s < sync'[q].new.start
    <3>1. Holding(q, a) /\ sync'[q].new = sync[q].new
      BY <2>3 DEF Calm
    <3>2. sync[q].new.start \in Int
      BY <3>1 DEF SealInv, SyncShape, Shape, Holding
    <3> QED
      BY <1>4, <1>7, <1>8, <3>1, <3>2 DEF Forward, Kept
  <2> QED
    BY <2>1, <2>2, <2>3 DEF Forward
<1>10. SealedAsIs(a)'
  <2>1. SUFFICES ASSUME usage[a] # None
                 PROVE  SealedAsIs(a)'
    BY DEF SealedAsIs, Kept
  <2>2. usage'[a].start \in Sealed(a)' => cycles'[a][usage'[a].start] = SealOf(usage'[a])
    BY <1>4, <1>7, <2>1 DEF SealedAsIs, Kept
  <2>3. ASSUME NEW q \in Proc, sync'[q].pc = "update", sync'[q].acct = a,
               usage'[a].start # sync'[q].new.start, Within(usage[a].start)'
        PROVE  /\ usage'[a].start \in DOMAIN cycles'[a]
               /\ cycles'[a][usage'[a].start] = SealOf(usage'[a])
    <3>1. sync[q].pc = "update" /\ sync[q].acct = a /\ sync'[q].new = sync[q].new
      BY <2>3 DEF Calm, Holding
    <3>2. Within(usage[a].start) /\ EndOf(usage[a].start) >= today' - Horizon
      BY <1>8, <2>1, <2>3, HorizonType DEF Within, Kept, EndOf
    <3>3. /\ usage[a].start \in DOMAIN cycles[a]
          /\ cycles[a][usage[a].start] = SealOf(usage[a])
      BY <1>4, <2>1, <2>3, <3>1, <3>2 DEF SealedAsIs, Kept
    <3>4. cycles[a][usage[a].start].final
      BY <3>3 DEF SealOf
    <3> QED
      BY <3>2, <3>3, <3>4 DEF Kept
  <2> QED
    BY <2>2, <2>3 DEF SealedAsIs
<1> QED
  BY <1>5, <1>6, <1>9, <1>10

-----------------------------------------------------------------------------
\* A step of process p that leaves it with the locals r.
LEMMA Becomes ==
  ASSUME SyncShape, NEW p \in Proc, NEW r, Shape(r), sync' = [sync EXCEPT ![p] = r]
  PROVE  SyncShape' /\ \A q \in Proc : sync'[q] = IF q = p THEN r ELSE sync[q]
<1>1. \A q \in Proc : sync'[q] = IF q = p THEN r ELSE sync[q]
  BY DEF SyncShape
<1> QED
  BY <1>1 DEF SyncShape

\* If r works for no account and is no further than p was, the step is calm.
LEMMA CalmBecomes ==
  ASSUME SyncShape, NEW p \in Proc, NEW r, Shape(r), sync' = [sync EXCEPT ![p] = r],
         NEW a \in Account,
         r.pc # "idle" /\ (a \in r.todo \/ a = r.acct) => a \in Under(p),
         r.pc # "idle" /\ (a \in r.todo \/ (r.pc \in {"fetch", "seal"} /\ r.acct = a))
             => Early(p, a) /\ r.copy[a] = sync[p].copy[a],
         r.pc \notin {"seal", "update"} \/ r.acct # a
  PROVE  Calm(a)
<1>1. \A q \in Proc : sync'[q] = IF q = p THEN r ELSE sync[q]
  BY Becomes
<1>2. ASSUME NEW q \in Proc, q # p
      PROVE  /\ a \in Under(q)' => a \in Under(q)
             /\ Early(q, a)' => Early(q, a) /\ sync'[q].copy[a] = sync[q].copy[a]
             /\ Holding(q, a)' => Holding(q, a) /\ sync'[q].new = sync[q].new
             /\ sync'[q].pc = "update" /\ sync'[q].acct = a => sync[q].pc = "update"
  BY <1>1, <1>2 DEF Under, Early, Holding
<1>3. /\ a \in Under(p)' => a \in Under(p)
      /\ Early(p, a)' => Early(p, a) /\ sync'[p].copy[a] = sync[p].copy[a]
      /\ Holding(p, a)' => Holding(p, a) /\ sync'[p].new = sync[p].new
      /\ sync'[p].pc = "update" /\ sync'[p].acct = a => sync[p].pc = "update"
  <2>1. sync'[p] = r
    BY <1>1
  <2>2. a \in Under(p)' => a \in Under(p)
    BY <2>1 DEF Under
  <2>3. Early(p, a)' => Early(p, a) /\ sync'[p].copy[a] = sync[p].copy[a]
    BY <2>1 DEF Early
  <2> QED
    BY <2>1, <2>2, <2>3 DEF Holding
<1> QED
  BY <1>2, <1>3 DEF Calm

LEMMA StayCalm ==
  ASSUME SyncShape, UNCHANGED sync
  PROVE  SyncShape' /\ \A a \in Account : Calm(a)
  BY DEF SyncShape, Calm, Under, Early, Holding

LEMMA IdleShape == Shape(Idle) /\ Idle.pc = "idle"
  BY DEF Shape, Idle, Locals

LEMMA IdleCalm ==
  ASSUME SyncShape, NEW p \in Proc, sync' = [sync EXCEPT ![p] = Idle]
  PROVE  SyncShape' /\ \A a \in Account : Calm(a)
<1>1. SyncShape'
  BY IdleShape, Becomes
<1>2. ASSUME NEW a \in Account PROVE Calm(a)
  BY IdleShape, CalmBecomes
<1> QED
  BY <1>1, <1>2

LEMMA TakeUpShape ==
  ASSUME NEW a, NEW todo, NEW copy, NEW alone, DOMAIN copy = Account
  PROVE  LET r == TakeUp(a, todo, copy, alone)
         IN  /\ Shape(r) /\ r.pc = "fetch" /\ r.acct = a
             /\ r.todo = todo \ {a} /\ r.copy = copy
<1>1. /\ TakeUp(a, todo, copy, alone).pc = "fetch"
      /\ TakeUp(a, todo, copy, alone).acct = a
      /\ TakeUp(a, todo, copy, alone).todo = todo \ {a}
      /\ TakeUp(a, todo, copy, alone).copy = copy
  BY DEF TakeUp, Idle
<1>2. /\ DOMAIN TakeUp(a, todo, copy, alone) = Locals
      /\ TakeUp(a, todo, copy, alone) = [f \in Locals |-> TakeUp(a, todo, copy, alone)[f]]
  BY DEF TakeUp, Idle, Locals
<1> QED
  BY <1>1, <1>2 DEF Shape

LEMMA ProceedCalm ==
  ASSUME SyncShape, NEW p \in Proc, sync[p].pc # "idle", Proceed(p)
  PROVE  SyncShape' /\ \A a \in Account : Calm(a)
<1>1. CASE sync' = [sync EXCEPT ![p] = Idle]
  BY <1>1, IdleCalm
<1>2. CASE \E b \in sync[p].todo : sync' = [sync EXCEPT ![p] =
               TakeUp(b, sync[p].todo, sync[p].copy, sync[p].alone)]
  <2>1. PICK b \in sync[p].todo : sync' = [sync EXCEPT ![p] =
               TakeUp(b, sync[p].todo, sync[p].copy, sync[p].alone)]
    BY <1>2
  <2> DEFINE r == TakeUp(b, sync[p].todo, sync[p].copy, sync[p].alone)
  <2>2. /\ Shape(r) /\ r.pc = "fetch" /\ r.acct = b
        /\ r.todo = sync[p].todo \ {b} /\ r.copy = sync[p].copy
    BY TakeUpShape DEF SyncShape, Shape
  <2>3. sync' = [sync EXCEPT ![p] = r]
    BY <2>1
  <2> HIDE DEF r
  <2>4. SyncShape'
    BY <2>2, <2>3, Becomes
  <2>5. ASSUME NEW a \in Account PROVE Calm(a)
    <3>1. /\ a \in r.todo \/ a = r.acct => a \in Under(p)
          /\ a \in r.todo \/ r.acct = a => Early(p, a) /\ r.copy[a] = sync[p].copy[a]
      BY <2>2 DEF Under, Early
    <3> QED
      BY <2>2, <2>3, <3>1, CalmBecomes
  <2> QED
    BY <2>4, <2>5
<1> QED
  BY <1>1, <1>2 DEF Proceed

\* The labels from which on a sync is through with the cycle.
LEMMA LaterCalm ==
  ASSUME SyncShape, NEW p \in Proc, NEW r, sync' = [sync EXCEPT ![p] = r], Shape(r),
         sync[p].pc # "idle", r.pc \in {"monthly", "record", "commit"},
         r.acct = sync[p].acct, r.todo = sync[p].todo, r.copy = sync[p].copy
  PROVE  SyncShape' /\ \A a \in Account : Calm(a)
<1>1. SyncShape'
  BY Becomes
<1>2. ASSUME NEW a \in Account PROVE Calm(a)
  BY CalmBecomes DEF Under, Early
<1> QED
  BY <1>1, <1>2

-----------------------------------------------------------------------------
AllGood == SyncShape' /\ RowShape' /\ \A a \in Account : Good(a)

LEMMA QuietStep ==
  ASSUME SealInv, SyncShape', RowShape', \A a \in Account : Calm(a) /\ Kept(a)
  PROVE  AllGood
  BY QuietGood DEF AllGood

\* Nothing of an account changes that the two properties are about.
LEMMA RowsStay ==
  ASSUME RowShape, UNCHANGED <<remote, usage, cycles, overlap, today>>
  PROVE  RowShape' /\ \A a \in Account : Kept(a)
<1>1. RowShape'
  BY DEF RowShape, RemoteShape
<1>2. ASSUME NEW a \in Account PROVE Kept(a)
  <2>1. remote[a].start \in Int /\ today \in Int
    BY DEF RowShape, RemoteShape
  <2> QED
    BY <2>1 DEF Kept
<1> QED
  BY <1>1, <1>2

\* Cursor's own figures change, and its cycles go forward.
LEMMA RemoteMoves ==
  ASSUME RowShape, NEW a \in Account, NEW r, remote' = [remote EXCEPT ![a] = r],
         RemoteShape(r), remote[a].start <= r.start,
         UNCHANGED <<usage, cycles, overlap, today>>
  PROVE  RowShape' /\ \A b \in Account : Kept(b)
<1>1. DOMAIN remote' = Account /\ \A b \in Account : remote'[b] = IF b = a THEN r ELSE remote[b]
  BY DEF RowShape
<1>2. RowShape'
  BY <1>1 DEF RowShape, RemoteShape
<1>3. ASSUME NEW b \in Account PROVE Kept(b)
  <2>1. remote[b].start \in Int /\ today \in Int
    BY DEF RowShape, RemoteShape
  <2>2. remote[b].start <= remote'[b].start
    BY <1>1, <2>1
  <2> QED
    BY <2>1, <2>2 DEF Kept
<1> QED
  BY <1>2, <1>3

LEMMA NextDayGood == SealInv /\ NextDay => AllGood
<1> SUFFICES ASSUME SealInv, NextDay PROVE AllGood
  OBVIOUS
<1>1. /\ today' = today + 1 /\ today \in Int
      /\ UNCHANGED <<remote, usage, cycles, overlap>> /\ UNCHANGED sync
  BY DEF NextDay, tables, ghosts, SealInv, RowShape
<1>2. RowShape'
  BY <1>1 DEF SealInv, RowShape, RemoteShape
<1>3. ASSUME NEW a \in Account PROVE Kept(a)
  <2>1. remote[a].start \in Int
    BY DEF SealInv, RowShape, RemoteShape
  <2> QED
    BY <1>1, <2>1 DEF Kept
<1> QED
  BY <1>1, <1>2, <1>3, StayCalm, QuietStep DEF SealInv

LEMMA SpendGood == SealInv => \A a \in Account : Spend(a) => AllGood
<1> SUFFICES ASSUME SealInv, NEW a \in Account, Spend(a) PROVE AllGood
  OBVIOUS
<1> DEFINE r == [remote[a] EXCEPT !.used = @ + 1,
                      !.shown = IF @ = remote[a].used THEN @ + 1 ELSE @]
<1>1. /\ remote' = [remote EXCEPT ![a] = r]
      /\ UNCHANGED <<usage, cycles, overlap, today>> /\ UNCHANGED sync
  BY DEF Spend, tables
<1>2. RemoteShape(remote[a])
  BY DEF SealInv, RowShape
<1>3. RemoteShape(r) /\ r.start = remote[a].start
  BY <1>2 DEF RemoteShape
<1> HIDE DEF r
<1>4. remote[a].start <= r.start
  BY <1>2, <1>3 DEF RemoteShape
<1> QED
  BY <1>1, <1>3, <1>4, RemoteMoves, StayCalm, QuietStep DEF SealInv

LEMMA NextCycleGood == SealInv => \A a \in Account : NextCycle(a) => AllGood
<1> SUFFICES ASSUME SealInv, NEW a \in Account, NextCycle(a) PROVE AllGood
  OBVIOUS
<1>1. PICK shown : remote' = [remote EXCEPT ![a] =
                      [start |-> EndOf(remote[a].start), used |-> 0, shown |-> shown]]
  BY DEF NextCycle
<1>2. UNCHANGED <<usage, cycles, overlap, today>> /\ UNCHANGED sync
  BY DEF NextCycle, tables, ghosts
<1> DEFINE r == [start |-> EndOf(remote[a].start), used |-> 0, shown |-> shown]
<1>3. remote[a].start \in Int
  BY DEF SealInv, RowShape, RemoteShape
<1>4. r.start \in Int /\ remote[a].start <= r.start
  BY <1>3, HorizonType DEF EndOf
<1>5. RemoteShape(r)
  BY <1>4 DEF RemoteShape
<1>6. remote' = [remote EXCEPT ![a] = r]
  BY <1>1
<1> HIDE DEF r
<1> QED
  BY <1>2, <1>4, <1>5, <1>6, RemoteMoves, StayCalm, QuietStep DEF SealInv

LEMMA CatchUpGood == SealInv => \A a \in Account : CatchUp(a) => AllGood
<1> SUFFICES ASSUME SealInv, NEW a \in Account, CatchUp(a) PROVE AllGood
  OBVIOUS
<1> DEFINE r == [remote[a] EXCEPT !.shown = remote[a].used]
<1>1. /\ remote' = [remote EXCEPT ![a] = r]
      /\ UNCHANGED <<usage, cycles, overlap, today>> /\ UNCHANGED sync
  BY DEF CatchUp, tables, ghosts
<1>2. RemoteShape(remote[a])
  BY DEF SealInv, RowShape
<1>3. RemoteShape(r) /\ r.start = remote[a].start
  BY <1>2 DEF RemoteShape
<1> HIDE DEF r
<1>4. remote[a].start <= r.start
  BY <1>2, <1>3 DEF RemoteShape
<1> QED
  BY <1>1, <1>3, <1>4, RemoteMoves, StayCalm, QuietStep DEF SealInv

-----------------------------------------------------------------------------
LEMMA ProceedGood ==
  ASSUME SealInv, NEW p \in Proc, sync[p].pc # "idle", Proceed(p),
         UNCHANGED <<remote, usage, cycles, overlap, today>>
  PROVE  AllGood
<1>1. SyncShape' /\ \A a \in Account : Calm(a)
  BY ProceedCalm DEF SealInv
<1>2. RowShape' /\ \A a \in Account : Kept(a)
  BY RowsStay DEF SealInv
<1> QED
  BY <1>1, <1>2, QuietStep

LEMMA SyncFailsGood == SealInv => \A p \in Proc : SyncFails(p) => AllGood
  BY ProceedGood DEF SyncFails, tables, ghosts

LEMMA SyncCommitGood == SealInv => \A p \in Proc : SyncCommit(p) => AllGood
  BY ProceedGood DEF SyncCommit

LEMMA CancelGood == SealInv => \A p \in Proc : Cancel(p) => AllGood
<1> SUFFICES ASSUME SealInv, NEW p \in Proc, Cancel(p) PROVE AllGood
  OBVIOUS
<1>1. /\ sync' = [sync EXCEPT ![p] = Idle]
      /\ UNCHANGED <<remote, usage, cycles, overlap, today>>
  BY DEF Cancel, tables, ghosts
<1>2. SyncShape' /\ \A a \in Account : Calm(a)
  BY <1>1, IdleCalm DEF SealInv
<1>3. RowShape' /\ \A a \in Account : Kept(a)
  BY <1>1, RowsStay DEF SealInv
<1> QED
  BY <1>2, <1>3, QuietStep

LEMMA SyncRecordGood == SealInv => \A p \in Proc : SyncRecord(p) => AllGood
<1> SUFFICES ASSUME SealInv, NEW p \in Proc, SyncRecord(p) PROVE AllGood
  OBVIOUS
<1>1. Shape(sync[p]) /\ sync[p].pc = "record"
  BY DEF SealInv, SyncShape, SyncRecord
<1>2. PICK delta, base, month, fresh : sync' = [sync EXCEPT ![p] =
             [[sync[p] EXCEPT !.delta = delta, !.base = base, !.month = month,
                              !.fresh = fresh] EXCEPT !.pc = "commit"]]
  BY DEF SyncRecord, Goto
<1> DEFINE r == [[sync[p] EXCEPT !.delta = delta, !.base = base, !.month = month,
                                 !.fresh = fresh] EXCEPT !.pc = "commit"]
<1>3. /\ r.pc = "commit" /\ Shape(r)
      /\ r.acct = sync[p].acct /\ r.todo = sync[p].todo /\ r.copy = sync[p].copy
  BY <1>1 DEF Shape, Locals
<1>4. sync' = [sync EXCEPT ![p] = r]
  BY <1>2
<1> HIDE DEF r
<1>5. SyncShape' /\ \A a \in Account : Calm(a)
  BY <1>1, <1>3, <1>4, LaterCalm DEF SealInv
<1>6. RowShape' /\ \A a \in Account : Kept(a)
  BY RowsStay DEF SealInv, SyncRecord, tables, ghosts
<1> QED
  BY <1>5, <1>6, QuietStep

\* Only rows of cycles that are not sealed are written, or rows are cleaned up.
LEMMA CyclesMove ==
  ASSUME RowShape, DOMAIN cycles' = Account, UNCHANGED <<remote, usage, overlap, today>>,
         \A a \in Account :
            /\ \A s \in DOMAIN cycles'[a] : cycles'[a][s].final =>
                 s \in DOMAIN cycles[a] /\ cycles'[a][s] = cycles[a][s]
            /\ \A s \in DOMAIN cycles[a] : cycles[a][s].final =>
                 IF s \in DOMAIN cycles'[a] THEN cycles'[a][s] = cycles[a][s]
                 ELSE ~(EndOf(s) >= today - Horizon)
  PROVE  RowShape' /\ \A a \in Account : Kept(a)
<1>1. RowShape'
  BY DEF RowShape, RemoteShape
<1>2. ASSUME NEW a \in Account PROVE Kept(a)
  <2>1. remote[a].start \in Int /\ today \in Int
    BY DEF RowShape, RemoteShape
  <2> QED
    BY <2>1 DEF Kept
<1> QED
  BY <1>1, <1>2

\* Nothing of what is sealed changes, and nothing new is sealed.
SealsKept(f, g) ==
    /\ \A s \in DOMAIN g : g[s].final => s \in DOMAIN f /\ g[s] = f[s]
    /\ \A s \in DOMAIN f : f[s].final => s \in DOMAIN g /\ g[s] = f[s]

LEMMA PutKeepsSeals ==
  ASSUME NEW f, NEW k, NEW v, ~v.final, ~(k \in DOMAIN f /\ f[k].final)
  PROVE  SealsKept(f, Put(f, k, v))
<1>1. DOMAIN Put(f, k, v) = DOMAIN f \cup {k}
  BY DEF Put
<1>2. \A s \in DOMAIN Put(f, k, v) : Put(f, k, v)[s] = IF s = k THEN v ELSE f[s]
  BY DEF Put
<1> QED
  BY <1>1, <1>2 DEF SealsKept

\* An unsealed row is written for a cycle that is not sealed.
LEMMA WrittenUnsealed ==
  ASSUME RowShape, UNCHANGED <<remote, usage, overlap, today>>,
         NEW a, NEW start, NEW row, ~row.final,
         start \notin Sealed(a),
         cycles' = [cycles EXCEPT ![a] = Put(@, start, row)]
  PROVE  RowShape' /\ \A b \in Account : Kept(b)
<1>1. DOMAIN cycles = Account /\ DOMAIN cycles' = Account
  BY DEF RowShape
<1>2. ASSUME NEW b \in Account
      PROVE  cycles'[b] = IF b = a THEN Put(cycles[b], start, row) ELSE cycles[b]
  BY <1>1
<1>3. SealsKept(cycles[a], Put(cycles[a], start, row))
  BY PutKeepsSeals DEF Sealed
<1>4. ASSUME NEW b \in Account PROVE SealsKept(cycles[b], cycles'[b])
  <2>1. CASE b # a
    BY <1>2, <2>1 DEF SealsKept
  <2>2. CASE b = a
    BY <1>2, <1>3, <2>2
  <2> QED
    BY <2>1, <2>2
<1> QED
  BY <1>1, <1>4, CyclesMove DEF SealsKept

LEMMA SyncMonthlyGood == SealInv => \A p \in Proc : SyncMonthly(p) => AllGood
<1> SUFFICES ASSUME SealInv, NEW p \in Proc, SyncMonthly(p) PROVE AllGood
  OBVIOUS
<1>1. /\ Shape(sync[p]) /\ sync[p].pc = "monthly"
      /\ UNCHANGED <<remote, usage, overlap, today>>
  BY DEF SealInv, SyncShape, SyncMonthly, ghosts
<1>2. RowShape' /\ \A a \in Account : Kept(a)
  <2> DEFINE a == sync[p].acct
             new == sync[p].new
             row == [total |-> new.total, pct |-> new.pct, final |-> FALSE]
  <2>1. CASE UNCHANGED cycles
    BY <1>1, <2>1, RowsStay DEF SealInv
  <2>2. CASE /\ ~(new.start \in DOMAIN cycles[a] /\ cycles[a][new.start].final)
             /\ cycles' = [cycles EXCEPT ![a] = Put(@, new.start, row)]
    <3>1. ~row.final
      OBVIOUS
    <3>2. new.start \notin Sealed(a)
      <4> HIDE DEF new, a, row
      <4> QED
        BY <2>2 DEF Sealed
    <3>3. RowShape /\ cycles' = [cycles EXCEPT ![a] = Put(@, new.start, row)]
      BY <2>2 DEF SealInv
    <3> HIDE DEF row, new, a
    <3> QED
      BY <1>1, <3>1, <3>2, <3>3, WrittenUnsealed
  <2> QED
    BY <2>1, <2>2 DEF SyncMonthly, _upsert_monthly_usage
<1>3. SyncShape' /\ \A a \in Account : Calm(a)
  <2>1. CASE Proceed(p)
    BY <1>1, <2>1, ProceedCalm DEF SealInv
  <2>2. CASE Goto(p, sync[p], "record")
    <3> DEFINE r == [sync[p] EXCEPT !.pc = "record"]
    <3>1. /\ r.pc = "record" /\ Shape(r)
          /\ r.acct = sync[p].acct /\ r.todo = sync[p].todo /\ r.copy = sync[p].copy
      BY <1>1 DEF Shape, Locals
    <3>2. sync' = [sync EXCEPT ![p] = r]
      BY <2>2 DEF Goto
    <3> HIDE DEF r
    <3> QED
      BY <1>1, <3>1, <3>2, LaterCalm DEF SealInv
  <2> QED
    BY <2>1, <2>2 DEF SyncMonthly
<1> QED
  BY <1>2, <1>3, QuietStep

LEMMA UnbindGood == SealInv => \A a \in Account : unbind(a) => AllGood
<1> SUFFICES ASSUME SealInv, NEW a \in Account, unbind(a) PROVE AllGood
  OBVIOUS
<1>1. UNCHANGED <<remote, usage, cycles, overlap, today>> /\ UNCHANGED sync
  BY DEF unbind, tables, ghosts
<1> QED
  BY <1>1, RowsStay, StayCalm, QuietStep DEF SealInv

LEMMA CleanupGood == SealInv /\ cleanup_cursor_usage_history => AllGood
<1> SUFFICES ASSUME SealInv, cleanup_cursor_usage_history PROVE AllGood
  OBVIOUS
<1>1. /\ UNCHANGED <<remote, usage, overlap, today>> /\ UNCHANGED sync
      /\ cycles' = [a \in Account |-> Keep(cycles[a],
                        {s \in DOMAIN cycles[a] : EndOf(s) >= today - Horizon})]
  BY DEF cleanup_cursor_usage_history, ghosts, Horizon
<1>2. ASSUME NEW a \in Account
      PROVE  /\ DOMAIN cycles'[a] = {s \in DOMAIN cycles[a] : EndOf(s) >= today - Horizon}
             /\ \A s \in DOMAIN cycles'[a] : cycles'[a][s] = cycles[a][s]
  BY <1>1 DEF Keep
<1>3. ASSUME NEW a \in Account, NEW s \in Sealed(a), s \notin DOMAIN cycles'[a]
      PROVE  ~(EndOf(s) >= today - Horizon)
  BY <1>2, <1>3 DEF Sealed
<1>4. RowShape' /\ \A a \in Account : Kept(a)
  BY <1>1, <1>2, <1>3, CyclesMove DEF SealInv, Sealed
<1> QED
  BY <1>1, <1>4, StayCalm, QuietStep DEF SealInv

LEMMA RepairGood == SealInv => \A a \in Account : repair_calendar_token_deltas(a) => AllGood
<1> SUFFICES ASSUME SealInv, NEW a \in Account, repair_calendar_token_deltas(a) PROVE AllGood
  OBVIOUS
<1>1. /\ sync' = [p \in Proc |-> [sync[p] EXCEPT !.alone = @ /\ a \notin Under(p)]]
      /\ overlap' = [overlap EXCEPT ![a] = @ \/ \E p \in Proc : a \in Under(p)]
      /\ UNCHANGED <<remote, usage, cycles, today>>
  BY DEF repair_calendar_token_deltas
<1>2. overlap' \in [Account -> BOOLEAN] /\ \A b \in Account : overlap[b] => overlap'[b]
  <2>1. overlap \in [Account -> BOOLEAN]
    BY DEF SealInv, RowShape
  <2>2. (\E p \in Proc : a \in Under(p)) \in BOOLEAN
    OBVIOUS
  <2> DEFINE met == \E p \in Proc : a \in Under(p)
  <2>3. overlap' = [overlap EXCEPT ![a] = overlap[a] \/ met]
    BY <1>1
  <2> HIDE DEF met
  <2> QED
    BY <2>1, <2>3
<1>3. ASSUME NEW q \in Proc
      PROVE  /\ Shape(sync'[q]) /\ sync'[q].pc = sync[q].pc /\ sync'[q].acct = sync[q].acct
             /\ sync'[q].todo = sync[q].todo /\ sync'[q].copy = sync[q].copy
             /\ sync'[q].new = sync[q].new
  <2>1. PICK alone : sync'[q] = [sync[q] EXCEPT !.alone = alone]
    BY <1>1
  <2>2. Shape(sync[q])
    BY DEF SealInv, SyncShape
  <2> QED
    BY <2>1, <2>2 DEF Shape, Locals
<1>4. SyncShape'
  BY <1>1, <1>3 DEF SyncShape
<1>5. \A b \in Account : Calm(b)
  BY <1>3 DEF Calm, Under, Early, Holding
<1>6. RowShape'
  BY <1>1, <1>2 DEF SealInv, RowShape, RemoteShape
<1>7. ASSUME NEW b \in Account PROVE Kept(b)
  <2>1. remote[b].start \in Int /\ today \in Int
    BY DEF SealInv, RowShape, RemoteShape
  <2> QED
    BY <1>1, <1>2, <2>1 DEF Kept
<1> QED
  BY <1>4, <1>5, <1>6, <1>7, QuietStep

-----------------------------------------------------------------------------
\* A process takes its copy of the rows of S.
LEMMA SyncStartGood ==
  ASSUME SealInv, NEW p \in Proc, NEW S, SyncStart(p, S)
  PROVE  AllGood
<1> DEFINE met == {a \in S : \E q \in Proc \ {p} : a \in Under(q)}
           copy == [b \in Account |-> IF b \in S THEN usage[b] ELSE None]
<1>1. PICK a \in S : sync' = [q \in Proc |->
                IF q = p THEN TakeUp(a, S, copy, met = {})
                ELSE [sync[q] EXCEPT !.alone = @ /\ Under(q) \cap S = {}]]
  BY DEF SyncStart
<1>2. /\ sync[p].pc = "idle"
      /\ overlap' = [b \in Account |-> overlap[b] \/ b \in met]
      /\ UNCHANGED <<remote, usage, cycles, today>>
  BY DEF SyncStart, tables
<1>3. /\ Shape(sync'[p]) /\ sync'[p].pc = "fetch" /\ sync'[p].acct = a
      /\ sync'[p].todo = S \ {a} /\ sync'[p].copy = copy
  <2>1. sync'[p] = TakeUp(a, S, copy, met = {})
    BY <1>1
  <2>2. DOMAIN copy = Account
    OBVIOUS
  <2> HIDE DEF copy, met
  <2> QED
    BY <2>1, <2>2, TakeUpShape
<1>4. ASSUME NEW q \in Proc, q # p
      PROVE  /\ Shape(sync'[q]) /\ sync'[q].pc = sync[q].pc /\ sync'[q].acct = sync[q].acct
             /\ sync'[q].todo = sync[q].todo /\ sync'[q].copy = sync[q].copy
             /\ sync'[q].new = sync[q].new
  <2>1. PICK alone : sync'[q] = [sync[q] EXCEPT !.alone = alone]
    BY <1>1, <1>4
  <2>2. Shape(sync[q])
    BY DEF SealInv, SyncShape
  <2> QED
    BY <2>1, <2>2 DEF Shape, Locals
<1>5. SyncShape'
  BY <1>1, <1>3, <1>4 DEF SyncShape
<1>6. \A b \in Account : overlap[b] \in BOOLEAN
  BY DEF SealInv, RowShape
<1>7. \A b \in Account : overlap'[b] \in BOOLEAN /\ (overlap'[b] <=> overlap[b] \/ b \in met)
  BY <1>2, <1>6
<1>8. RowShape'
  <2>1. overlap' \in [Account -> BOOLEAN]
    BY <1>2, <1>7
  <2> QED
    BY <1>2, <2>1 DEF SealInv, RowShape, RemoteShape
<1>9. ASSUME NEW b \in Account PROVE Kept(b)
  <2>1. remote[b].start \in Int /\ today \in Int
    BY DEF SealInv, RowShape, RemoteShape
  <2> QED
    BY <1>2, <1>7, <2>1 DEF Kept
<1>10. ASSUME NEW b \in Account PROVE Good(b)
  <2>1. CASE b \notin S
    <3>1. b # a /\ b \notin sync'[p].todo
      BY <1>3, <2>1
    <3>2. Calm(b)
      BY <1>3, <1>4, <3>1 DEF Calm, Under, Early, Holding
    <3> QED
      BY <1>5, <1>8, <1>9, <3>2, QuietGood
  <2>2. CASE b \in S /\ b \in met
    BY <1>2, <1>7, <2>2 DEF Good, InOrder, Overwritten, Stays
  <2>3. CASE b \in S /\ b \notin met
    <3>1. \A q \in Proc \ {p} : b \notin Under(q)
      BY <2>3
    <3>2. \A q \in Proc : b \in Under(q)' => q = p
      BY <1>4, <3>1 DEF Under
    <3>3. \A q \in Proc : ~Holding(q, b)'
      BY <1>3, <1>4, <3>1 DEF Under, Holding
    <3>4. \A q \in Proc : Early(q, b)' => q = p
      BY <3>2 DEF Under, Early
    <3>5. sync'[p].copy[b] = usage'[b]
      BY <1>2, <1>3, <2>3
    <3>6. ASSUME ~overlap'[b] PROVE InOrder(b)'
      <4>1. Forward(b) /\ SealedAsIs(b)
        BY <1>7, <3>6 DEF SealInv, InOrder
      <4>2. Apart(b)' /\ Fresh(b)'
        BY <3>2, <3>4, <3>5 DEF Apart, Fresh
      <4>3. Forward(b)'
        BY <1>2, <3>3, <4>1 DEF Forward, Sealed
      <4>4. SealedAsIs(b)'
        BY <1>2, <3>3, <4>1 DEF SealedAsIs, Sealed, Holding
      <4> QED
        BY <4>2, <4>3, <4>4 DEF InOrder
    <3> QED
      BY <1>2, <3>6 DEF Good, InOrder, Overwritten, Stays
  <2> QED
    BY <2>1, <2>2, <2>3
<1> QED
  BY <1>5, <1>8, <1>10 DEF AllGood

-----------------------------------------------------------------------------
\* A step that takes p on with the account it works for, whose rows but for
\* its own are left alone, is good if it is good for that account.
LEMMA OwnStep ==
  ASSUME SealInv, NEW p \in Proc, NEW r, sync' = [sync EXCEPT ![p] = r], Shape(r), RowShape',
         sync[p].pc # "idle", r.acct = sync[p].acct, r.todo = sync[p].todo,
         \A a \in Account \cap r.todo : r.copy[a] = sync[p].copy[a],
         \A a \in Account : a # sync[p].acct => Kept(a),
         \A a \in Account : a = sync[p].acct => Good(a)
  PROVE  AllGood
<1>1. SyncShape'
  BY Becomes DEF SealInv
<1>2. ASSUME NEW a \in Account, a # sync[p].acct PROVE Calm(a)
  BY <1>2, CalmBecomes DEF SealInv, Under, Early
<1> QED
  BY <1>1, <1>2, QuietGood DEF AllGood

\* While no two syncs of it overlap, p alone works for the account.
LEMMA Alone ==
  ASSUME SealInv, NEW p \in Proc, NEW r, sync' = [sync EXCEPT ![p] = r], Shape(r),
         sync[p].pc # "idle", r.acct = sync[p].acct, r.todo = sync[p].todo,
         r.acct \in Account, ~overlap[r.acct]
  PROVE  LET a == sync[p].acct
         IN  /\ Apart(a) /\ Fresh(a) /\ Forward(a) /\ SealedAsIs(a)
             /\ sync'[p] = r
             /\ Apart(a)'
             /\ \A q \in Proc : Early(q, a)' \/ Holding(q, a)' => q = p
<1> DEFINE a == sync[p].acct
<1>1. Apart(a) /\ Fresh(a) /\ Forward(a) /\ SealedAsIs(a)
  BY DEF SealInv, InOrder
<1>2. \A q \in Proc : sync'[q] = IF q = p THEN r ELSE sync[q]
  BY Becomes DEF SealInv
<1>3. a \in Under(p)
  BY DEF Under
<1>4. \A q \in Proc : q # p => sync[q].pc = "idle" \/ (a \notin sync[q].todo /\ sync[q].acct # a)
  BY <1>1, <1>3 DEF Apart, Under
<1>5. sync'[p] = r
  BY <1>2
<1>6. \A q \in Proc : q # p =>
        sync'[q].pc = "idle" \/ (a \notin sync'[q].todo /\ sync'[q].acct # a)
  BY <1>2, <1>4
<1> DEFINE works(q) == /\ sync'[q].pc # "idle"
                       /\ (a \in sync'[q].todo \/ sync'[q].acct = a)
<1>7. \A q \in Proc : works(q) => q = p
  BY <1>6
<1>8. ASSUME NEW b, b = a
      PROVE  Apart(b)' /\ \A q \in Proc : Early(q, b)' \/ Holding(q, b)' => q = p
  BY <1>7, <1>8 DEF Apart, Under, Early, Holding
<1> QED
  BY <1>1, <1>5, <1>8

LEMMA SyncFetchGood == SealInv => \A p \in Proc : SyncFetch(p) => AllGood
<1> SUFFICES ASSUME SealInv, NEW p \in Proc, SyncFetch(p) PROVE AllGood
  OBVIOUS
<1>1. PICK total, pct : sync' = [sync EXCEPT ![p] = [[sync[p] EXCEPT
             !.new = [start |-> remote[sync[p].acct].start, total |-> total, pct |-> pct]]
             EXCEPT !.pc = "seal"]]
  BY DEF SyncFetch, Goto
<1> DEFINE r == [[sync[p] EXCEPT
             !.new = [start |-> remote[sync[p].acct].start, total |-> total, pct |-> pct]]
             EXCEPT !.pc = "seal"]
<1>2. Shape(sync[p]) /\ sync[p].pc = "fetch" /\ UNCHANGED <<remote, usage, cycles, overlap, today>>
  BY DEF SealInv, SyncShape, SyncFetch, tables, ghosts
<1>3. \A a \in Account : remote[a].start \in Int
  BY DEF SealInv, RowShape, RemoteShape
<1>4. /\ r.pc = "seal" /\ r.acct = sync[p].acct /\ r.todo = sync[p].todo
      /\ r.copy = sync[p].copy /\ r.new.start = remote[r.acct].start /\ Shape(r)
  <2>1. /\ DOMAIN r = Locals /\ r = [f \in Locals |-> r[f]]
        /\ r.pc = "seal" /\ r.acct = sync[p].acct /\ r.todo = sync[p].todo
        /\ r.copy = sync[p].copy
        /\ r.new = [start |-> remote[sync[p].acct].start, total |-> total, pct |-> pct]
    BY <1>2 DEF Shape, Locals
  <2> HIDE DEF r
  <2>2. r.new.start = remote[r.acct].start
    BY <2>1
  <2> QED
    BY <1>2, <1>3, <2>1, <2>2 DEF Shape
<1>5. sync' = [sync EXCEPT ![p] = r]
  BY <1>1
<1> HIDE DEF r
<1>6. RowShape' /\ \A a \in Account : Kept(a)
  BY <1>2, RowsStay DEF SealInv
<1>7. ASSUME NEW a \in Account, a = sync[p].acct PROVE Good(a)
  <2>1. ASSUME ~overlap'[a] PROVE InOrder(a)'
    <3>1. /\ Apart(a) /\ Fresh(a) /\ Forward(a) /\ SealedAsIs(a) /\ sync'[p] = r /\ Apart(a)'
          /\ \A q \in Proc : Early(q, a)' \/ Holding(q, a)' => q = p
      BY <1>2, <1>4, <1>5, <1>7, <2>1, Alone
    <3>2. Fresh(a)'
      <4>1. Early(p, a)
        BY <1>2, <1>7 DEF Early
      <4> QED
        BY <1>2, <1>4, <3>1, <4>1 DEF Fresh
    <3>3. Forward(a)'
      <4>1. Sealed(a)' = Sealed(a) /\ remote'[a] = remote[a] /\ usage'[a] = usage[a]
        BY <1>2 DEF Sealed
      <4>2. /\ usage[a] # None => usage[a].start <= remote[a].start
            /\ \A s \in Sealed(a) : s \in Int /\ s < remote[a].start
        BY <3>1 DEF Forward
      <4>3. \A q \in Proc : Holding(q, a)' => sync'[q].new.start = remote[a].start
        BY <1>4, <1>7, <3>1
      <4>4. remote[a].start \in Int
        BY <1>3
      <4>5. usage[a] # None => usage[a].start \in Int
        BY DEF SealInv, RowShape
      <4> QED
        BY <4>1, <4>2, <4>3, <4>4, <4>5 DEF Forward
    <3>4. SealedAsIs(a)'
      <4>1. \A q \in Proc : ~(sync'[q].pc = "update" /\ sync'[q].acct = a)
        BY <1>4, <3>1 DEF Holding
      <4> QED
        BY <1>2, <3>1, <4>1 DEF SealedAsIs, Sealed
    <3> QED
      BY <3>1, <3>2, <3>3, <3>4 DEF InOrder
  <2> QED
    BY <1>2, <2>1 DEF Good, InOrder, Overwritten, Stays
<1> QED
  BY <1>2, <1>4, <1>5, <1>6, <1>7, OwnStep

LEMMA SyncSealGood == SealInv => \A p \in Proc : SyncSeal(p) => AllGood
<1> SUFFICES ASSUME SealInv, NEW p \in Proc, SyncSeal(p) PROVE AllGood
  OBVIOUS
<1> DEFINE old == sync[p].copy[sync[p].acct]
           new == sync[p].new
           r == [[sync[p] EXCEPT !.at = stamp + 1, !.day = today, !.copy[sync[p].acct] = None]
                    EXCEPT !.pc = "update"]
           row == [total |-> old.total, pct |-> old.pct, final |-> TRUE]
           over == old # None /\ old.start # new.start
<1>1. /\ Shape(sync[p]) /\ sync[p].pc = "seal" /\ UNCHANGED <<remote, usage, overlap, today>>
      /\ sync' = [sync EXCEPT ![p] = r]
      /\ cycles' = IF over THEN [cycles EXCEPT ![sync[p].acct] = Put(@, old.start, row)]
                   ELSE cycles
  BY DEF SealInv, SyncShape, SyncSeal, Goto, ghosts, _finalize_monthly_usage_if_cycle_changed
<1>2. /\ r.pc = "update" /\ r.acct = sync[p].acct /\ r.todo = sync[p].todo
      /\ r.new = sync[p].new /\ Shape(r)
      /\ \A a \in Account \cap r.todo : r.copy[a] = sync[p].copy[a]
  <2>1. /\ DOMAIN r = Locals /\ r = [f \in Locals |-> r[f]]
        /\ r.pc = "update" /\ r.acct = sync[p].acct /\ r.todo = sync[p].todo
        /\ r.new = sync[p].new
        /\ r.copy = [sync[p].copy EXCEPT ![sync[p].acct] = None]
    BY <1>1 DEF Shape, Locals
  <2> HIDE DEF r
  <2> QED
    BY <1>1, <2>1 DEF Shape
<1>3. /\ row.final
      /\ old.total = row.total /\ row = SealOf(old)
  BY DEF SealOf
<1> HIDE DEF r, row, over
<1>4. DOMAIN cycles = Account /\ DOMAIN cycles' = Account
  BY <1>1 DEF SealInv, RowShape
<1>5. RowShape'
  BY <1>1, <1>4 DEF SealInv, RowShape, RemoteShape
<1>6. \A a \in Account : cycles'[a] = IF over /\ a = sync[p].acct
                                      THEN Put(cycles[a], old.start, row) ELSE cycles[a]
  <2> HIDE DEF old
  <2> QED
    BY <1>1, <1>4
<1>7. ASSUME NEW a \in Account, a # sync[p].acct PROVE Kept(a)
  <2>1. remote[a].start \in Int /\ today \in Int
    BY DEF SealInv, RowShape, RemoteShape
  <2> QED
    BY <1>1, <1>6, <1>7, <2>1 DEF Kept
<1>8. ASSUME NEW a \in Account, a = sync[p].acct PROVE Good(a)
  <2>1. Put(cycles[a], old.start, row) =
          [s \in DOMAIN cycles[a] \cup {old.start} |-> IF s = old.start THEN row ELSE cycles[a][s]]
    BY DEF Put
  <2> DEFINE rows == cycles'[a]
  <2>2. /\ over => /\ DOMAIN rows = DOMAIN cycles[a] \cup {old.start}
                   /\ \A s \in DOMAIN rows : rows[s] = IF s = old.start THEN row ELSE cycles[a][s]
        /\ ~over => rows = cycles[a]
    <3> HIDE DEF old
    <3> QED
      BY <1>6, <1>8, <2>1
  <2> HIDE DEF old
  <2>3. \A s \in DOMAIN cycles[a] \cap DOMAIN rows :
          rows[s] # cycles[a][s] => over /\ s = old.start /\ rows[s] = row
    BY <2>2
  <2>4. Overwritten(a)
    BY <1>1 DEF Overwritten
  <2>5. ASSUME overlap[a] PROVE Stays(a)
    BY <1>1, <1>3, <1>8, <2>3, <2>5 DEF Stays, Serial
  <2>6. ASSUME ~overlap[a] PROVE InOrder(a)' /\ Stays(a)
    <3>1. /\ Apart(a) /\ Fresh(a) /\ Forward(a) /\ SealedAsIs(a) /\ sync'[p] = r /\ Apart(a)'
          /\ \A q \in Proc : Early(q, a)' \/ Holding(q, a)' => q = p
      BY <1>1, <1>2, <1>8, <2>6, Alone
    <3>2. old = usage[a] /\ Holding(p, a)
      BY <1>1, <1>8, <3>1 DEF Fresh, Early, Holding, old
    <3>3. /\ new.start \in Int /\ remote[a].start \in Int
          /\ usage[a] # None => usage[a].start \in Int
      BY <1>1, <1>8 DEF SealInv, RowShape, RemoteShape, Shape
    <3>4. /\ usage[a] # None => usage[a].start <= new.start
          /\ new.start <= remote[a].start
          /\ \A s \in Sealed(a) : s \in Int /\ s < new.start
      BY <3>1, <3>2 DEF Forward
    <3>5. over => /\ usage[a] # None /\ usage[a].start # new.start /\ row = SealOf(usage[a])
      BY <1>3, <3>2 DEF over
    <3>6. \A s \in Sealed(a)' : s \in Sealed(a) \/ (over /\ s = usage[a].start)
      BY <2>2, <3>2 DEF Sealed
    <3>7. \A s \in Sealed(a)' : s \in Int /\ s < new.start
      BY <3>3, <3>4, <3>5, <3>6
    <3>8. Stays(a)
      <4>1. over /\ usage[a].start \in Sealed(a) => cycles[a][usage[a].start] = row
        BY <3>1, <3>5 DEF SealedAsIs
      <4> QED
        BY <2>3, <3>2, <4>1 DEF Stays, Sealed
    <3>9. Fresh(a)'
      <4>1. ~Early(p, a)'
        BY <1>1, <1>2, <1>8, <3>1 DEF Early, Shape
      <4> QED
        BY <3>1, <4>1 DEF Fresh
    <3>10. Forward(a)'
      <4>1. \A q \in Proc : Holding(q, a)' => sync'[q].new = new
        BY <1>2, <3>1
      <4>2. \A s \in Sealed(a)' : s < remote[a].start
        BY <3>3, <3>4, <3>7
      <4> HIDE DEF new
      <4>3. usage[a] # None => usage[a].start <= remote[a].start
        BY <3>1 DEF Forward
      <4> QED
        BY <1>1, <3>4, <3>7, <4>1, <4>2, <4>3 DEF Forward
    <3>11. SealedAsIs(a)'
      <4>1. SUFFICES ASSUME usage[a] # None PROVE SealedAsIs(a)'
        BY <1>1 DEF SealedAsIs
      <4>2. over => /\ usage[a].start \in DOMAIN rows
                    /\ rows[usage[a].start] = SealOf(usage[a])
        BY <2>2, <3>2, <3>5
      <4>3. usage[a].start \in Sealed(a)' => rows[usage[a].start] = SealOf(usage[a])
        <5>1. CASE over
          BY <4>2, <5>1
        <5>2. CASE ~over
          BY <2>2, <3>1, <4>1, <5>2 DEF Sealed, SealedAsIs
        <5> QED
          BY <5>1, <5>2
      <4>4. ASSUME NEW q \in Proc, sync'[q].pc = "update", sync'[q].acct = a,
                   usage[a].start # sync'[q].new.start
            PROVE  over
        <5>1. q = p
          BY <3>1, <4>4 DEF Holding
        <5> QED
          BY <1>2, <3>1, <3>2, <4>1, <4>4, <5>1 DEF over
      <4> QED
        BY <1>1, <4>2, <4>3, <4>4 DEF SealedAsIs
    <3> QED
      BY <3>1, <3>8, <3>9, <3>10, <3>11 DEF InOrder
  <2>7. overlap[a] => InOrder(a)'
    BY <1>1 DEF InOrder
  <2> QED
    BY <2>4, <2>5, <2>6, <2>7 DEF Good
<1> QED
  BY <1>1, <1>2, <1>5, <1>7, <1>8, OwnStep

LEMMA SyncUpdateGood == SealInv => \A p \in Proc : SyncUpdate(p) => AllGood
<1> SUFFICES ASSUME SealInv, NEW p \in Proc, SyncUpdate(p) PROVE AllGood
  OBVIOUS
<1>1. /\ Shape(sync[p]) /\ sync[p].pc = "update"
      /\ UNCHANGED <<remote, cycles, overlap, today>>
  BY DEF SealInv, SyncShape, SyncUpdate, tables, ghosts
<1>2. CASE Proceed(p) /\ UNCHANGED usage
  BY <1>1, <1>2, ProceedGood
<1>3. CASE usage' = [usage EXCEPT ![sync[p].acct] = sync[p].new] /\ Goto(p, sync[p], "monthly")
  <2> DEFINE r == [sync[p] EXCEPT !.pc = "monthly"]
             new == sync[p].new
  <2>1. /\ r.pc = "monthly" /\ Shape(r)
        /\ r.acct = sync[p].acct /\ r.todo = sync[p].todo /\ r.copy = sync[p].copy
    BY <1>1 DEF Shape, Locals
  <2>2. sync' = [sync EXCEPT ![p] = r]
    BY <1>3 DEF Goto
  <2> HIDE DEF r
  <2>3. /\ DOMAIN usage' = Account
        /\ \A a \in Account : usage'[a] = IF a = sync[p].acct THEN new ELSE usage[a]
    BY <1>3 DEF SealInv, RowShape
  <2>4. \A a \in Account : usage'[a] # None => usage'[a].start \in Int
    <3>1. sync[p].acct \in Account => new.start \in Int
      BY <1>1 DEF Shape
    <3> HIDE DEF new
    <3> QED
      BY <2>3, <3>1 DEF SealInv, RowShape
  <2>5. RowShape'
    BY <1>1, <2>3, <2>4 DEF SealInv, RowShape, RemoteShape
  <2>6. ASSUME NEW a \in Account, a # sync[p].acct PROVE Kept(a)
    <3>1. remote[a].start \in Int /\ today \in Int
      BY DEF SealInv, RowShape, RemoteShape
    <3> QED
      BY <1>1, <2>3, <2>6, <3>1 DEF Kept
  <2>7. ASSUME NEW a \in Account, a = sync[p].acct PROVE Good(a)
    <3>1. usage'[a] = new
      BY <2>3, <2>7
    <3>2. Stays(a)
      BY <1>1 DEF Stays
    <3>3. ASSUME ~overlap[a] PROVE InOrder(a)' /\ Overwritten(a)
      <4>1. /\ Apart(a) /\ Fresh(a) /\ Forward(a) /\ SealedAsIs(a) /\ sync'[p] = r /\ Apart(a)'
            /\ \A q \in Proc : Early(q, a)' \/ Holding(q, a)' => q = p
        BY <1>1, <2>1, <2>2, <2>7, <3>3, Alone
      <4>2. \A q \in Proc : ~Early(q, a)' /\ ~Holding(q, a)'
        BY <1>1, <2>1, <2>7, <4>1 DEF Early, Holding, Shape
      <4>3. /\ new.start <= remote[a].start
            /\ \A s \in Sealed(a) : s \in Int /\ s < new.start /\ s < remote[a].start
        BY <1>1, <2>7, <4>1 DEF Forward, Holding
      <4>4. Sealed(a)' = Sealed(a) /\ remote'[a] = remote[a]
        BY <1>1 DEF Sealed
      <4>5. Overwritten(a)
        BY <1>1, <2>7, <3>1, <4>1 DEF Overwritten, SealedAsIs
      <4>6. Fresh(a)'
        BY <4>2 DEF Fresh
      <4> HIDE DEF new
      <4>7. Forward(a)'
        BY <3>1, <4>2, <4>3, <4>4 DEF Forward
      <4>8. new.start \notin Sealed(a)
        BY <4>3
      <4>9. \A q \in Proc : ~(sync'[q].pc = "update" /\ sync'[q].acct = a)
        BY <4>2 DEF Holding
      <4>10. SealedAsIs(a)'
        BY <3>1, <4>4, <4>8, <4>9 DEF SealedAsIs
      <4> QED
        BY <4>1, <4>5, <4>6, <4>7, <4>10 DEF InOrder
    <3>4. overlap[a] => InOrder(a)' /\ Overwritten(a)
      BY <1>1 DEF InOrder, Overwritten, Serial
    <3> QED
      BY <3>2, <3>3, <3>4 DEF Good
  <2> QED
    BY <1>1, <2>1, <2>2, <2>5, <2>6, <2>7, OwnStep
<1> QED
  BY <1>2, <1>3 DEF SyncUpdate

-----------------------------------------------------------------------------
LEMMA InitSeal == Init => SealInv
<1> SUFFICES ASSUME Init PROVE SealInv
  OBVIOUS
<1>1. SyncShape /\ \A p \in Proc : sync[p].pc = "idle"
  BY IdleShape DEF Init, SyncShape
<1>2. Created \in Int /\ FirstStart \in Int
  BY LedgerAssumption DEF FirstStart
<1>3. ASSUME NEW a \in Account
      PROVE  /\ RemoteShape(remote[a]) /\ usage[a] = None /\ DOMAIN cycles[a] = {}
  <2>1. remote[a] = [start |-> FirstStart, used |-> Before, shown |-> Before]
    BY DEF Init
  <2>2. RemoteShape(remote[a])
    BY <1>2, <2>1 DEF RemoteShape
  <2> QED
    BY <2>2 DEF Init
<1>4. RowShape
  BY <1>2, <1>3 DEF Init, RowShape
<1>5. ASSUME NEW a \in Account PROVE InOrder(a)
  <2>1. \A p \in Proc : Under(p) = {} /\ ~Early(p, a) /\ ~Holding(p, a) /\ sync[p].pc # "update"
    BY <1>1 DEF Under, Early, Holding
  <2>2. Sealed(a) = {} /\ usage[a] = None
    BY <1>3 DEF Sealed
  <2> QED
    BY <2>1, <2>2 DEF InOrder, Apart, Fresh, Forward, SealedAsIs
<1> QED
  BY <1>1, <1>4, <1>5 DEF SealInv

LEMMA StutterGood == SealInv /\ UNCHANGED vars => AllGood
<1> SUFFICES ASSUME SealInv, UNCHANGED vars PROVE AllGood
  OBVIOUS
<1>1. UNCHANGED <<remote, usage, cycles, overlap, today>> /\ UNCHANGED sync
  BY DEF vars, tables, ghosts
<1> QED
  BY <1>1, RowsStay, StayCalm, QuietStep DEF SealInv

\* Every step keeps the invariant, and is as both properties have it.
LEMMA StepGood == SealInv /\ [Next]_vars => AllGood
<1> SUFFICES ASSUME SealInv, [Next]_vars PROVE AllGood
  OBVIOUS
<1>1. CASE World
  BY <1>1, NextDayGood, SpendGood, NextCycleGood, CatchUpGood DEF World
<1>2. ASSUME NEW p \in Proc, Step(p) PROVE AllGood
  BY <1>2, SyncFetchGood, SyncFailsGood, SyncSealGood, SyncUpdateGood, SyncMonthlyGood,
     SyncRecordGood, SyncCommitGood, CancelGood DEF Step
<1>3. ASSUME NEW p \in Proc, sync_all_accounts(p) PROVE AllGood
  BY <1>3, SyncStartGood DEF sync_all_accounts
<1>4. ASSUME NEW p \in Proc, NEW a \in Account, sync_my_account(p, a) PROVE AllGood
  BY <1>4, SyncStartGood DEF sync_my_account
<1>5. ASSUME NEW a \in Account, unbind(a) \/ repair_calendar_token_deltas(a) PROVE AllGood
  BY <1>5, UnbindGood, RepairGood
<1>6. CASE cleanup_cursor_usage_history
  BY <1>6, CleanupGood
<1>7. CASE UNCHANGED vars
  BY <1>7, StutterGood
<1> QED
  BY <1>1, <1>2, <1>3, <1>4, <1>5, <1>6, <1>7 DEF Next

\* Before the account row takes up a new cycle, the row of the old one is sealed
\* with the last the account row knew of it (_finalize_monthly_usage_if_cycle_changed
\* before the update), unless syncs of the account have overlapped: for any
\* accounts, processes and cycles, across syncs cut short, failed and repeated.
THEOREM CyclesAreSealed == Spec => SealedBeforeOverwrite
<1>1. SealInv /\ [Next]_vars => SealInv'
  BY StepGood DEF AllGood, Good, SealInv
<1>2. SealInv /\ [Next]_vars =>
        [\A a \in Account :
           LET old == usage[a]
               new == usage'[a]
           IN  Serial(a) /\ old # None /\ new # None /\ old.start # new.start
                   /\ EndOf(old.start) >= today - KeptCycles * MonthDays
               => /\ old.start \in DOMAIN cycles[a]
                  /\ cycles[a][old.start] =
                        [total |-> old.total, pct |-> old.pct, final |-> TRUE]]_vars
  BY StepGood DEF AllGood, Good, Overwritten, Within, Horizon, SealOf
<1> QED
  BY InitSeal, <1>1, <1>2, PTL DEF Spec, SealedBeforeOverwrite

\* A sealed row stays as it is (_upsert_monthly_usage leaves it alone, a cycle is
\* sealed again only as it was), unless syncs of the account have overlapped: then
\* it may be sealed anew, but is never opened.
THEOREM SealedRowsStay == Spec => SealedStays
<1>1. SealInv /\ [Next]_vars => SealInv'
  BY StepGood DEF AllGood, Good, SealInv
<1>2. SealInv /\ [Next]_vars =>
        [\A a \in Account : \A s \in DOMAIN cycles[a] \cap DOMAIN cycles'[a] :
           cycles[a][s].final /\ cycles'[a][s] # cycles[a][s]
             => /\ cycles'[a][s].final
                /\ ~Serial(a)
                /\ \E p \in Proc : sync[p].pc = "seal" /\ sync[p].acct = a]_vars
  BY StepGood DEF AllGood, Good, Stays
<1> QED
  BY InitSeal, <1>1, <1>2, PTL DEF Spec, SealedStays

=============================================================================
