----------------------------- MODULE PoolProofs -----------------------------
(***************************************************************************)
(* Proofs about AccountPool, for any accounts, processes, configurations   *)
(* and bounds: the circuits count failures; a configuration that was       *)
(* written is read back; an acquire tries whom it can; and the automatic   *)
(* policy settles, and leaves alone what was done by hand.                 *)
(***************************************************************************)
EXTENDS AccountPool, FiniteSetTheorems, WellFoundedInduction, TLAPS

\* The locals of a call, whatever they hold.
Locals == {"pc", "todo", "source", "snap", "conf", "rows", "members", "tried", "current",
           "prefer", "left", "base"}
Shape(r) == DOMAIN r = Locals /\ r = [f \in Locals |-> r[f]]

\* A row of the pool, whatever it holds.
MemberShape(m) ==
    LET fields == {"state", "source", "snap", "fails", "open"}
    IN  DOMAIN m = fields /\ m = [f \in fields |-> m[f]]

ShapeInv ==
    /\ DOMAIN op = Proc /\ op = [p \in Proc |-> op[p]]
    /\ DOMAIN member = Account /\ member = [a \in Account |-> member[a]]
    /\ \A p \in Proc : Shape(op[p])
    /\ \A a \in Account : MemberShape(member[a])
    /\ failures \in [Account -> Nat]
    /\ mixed \in [Account -> BOOLEAN]

\* Renter u is about to write back the count of a.
Writing(u, a) == op[u].pc = "failWrite" /\ op[u].prefer = a

\* Unless records of it overlapped, the count of a is that of its failures, and
\* one renter at most is to write it back, who has read it as it is.
Counted(a) ==
    Listed(member[a]) /\ ~mixed[a] =>
        /\ member[a].fails = failures[a]
        /\ \A u \in Renter : Writing(u, a) => op[u].base = member[a].fails
        /\ \A u, v \in Renter : Writing(u, a) /\ Writing(v, a) => u = v

CountedInv == \A a \in Account : Counted(a)

CircuitInv == ShapeInv /\ CountedInv

-----------------------------------------------------------------------------
LEMMA CircuitImplies == CircuitInv => CircuitCounts
  BY DEF CircuitInv, CountedInv, Counted, CircuitCounts

LEMMA IdleShape == Shape(Idle) /\ Idle.pc = "idle"
  BY DEF Shape, Idle, Locals

LEMMA NoMemberShape == MemberShape(NoMember)
  BY DEF MemberShape, NoMember


\* Nobody goes on to write a count back who was not to before.
Calm ==
    /\ DOMAIN op' = Proc /\ op' = [q \in Proc |-> op'[q]]
    /\ \A q \in Proc : Shape(op'[q]) /\ (op'[q] = op[q] \/ op'[q].pc # "failWrite")

\* What the rows of the pool are after a step but for those of S.
Kept(S) ==
    /\ DOMAIN member' = Account /\ member' = [a \in Account |-> member'[a]]
    /\ \A a \in Account : MemberShape(member'[a])
    /\ failures' \in [Account -> Nat] /\ mixed' \in [Account -> BOOLEAN]
    /\ \A a \in Account \ S :
         /\ failures'[a] = failures[a] /\ mixed'[a] = mixed[a]
         /\ member'[a].fails = member[a].fails
         /\ Listed(member'[a]) => Listed(member[a])

LEMMA CalmShape ==
  ASSUME ShapeInv, NEW p \in Proc, NEW r, Become(p, r), Shape(r)
  PROVE  /\ DOMAIN op' = Proc /\ op' = [q \in Proc |-> op'[q]]
         /\ \A q \in Proc : op'[q] = IF q = p THEN r ELSE op[q]
         /\ \A q \in Proc : Shape(op'[q])
<1>1. op' = [op EXCEPT ![p] = r] /\ DOMAIN op = Proc /\ op = [q \in Proc |-> op[q]]
  BY DEF Become, ShapeInv
<1>2. \A q \in Proc : op'[q] = IF q = p THEN r ELSE op[q]
  BY <1>1
<1> QED
  BY <1>1, <1>2 DEF ShapeInv

LEMMA BecomeCalm ==
  ASSUME ShapeInv, NEW p \in Proc, NEW r, Become(p, r), Shape(r), r.pc # "failWrite"
  PROVE  Calm
  BY CalmShape DEF Calm

LEMMA StayCalm == ShapeInv /\ UNCHANGED op => Calm
  BY DEF ShapeInv, Calm

LEMMA IdleCalm ==
  ASSUME ShapeInv, NEW p \in Proc, Become(p, Idle)
  PROVE  Calm
  BY IdleShape, BecomeCalm

LEMMA GotoCalm ==
  ASSUME ShapeInv, NEW p \in Proc, NEW l, l # "failWrite", Goto(p, l)
  PROVE  Calm
<1> DEFINE r == [op[p] EXCEPT !.pc = l]
<1>1. Shape(op[p])
  BY DEF ShapeInv
<1>2. Shape(r) /\ r.pc = l
  BY <1>1 DEF Shape, Locals
<1>3. Become(p, r)
  BY DEF Goto
<1> HIDE DEF r
<1> QED
  BY <1>2, <1>3, BecomeCalm

LEMMA FollowingCalm ==
  ASSUME ShapeInv, NEW p \in Proc, NEW l, l # "failWrite", NEW after, after # "failWrite",
         Following(p, l, after)
  PROVE  Calm
<1>1. CASE Become(p, [op[p] EXCEPT !.pc = l, !.todo = Tail(@)])
  <2> DEFINE r == [op[p] EXCEPT !.pc = l, !.todo = Tail(@)]
  <2>1. Shape(op[p])
    BY DEF ShapeInv
  <2>2. Shape(r) /\ r.pc = l
    BY <2>1 DEF Shape, Locals
  <2>3. Become(p, r)
    BY <1>1
  <2> HIDE DEF r
  <2> QED
    BY <2>2, <2>3, BecomeCalm
<1>2. CASE Become(p, Idle)
  BY <1>2, IdleCalm
<1>3. CASE Goto(p, after)
  BY <1>3, GotoCalm
<1> QED
  BY <1>1, <1>2, <1>3 DEF Following

LEMMA FailsCalm ==
  ASSUME ShapeInv, NEW p \in Proc, NEW l, l # "failWrite", NEW after, after # "failWrite",
         Fails(p, l, after)
  PROVE  Calm
  BY IdleCalm, FollowingCalm DEF Fails

-----------------------------------------------------------------------------
\* A step after which the counts outside S are what they were.
LEMMA OthersKept ==
  ASSUME CircuitInv, Calm, NEW S, Kept(S)
  PROVE  ShapeInv' /\ \A a \in Account \ S : Counted(a)'
<1>1. ShapeInv'
  BY DEF Calm, Kept, ShapeInv
<1>2. ASSUME NEW a \in Account \ S PROVE Counted(a)'
  <2>1. \A q \in Renter : Writing(q, a)' => Writing(q, a) /\ op'[q].base = op[q].base
    BY DEF Writing, Calm, Proc
  <2>2. Counted(a)
    BY DEF CircuitInv, CountedInv
  <2>3. /\ failures'[a] = failures[a] /\ mixed'[a] = mixed[a]
        /\ member'[a].fails = member[a].fails
        /\ Listed(member'[a]) => Listed(member[a])
    BY DEF Kept
  <2> QED
    BY <2>1, <2>2, <2>3 DEF Counted
<1> QED
  BY <1>1, <1>2

LEMMA AllKept ==
  ASSUME CircuitInv, Calm, Kept({})
  PROVE  CircuitInv'
  BY OthersKept DEF CircuitInv, CountedInv

\* The count of a begins anew, for all but those who still hold the old one.
LEMMA OneReset ==
  ASSUME CircuitInv, Calm, NEW p \in Proc, NEW a \in Account, Kept({a}),
         op'[p].pc # "failWrite",
         member'[a].fails = 0, failures'[a] = 0, mixed'[a] = Overlaps(p, a)
  PROVE  CircuitInv'
<1>1. ShapeInv' /\ \A b \in Account \ {a} : Counted(b)'
  BY OthersKept
<1>2. ASSUME ~mixed'[a], NEW q \in Renter PROVE ~Writing(q, a)'
  <2>1. ~Overlaps(p, a)
    BY <1>2
  <2> QED
    BY <2>1 DEF Overlaps, Writing, Calm, Proc
<1>3. Counted(a)'
  BY <1>2 DEF Counted
<1> QED
  BY <1>1, <1>3 DEF CircuitInv, CountedInv

\* A step that changes the row of one account, if any.
LEMMA RowChange ==
  ASSUME ShapeInv, NEW a, NEW m, member' = [member EXCEPT ![a] = m],
         a \in Account => MemberShape(m),
         failures' \in [Account -> Nat], mixed' \in [Account -> BOOLEAN],
         \A b \in Account \ {a} : failures'[b] = failures[b] /\ mixed'[b] = mixed[b]
  PROVE  Kept({a}) /\ (a \in Account => member'[a] = m)
  BY DEF ShapeInv, Kept

LEMMA SameCount ==
  ASSUME ShapeInv, NEW a, NEW m, member' = [member EXCEPT ![a] = m],
         a \in Account => MemberShape(m) /\ m.fails = member[a].fails /\ (Listed(m) => Listed(member[a])),
         UNCHANGED <<failures, mixed>>
  PROVE  Kept({})
<1>1. /\ DOMAIN member = Account /\ member = [b \in Account |-> member[b]]
      /\ failures \in [Account -> Nat] /\ mixed \in [Account -> BOOLEAN]
      /\ \A b \in Account : MemberShape(member[b])
  BY DEF ShapeInv
<1>2. \A b \in Account : member'[b] = IF b = a THEN m ELSE member[b]
  BY <1>1
<1> QED
  BY <1>1, <1>2 DEF Kept

LEMMA NoChange == ShapeInv /\ UNCHANGED <<member, failures, mixed>> => Kept({})
  BY DEF ShapeInv, Kept

-----------------------------------------------------------------------------
LEMMA CircuitInit == Init => CircuitInv
<1> SUFFICES ASSUME Init PROVE CircuitInv
  OBVIOUS
<1>1. /\ member = [a \in Account |-> NoMember] /\ op = [p \in Proc |-> Idle]
      /\ failures = [a \in Account |-> 0] /\ mixed = [a \in Account |-> FALSE]
  BY DEF Init
<1>2. ShapeInv
  BY <1>1, IdleShape, NoMemberShape DEF ShapeInv
<1>3. NoMember.fails = 0
  BY DEF NoMember
<1>4. \A p \in Proc : op[p].pc = "idle"
  BY <1>1, IdleShape
<1>5. CountedInv
  BY <1>1, <1>3, <1>4 DEF CountedInv, Counted, Writing, Proc
<1> QED
  BY <1>2, <1>5 DEF CircuitInv

\* The steps that leave the rows of the pool alone, and write no count.
LEMMA AsideKeeps ==
  ASSUME CircuitInv, Calm, UNCHANGED <<member, failures, mixed>>
  PROVE  CircuitInv'
  BY NoChange, AllKept DEF CircuitInv

LEMMA AdminKeeps == \A p \in Admin : CircuitInv /\ AdminStep(p) => CircuitInv'
<1> SUFFICES ASSUME NEW p \in Admin, CircuitInv, AdminStep(p) PROVE CircuitInv'
  OBVIOUS
<1>a. p \in Proc /\ ShapeInv
  BY DEF Proc, CircuitInv
<1>1. ASSUME NEW accounts, StartAdd(p, accounts) PROVE CircuitInv'
  <2> DEFINE r == [Idle EXCEPT !.pc = "add", !.todo = accounts]
  <2>1. Shape(r) /\ r.pc = "add"
    BY DEF Idle, Shape, Locals
  <2>2. Become(p, r) /\ UNCHANGED <<member, failures, mixed>>
    BY <1>1 DEF StartAdd, tables
  <2> HIDE DEF r
  <2> QED
    BY <1>a, <2>1, <2>2, BecomeCalm, AsideKeeps
<1>2. ASSUME NEW accounts, StartRemove(p, accounts) PROVE CircuitInv'
  <2> DEFINE r == [Idle EXCEPT !.pc = "drop", !.todo = accounts]
  <2>1. Shape(r) /\ r.pc = "drop"
    BY DEF Idle, Shape, Locals
  <2>2. Become(p, r) /\ UNCHANGED <<member, failures, mixed>>
    BY <1>2 DEF StartRemove, tables
  <2> HIDE DEF r
  <2> QED
    BY <1>a, <2>1, <2>2, BecomeCalm, AsideKeeps
<1>3. ASSUME NEW a \in Account, NEW enabled \in BOOLEAN, update_member(p, a, enabled) PROVE CircuitInv'
  <2> DEFINE state == IF enabled THEN "enabled" ELSE "disabled"
             m == [member[a] EXCEPT !.state = state]
  <2>1. MemberShape(member[a])
    BY <1>a DEF ShapeInv
  <2>2. MemberShape(m) /\ m.fails = member[a].fails
    BY <2>1 DEF MemberShape
  <2>3. Listed(member[a]) /\ member' = [member EXCEPT ![a] = m] /\ UNCHANGED <<op, failures, mixed>>
    BY <1>3 DEF update_member
  <2> HIDE DEF m
  <2>4. Kept({})
    BY <1>a, <2>2, <2>3, SameCount
  <2> QED
    BY <1>a, <2>3, <2>4, StayCalm, AllKept
<1>4. CASE ConfigRead(p)
  <2> DEFINE r == [Idle EXCEPT !.pc = "config", !.conf = get_config(config)]
  <2>1. Shape(r) /\ r.pc = "config"
    BY DEF Idle, Shape, Locals
  <2>2. Become(p, r) /\ UNCHANGED <<member, failures, mixed>>
    BY <1>4 DEF ConfigRead, tables
  <2> HIDE DEF r
  <2> QED
    BY <1>a, <2>1, <2>2, BecomeCalm, AsideKeeps
<1>5. ASSUME NEW payload \in Payload, ConfigWrite(p, payload) PROVE CircuitInv'
  BY <1>5, <1>a, IdleCalm, AsideKeeps DEF ConfigWrite
<1> QED
  BY <1>1, <1>2, <1>3, <1>4, <1>5 DEF AdminStep

LEMMA JoinCalm ==
  ASSUME ShapeInv, NEW p \in Proc, NEW r, Shape(r), NEW members, JoinPhase(p, r, members)
  PROVE  Calm
<1> DEFINE joins == Sorted(Joins(r.rows, r.conf, members, r.members))
           next == [r EXCEPT !.pc = "add", !.todo = joins, !.members = None]
<1>1. Shape(next) /\ next.pc = "add"
  BY DEF Shape, Locals
<1>2. Become(p, Idle) \/ Become(p, next)
  BY DEF JoinPhase
<1> HIDE DEF next
<1> QED
  BY <1>1, <1>2, IdleCalm, BecomeCalm

LEMMA WorkerKeeps == \A p \in Worker : CircuitInv /\ WorkerStep(p) => CircuitInv'
<1> SUFFICES ASSUME NEW p \in Worker, CircuitInv, WorkerStep(p) PROVE CircuitInv'
  OBVIOUS
<1>a. p \in Proc /\ ShapeInv /\ Shape(op[p])
  BY DEF Proc, CircuitInv, ShapeInv
<1>1. CASE StartPolicy(p)
  <2> DEFINE conf == get_config(config)
             r == [Idle EXCEPT !.pc = "snapshot", !.conf = conf, !.source = "auto"]
  <2>1. Shape(r) /\ r.pc = "snapshot"
    BY DEF Idle, Shape, Locals
  <2>2. Become(p, r) /\ UNCHANGED <<member, failures, mixed>>
    BY <1>1 DEF StartPolicy, tables
  <2> HIDE DEF r
  <2> QED
    BY <1>a, <2>1, <2>2, BecomeCalm, AsideKeeps
<1>2. CASE PolicySnapshot(p)
  <2> DEFINE r == [op[p] EXCEPT !.rows = row, !.members = member]
             stale == IF r.conf.auto_pool_remove_on_cycle_refresh THEN Stale(row, member) ELSE {}
             drop == [r EXCEPT !.pc = "drop", !.todo = Sorted(stale)]
             refresh == [r EXCEPT !.pc = "refresh"]
  <2>1. /\ Become(p, drop) \/ Become(p, refresh) \/ JoinPhase(p, r, member)
        /\ UNCHANGED <<member, failures, mixed>>
    BY <1>2 DEF PolicySnapshot, tables
  <2>2. Shape(r)
    BY <1>a DEF Shape, Locals
  <2> HIDE DEF r, stale
  <2>3. Shape(drop) /\ drop.pc = "drop" /\ Shape(refresh) /\ refresh.pc = "refresh"
    BY <2>2 DEF Shape, Locals
  <2> HIDE DEF drop, refresh
  <2>4. Calm
    BY <1>a, <2>1, <2>2, <2>3, BecomeCalm, JoinCalm
  <2> QED
    BY <2>1, <2>4, AsideKeeps
<1>3. CASE PolicyRefresh(p)
  <2>1. JoinPhase(p, op[p], member) /\ UNCHANGED <<member, failures, mixed>>
    BY <1>3 DEF PolicyRefresh, tables
  <2> QED
    BY <1>a, <2>1, JoinCalm, AsideKeeps
<1>4. CASE StartReview(p)
  <2> DEFINE doubted == {a \in Account : /\ member[a].state = "enabled" /\ row[a] # None
                                         /\ member[a].fails >= ReviewAt}
             r == [Idle EXCEPT !.pc = "mark", !.todo = Sorted(doubted)]
  <2>1. Shape(r) /\ r.pc = "mark"
    BY DEF Idle, Shape, Locals
  <2>2. Become(p, r) /\ UNCHANGED <<member, failures, mixed>>
    BY <1>4 DEF StartReview, tables
  <2> HIDE DEF r
  <2> QED
    BY <1>a, <2>1, <2>2, BecomeCalm, AsideKeeps
<1>5. CASE _maybe_mark_bind_invalid(p)
  <2>1. Following(p, "mark", "idle") /\ UNCHANGED <<member, failures, mixed>>
    BY <1>5 DEF _maybe_mark_bind_invalid
  <2> QED
    BY <1>a, <2>1, FollowingCalm, AsideKeeps
<1> QED
  BY <1>1, <1>2, <1>3, <1>4, <1>5 DEF WorkerStep

LEMMA AddKeeps == \A p \in Admin \cup Worker : CircuitInv /\ AddWrite(p) => CircuitInv'
<1> SUFFICES ASSUME NEW p \in Admin \cup Worker, CircuitInv, AddWrite(p) PROVE CircuitInv'
  OBVIOUS
<1> DEFINE r == op[p]
           a == Head(r.todo)
           made == [NoMember EXCEPT !.state = "enabled", !.source = r.source, !.snap = r.snap]
           again == [made EXCEPT !.fails = member[a].fails, !.open = member[a].open]
<1>1. p \in Proc /\ ShapeInv /\ Following(p, "add", "idle")
  BY DEF Proc, CircuitInv, AddWrite
<1>2. Calm
  BY <1>1, FollowingCalm
<1>3. MemberShape(made) /\ made.fails = 0
  BY DEF MemberShape, NoMember
<1> HIDE DEF made
<1>4. CASE Listed(member[a])
  <2>1. MemberShape(again) /\ again.fails = member[a].fails
    BY <1>3 DEF MemberShape
  <2>2. member' = [member EXCEPT ![a] = again] /\ UNCHANGED <<failures, mixed>>
    BY <1>4 DEF AddWrite, made
  <2> HIDE DEF again, a
  <2>3. Kept({})
    BY <1>1, <1>4, <2>1, <2>2, SameCount
  <2> QED
    BY <1>2, <2>3, AllKept
<1>5. CASE ~Listed(member[a])
  <2> DEFINE met == Overlaps(p, a)
  <2>1. /\ member' = [member EXCEPT ![a] = made]
        /\ failures' = [failures EXCEPT ![a] = 0]
        /\ mixed' = [mixed EXCEPT ![a] = met]
    BY <1>5 DEF AddWrite, made
  <2>2. met \in BOOLEAN /\ failures \in [Account -> Nat] /\ mixed \in [Account -> BOOLEAN]
    BY <1>1 DEF Overlaps, ShapeInv
  <2>p. op'[p].pc # "failWrite"
    <3>1. op[p].pc = "addWrite"
      BY DEF AddWrite
    <3> QED
      BY <1>1, <1>2, <3>1 DEF Calm
  <2>m. met = Overlaps(p, a)
    OBVIOUS
  <2> HIDE DEF a, met
  <2>3. /\ failures' \in [Account -> Nat] /\ mixed' \in [Account -> BOOLEAN]
        /\ \A b \in Account \ {a} : failures'[b] = failures[b] /\ mixed'[b] = mixed[b]
    BY <2>1, <2>2
  <2>4. Kept({a}) /\ (a \in Account => member'[a] = made)
    BY <1>1, <1>3, <2>1, <2>3, RowChange
  <2>5. CASE a \in Account
    <3>1. member'[a].fails = 0 /\ failures'[a] = 0 /\ mixed'[a] = Overlaps(p, a)
      BY <1>3, <2>1, <2>2, <2>4, <2>5, <2>m
    <3> QED
      BY <1>1, <1>2, <2>4, <2>5, <2>p, <3>1, OneReset
  <2>6. CASE a \notin Account
    <3>1. ShapeInv' /\ \A b \in Account \ {a} : Counted(b)'
      BY <1>2, <2>4, OthersKept
    <3> QED
      BY <2>6, <3>1 DEF CircuitInv, CountedInv
  <2> QED
    BY <2>5, <2>6
<1> QED
  BY <1>4, <1>5

LEMMA MemberKeeps == \A p \in Admin \cup Worker : CircuitInv /\ MemberStep(p) => CircuitInv'
<1> SUFFICES ASSUME NEW p \in Admin \cup Worker, CircuitInv, MemberStep(p) PROVE CircuitInv'
  OBVIOUS
<1>a. p \in Proc /\ ShapeInv /\ Shape(op[p])
  BY DEF Proc, CircuitInv, ShapeInv
<1>1. CASE AddRead(p)
  <2> DEFINE snap == IF op[p].source = "manual" THEN None ELSE op[p].rows[Head(op[p].todo)].raw.start
             r == [op[p] EXCEPT !.pc = "addWrite", !.snap = snap]
  <2>1. Shape(r) /\ r.pc = "addWrite"
    BY <1>a DEF Shape, Locals
  <2>2. /\ Fails(p, "add", "idle") \/ Become(p, r)
        /\ UNCHANGED <<member, failures, mixed>>
    BY <1>1 DEF AddRead, tables
  <2> HIDE DEF r
  <2> QED
    BY <1>a, <2>1, <2>2, FailsCalm, BecomeCalm, AsideKeeps
<1>2. CASE AddWrite(p)
  BY <1>2, AddKeeps
<1>3. CASE RemoveWrite(p)
  <2> DEFINE a == Head(op[p].todo)
             m == [member[a] EXCEPT !.state = "removed"]
  <2>1. CASE member' = [member EXCEPT ![a].state = "removed"] /\ Goto(p, "release") /\ Listed(member[a])
    <3>1. a \in Account => MemberShape(member[a])
      BY <1>a DEF ShapeInv
    <3>2. a \in Account => MemberShape(m) /\ m.fails = member[a].fails
      BY <3>1 DEF MemberShape
    <3>3. member' = [member EXCEPT ![a] = m] /\ UNCHANGED <<failures, mixed>>
      BY <1>3, <2>1 DEF RemoveWrite
    <3> HIDE DEF a, m
    <3>4. Kept({})
      BY <1>a, <2>1, <3>2, <3>3, SameCount
    <3> QED
      BY <1>a, <2>1, <3>4, GotoCalm, AllKept
  <2>2. CASE UNCHANGED member /\ Fails(p, "drop", "refresh")
    <3>1. UNCHANGED <<failures, mixed>>
      BY <1>3 DEF RemoveWrite
    <3> QED
      BY <1>a, <2>2, <3>1, FailsCalm, AsideKeeps
  <2> QED
    BY <1>3, <2>1, <2>2 DEF RemoveWrite
<1>4. CASE release_by_account(p)
  <2>1. /\ Following(p, "drop", "idle") \/ Following(p, "drop", "refresh")
        /\ UNCHANGED <<member, failures, mixed>>
    BY <1>4 DEF release_by_account, tables
  <2> QED
    BY <1>a, <2>1, FollowingCalm, AsideKeeps
<1> QED
  BY <1>1, <1>2, <1>3, <1>4 DEF MemberStep

LEMMA ExcludedShape ==
  ASSUME NEW r, Shape(r)
  PROVE  Shape(Excluded(r)) /\ Excluded(r).pc = "select"
  BY DEF Excluded, Shape, Locals

\* A renter reads the count, and is the only one unless the ghost says so.
LEMMA FailReadKeeps == \A u \in Renter : CircuitInv /\ FailRead(u) => CircuitInv'
<1> SUFFICES ASSUME NEW u \in Renter, CircuitInv, FailRead(u) PROVE CircuitInv'
  OBVIOUS
<1>a. u \in Proc /\ ShapeInv /\ Shape(op[u])
  BY DEF Proc, CircuitInv, ShapeInv
<1> DEFINE a == op[u].prefer
           r == [op[u] EXCEPT !.pc = "failWrite", !.base = member[a].fails]
           met == Overlaps(u, a)
<1>1. CASE Become(u, Excluded(op[u])) /\ UNCHANGED mixed
  <2>1. UNCHANGED <<member, failures>>
    BY <1>1 DEF FailRead, tables
  <2> QED
    BY <1>1, <1>a, <2>1, ExcludedShape, BecomeCalm, AsideKeeps
<1>2. CASE Become(u, r) /\ mixed' = [mixed EXCEPT ![a] = @ \/ met]
  <2>1. Shape(r) /\ r.pc = "failWrite" /\ r.base = member[a].fails /\ r.prefer = a
    BY <1>a DEF Shape, Locals
  <2>2. UNCHANGED <<member, failures>>
    BY <1>2 DEF FailRead, tables
  <2>3. met \in BOOLEAN
    BY DEF Overlaps
  <2>m. ~met => \A q \in Renter \ {u} : ~Writing(q, a)
    BY DEF Overlaps, Writing
  <2> HIDE DEF r, met
  <2>4. /\ DOMAIN op' = Proc /\ op' = [q \in Proc |-> op'[q]]
        /\ \A q \in Proc : op'[q] = IF q = u THEN r ELSE op[q]
        /\ \A q \in Proc : Shape(op'[q])
    BY <1>2, <1>a, <2>1, CalmShape
  <2>5. mixed \in [Account -> BOOLEAN]
    BY <1>a DEF ShapeInv
  <2> HIDE DEF a
  <2>6. /\ mixed' \in [Account -> BOOLEAN]
        /\ \A b \in Account \ {a} : mixed'[b] = mixed[b]
        /\ a \in Account /\ ~mixed'[a] => ~mixed[a] /\ ~met
    BY <1>2, <2>3, <2>5
  <2>7. ShapeInv'
    BY <1>a, <2>2, <2>4, <2>6 DEF ShapeInv
  <2>8. ASSUME NEW b \in Account PROVE Counted(b)'
    <3>1. Counted(b)
      BY DEF CircuitInv, CountedInv
    <3>2. CASE b # a
      <4>1. \A q \in Renter : Writing(q, b)' => Writing(q, b) /\ op'[q].base = op[q].base
        BY <2>1, <2>4, <3>2 DEF Writing, Proc
      <4> QED
        BY <2>2, <2>6, <3>1, <3>2, <4>1 DEF Counted
    <3>3. CASE b = a /\ ~mixed'[b]
      <4>1. \A q \in Renter : Writing(q, b)' => q = u
        BY <2>4, <2>6, <2>m, <3>3 DEF Writing, Proc
      <4>2. op'[u].base = member'[b].fails
        BY <1>a, <2>1, <2>2, <2>4, <3>3
      <4> QED
        BY <2>2, <2>6, <3>1, <3>3, <4>1, <4>2 DEF Counted
    <3>4. CASE mixed'[b]
      BY <3>4 DEF Counted
    <3> QED
      BY <3>2, <3>3, <3>4
  <2> QED
    BY <2>7, <2>8 DEF CircuitInv, CountedInv
<1> QED
  BY <1>1, <1>2 DEF FailRead

\* What it writes back is one more than the count is.
LEMMA FailWriteKeeps == \A u \in Renter : CircuitInv /\ FailWrite(u) => CircuitInv'
<1> SUFFICES ASSUME NEW u \in Renter, CircuitInv, FailWrite(u) PROVE CircuitInv'
  OBVIOUS
<1>a. u \in Proc /\ ShapeInv /\ Shape(op[u])
  BY DEF Proc, CircuitInv, ShapeInv
<1> DEFINE a == op[u].prefer
           n == op[u].base + 1
           open == member[a].open \/ n >= op[u].conf.circuit_fail_threshold
           m == [member[a] EXCEPT !.fails = n, !.open = open]
<1>1. Become(u, Excluded(op[u])) /\ Writing(u, a)
  BY DEF FailWrite, Writing
<1>2. Calm
  BY <1>1, <1>a, ExcludedShape, BecomeCalm
<1>3. /\ member' = [member EXCEPT ![a] = m]
      /\ failures' = [failures EXCEPT ![a] = @ + 1] /\ mixed' = mixed
  BY DEF FailWrite
<1>4. a \in Account => MemberShape(member[a])
  BY <1>a DEF ShapeInv
<1>5. a \in Account => MemberShape(m) /\ m.fails = n /\ m.state = member[a].state
  BY <1>4 DEF MemberShape
<1>6. \A q \in Renter : op'[q] = op[q] \/ op'[q].pc # "failWrite"
  BY <1>2 DEF Calm, Proc
<1>7. op'[u].pc # "failWrite"
  BY <1>1, <1>a, CalmShape, ExcludedShape
<1>n. n = op[u].base + 1
  OBVIOUS
<1> HIDE DEF a, m, n
<1>8. /\ failures \in [Account -> Nat] /\ mixed \in [Account -> BOOLEAN]
  BY <1>a DEF ShapeInv
<1>9. /\ failures' \in [Account -> Nat] /\ mixed' \in [Account -> BOOLEAN]
      /\ \A b \in Account \ {a} : failures'[b] = failures[b] /\ mixed'[b] = mixed[b]
      /\ a \in Account => failures'[a] = failures[a] + 1
  <2> DEFINE more == failures[a] + 1
  <2>1. failures' = [failures EXCEPT ![a] = more]
    BY <1>3
  <2>2. a \in Account => more \in Nat
    BY <1>8
  <2>3. more = failures[a] + 1
    OBVIOUS
  <2> HIDE DEF more
  <2>4. failures' \in [Account -> Nat] /\ (a \in Account => failures'[a] = more)
    BY <1>8, <2>1, <2>2
  <2>5. \A b \in Account \ {a} : failures'[b] = failures[b]
    BY <1>8, <2>1
  <2> QED
    BY <1>3, <1>8, <2>3, <2>4, <2>5
<1>10. Kept({a}) /\ (a \in Account => member'[a] = m)
  BY <1>3, <1>5, <1>9, <1>a, RowChange
<1>11. ShapeInv' /\ \A b \in Account \ {a} : Counted(b)'
  BY <1>2, <1>10, OthersKept
<1>12. ASSUME NEW b \in Account, b = a PROVE Counted(b)'
  <2> SUFFICES ASSUME Listed(member'[b]), ~mixed'[b]
               PROVE  /\ member'[b].fails = failures'[b]
                      /\ \A q \in Renter : ~(op'[q].pc = "failWrite" /\ op'[q].prefer = b)
    BY DEF Counted, Writing
  <2>1. Listed(member[b]) /\ ~mixed[b]
    BY <1>3, <1>5, <1>10, <1>12 DEF Listed
  <2>2. /\ member[b].fails = failures[b] /\ op[u].base = member[b].fails
        /\ \A q \in Renter : Writing(q, b) => q = u
    BY <1>1, <1>12, <2>1 DEF CircuitInv, CountedInv, Counted
  <2>3. member'[b].fails = failures'[b]
    BY <1>5, <1>9, <1>10, <1>12, <1>n, <2>2
  <2>4. \A q \in Renter : ~(op'[q].pc = "failWrite" /\ op'[q].prefer = b)
    BY <1>6, <1>7, <2>2 DEF Writing
  <2> QED
    BY <2>3, <2>4
<1> QED
  BY <1>11, <1>12 DEF CircuitInv, CountedInv

LEMMA SuccessKeeps == \A u \in Renter : CircuitInv /\ record_account_success(u) => CircuitInv'
<1> SUFFICES ASSUME NEW u \in Renter, CircuitInv, record_account_success(u) PROVE CircuitInv'
  OBVIOUS
<1>a. u \in Proc /\ ShapeInv /\ Shape(op[u])
  BY DEF Proc, CircuitInv, ShapeInv
<1> DEFINE a == op[u].prefer
           m == [member[a] EXCEPT !.fails = 0, !.open = FALSE]
           met == Overlaps(u, a)
<1>1. Become(u, Idle)
  BY DEF record_account_success
<1>2. Calm
  BY <1>1, <1>a, IdleCalm
<1>3. CASE UNCHANGED <<member, failures, mixed>>
  BY <1>2, <1>3, AsideKeeps
<1>4. CASE /\ member' = [member EXCEPT ![a] = m]
           /\ failures' = [failures EXCEPT ![a] = 0]
           /\ mixed' = [mixed EXCEPT ![a] = met]
  <2>1. a \in Account => MemberShape(member[a])
    BY <1>a DEF ShapeInv
  <2>2. a \in Account => MemberShape(m) /\ m.fails = 0
    BY <2>1 DEF MemberShape
  <2>3. met \in BOOLEAN /\ failures \in [Account -> Nat] /\ mixed \in [Account -> BOOLEAN]
    BY <1>a DEF Overlaps, ShapeInv
  <2>4. op'[u].pc # "failWrite"
    BY <1>1, <1>a, CalmShape, IdleShape
  <2>5. met = Overlaps(u, a)
    OBVIOUS
  <2> HIDE DEF a, m, met
  <2>6. /\ failures' \in [Account -> Nat] /\ mixed' \in [Account -> BOOLEAN]
        /\ \A b \in Account \ {a} : failures'[b] = failures[b] /\ mixed'[b] = mixed[b]
    BY <1>4, <2>3
  <2>7. Kept({a}) /\ (a \in Account => member'[a] = m)
    BY <1>4, <1>a, <2>2, <2>6, RowChange
  <2>8. CASE a \in Account
    <3>1. member'[a].fails = 0 /\ failures'[a] = 0 /\ mixed'[a] = Overlaps(u, a)
      BY <1>4, <2>2, <2>3, <2>5, <2>7, <2>8
    <3> QED
      BY <1>2, <1>a, <2>4, <2>7, <2>8, <3>1, OneReset
  <2>9. CASE a \notin Account
    <3>1. ShapeInv' /\ \A b \in Account \ {a} : Counted(b)'
      BY <1>2, <2>7, OthersKept
    <3> QED
      BY <2>9, <3>1 DEF CircuitInv, CountedInv
  <2> QED
    BY <2>8, <2>9
<1> QED
  BY <1>3, <1>4 DEF record_account_success

LEMMA RenterKeeps == \A u \in Renter : CircuitInv /\ RenterStep(u) => CircuitInv'
<1> SUFFICES ASSUME NEW u \in Renter, CircuitInv, RenterStep(u) PROVE CircuitInv'
  OBVIOUS
<1>a. u \in Proc /\ ShapeInv /\ Shape(op[u])
  BY DEF Proc, CircuitInv, ShapeInv
<1>1. CASE StartAcquire(u)
  <2> DEFINE r == [Idle EXCEPT !.pc = "select", !.conf = get_config(config), !.left = Attempts,
                              !.current = held[u], !.prefer = held[u]]
  <2>1. Shape(r) /\ r.pc = "select"
    BY DEF Idle, Shape, Locals
  <2>2. Become(u, r) /\ UNCHANGED <<member, failures, mixed>>
    BY <1>1 DEF StartAcquire, tables
  <2> HIDE DEF r
  <2> QED
    BY <1>a, <2>1, <2>2, BecomeCalm, AsideKeeps
<1>2. CASE select_account(u)
  <2> DEFINE candidates == Candidates(u, op[u].tried)
             picked == IF op[u].prefer \in candidates THEN op[u].prefer
                       ELSE _pick_candidate(u, candidates, op[u].conf.scheduler_strategy)
             r == [op[u] EXCEPT !.pc = "try", !.left = @ - 1, !.prefer = picked]
  <2>1. Become(u, Idle) \/ Become(u, r)
    BY <1>2 DEF select_account
  <2>2. UNCHANGED <<member, failures, mixed>>
    BY <1>2 DEF select_account, tables
  <2> HIDE DEF picked
  <2>3. Shape(r) /\ r.pc = "try"
    BY <1>a DEF Shape, Locals
  <2> HIDE DEF r
  <2> QED
    BY <1>a, <2>1, <2>2, <2>3, IdleCalm, BecomeCalm, AsideKeeps
<1>3. CASE Try(u)
  <2>1. /\ \/ Become(u, Idle) \/ Become(u, Excluded(op[u]))
           \/ Goto(u, "fail") \/ Goto(u, "succeed")
        /\ UNCHANGED <<member, failures, mixed>>
    BY <1>3 DEF Try, tables
  <2> QED
    BY <1>a, <2>1, IdleCalm, ExcludedShape, BecomeCalm, GotoCalm, AsideKeeps
<1>4. CASE FailRead(u)
  BY <1>4, FailReadKeeps
<1>5. CASE FailWrite(u)
  BY <1>5, FailWriteKeeps
<1>6. CASE record_account_success(u)
  BY <1>6, SuccessKeeps
<1>7. CASE Return(u)
  <2>1. UNCHANGED <<op, member, failures, mixed>>
    BY <1>7 DEF Return, tables
  <2> QED
    BY <1>a, <2>1, StayCalm, AsideKeeps
<1> QED
  BY <1>1, <1>2, <1>3, <1>4, <1>5, <1>6, <1>7 DEF RenterStep

LEMMA WorldKeeps == CircuitInv /\ World => CircuitInv'
<1> SUFFICES ASSUME CircuitInv, World PROVE CircuitInv'
  OBVIOUS
<1>a. ShapeInv
  BY DEF CircuitInv
<1>1. ASSUME NEW a \in Account, CloseCircuit(a) PROVE CircuitInv'
  <2> DEFINE m == [member[a] EXCEPT !.open = FALSE]
  <2>1. MemberShape(member[a])
    BY <1>a DEF ShapeInv
  <2>2. MemberShape(m) /\ m.fails = member[a].fails /\ m.state = member[a].state
    BY <2>1 DEF MemberShape
  <2>3. member' = [member EXCEPT ![a] = m] /\ UNCHANGED <<op, failures, mixed>>
    BY <1>1 DEF CloseCircuit
  <2>4. Listed(m) => Listed(member[a])
    BY <2>2 DEF Listed
  <2> HIDE DEF m
  <2>5. Kept({})
    BY <1>a, <2>2, <2>3, <2>4, SameCount
  <2> QED
    BY <1>a, <2>3, <2>5, StayCalm, AllKept
<1>2. CASE \/ NextDay
           \/ \E a \in Account : Sync(a) \/ BindStatus(a) \/ Unbind(a)
  <2>1. UNCHANGED <<op, member, failures, mixed>>
    BY <1>2 DEF NextDay, Sync, BindStatus, Unbind
  <2> QED
    BY <1>a, <2>1, StayCalm, AsideKeeps
<1> QED
  BY <1>1, <1>2 DEF World

LEMMA CircuitStep == CircuitInv /\ [Next]_vars => CircuitInv'
<1> SUFFICES ASSUME CircuitInv, [Next]_vars PROVE CircuitInv'
  OBVIOUS
<1>1. CASE UNCHANGED vars
  <2>1. UNCHANGED <<op, member, failures, mixed>> /\ ShapeInv
    BY <1>1 DEF vars, tables, ghosts, CircuitInv
  <2> QED
    BY <2>1, StayCalm, AsideKeeps
<1>2. CASE Next
  BY <1>2, WorldKeeps, AdminKeeps, WorkerKeeps, MemberKeeps, RenterKeeps DEF Next
<1> QED
  BY <1>1, <1>2

\* The count a circuit opens by is the number of failures since the account last
\* succeeded, or came into the pool, whatever administrators, the policy and any
\* number of renters do, as long as no two records of it overlap
\* (record_account_failure, record_account_success, add_member).
THEOREM CircuitsCount == Spec => []CircuitCounts
<1>1. Spec => []CircuitInv
  BY CircuitInit, CircuitStep, PTL DEF Spec
<1> QED
  BY <1>1, CircuitImplies, PTL


-----------------------------------------------------------------------------
LEMMA Lesser == \A x, y \in Int : Min({x, y}) = IF x <= y THEN x ELSE y
<1> SUFFICES ASSUME NEW x \in Int, NEW y \in Int PROVE Min({x, y}) = IF x <= y THEN x ELSE y
  OBVIOUS
<1> DEFINE m == IF x <= y THEN x ELSE y
<1>1. m \in {x, y} /\ \A z \in {x, y} : m <= z
  OBVIOUS
<1>2. \A n \in {x, y} : (\A z \in {x, y} : n <= z) => n = m
  OBVIOUS
<1> HIDE DEF m
<1>3. Min({x, y}) = m
  BY <1>1, <1>2 DEF Min
<1> QED
  BY <1>3 DEF m

LEMMA Greater == \A x, y \in Int : Max({x, y}) = IF x >= y THEN x ELSE y
<1> SUFFICES ASSUME NEW x \in Int, NEW y \in Int PROVE Max({x, y}) = IF x >= y THEN x ELSE y
  OBVIOUS
<1> DEFINE m == IF x >= y THEN x ELSE y
<1>1. m \in {x, y} /\ \A z \in {x, y} : m >= z
  OBVIOUS
<1>2. \A n \in {x, y} : (\A z \in {x, y} : n >= z) => n = m
  OBVIOUS
<1> HIDE DEF m
<1>3. Max({x, y}) = m
  BY <1>1, <1>2 DEF Max
<1> QED
  BY <1>3 DEF m

\* A value is forced into its range, and one in its range is kept.
ClampsTo(default, lo, hi) ==
    \A value \in Int \cup {None} :
        /\ _clamp_int(value, default, lo, hi) \in lo..hi
        /\ value \in lo..hi => _clamp_int(value, default, lo, hi) = value

LEMMA Clamped ==
  ASSUME NEW default \in Int, NEW lo \in Int, NEW hi \in Int, lo <= hi
  PROVE  ClampsTo(default, lo, hi)
<1> SUFFICES ASSUME NEW value \in Int \cup {None}
             PROVE  /\ _clamp_int(value, default, lo, hi) \in lo..hi
                    /\ value \in lo..hi => _clamp_int(value, default, lo, hi) = value
  BY DEF ClampsTo
<1> DEFINE v == IF value = None THEN default ELSE value
           low == IF hi <= v THEN hi ELSE v
<1>1. v \in Int /\ (value \in lo..hi => v = value)
  BY NoneAssumption
<1> HIDE DEF v
<1>2. Min({hi, v}) = low /\ low \in Int
  BY <1>1, Lesser
<1>3. _clamp_int(value, default, lo, hi) = Max({lo, low})
  BY <1>2 DEF _clamp_int, v
<1>4. Max({lo, low}) = IF lo >= low THEN lo ELSE low
  BY <1>2, Greater
<1> QED
  BY <1>1, <1>3, <1>4

LEMMA ClampedFields == ClampsTo(5, 0, 31) /\ ClampsTo(50, 0, 100)
  BY Clamped

LEMMA FieldValue ==
  ASSUME NEW item, IsRule(item),
         NEW f \in {"remaining_days", "remaining_days_lte", "remaining_usage_percent", "usage_below_percent"}
  PROVE  Field(item, f) \in Int \cup {None}
  BY DEF IsRule, Field

LEMMA MigratedRule ==
  ASSUME NEW item, IsRule(item)
  PROVE  _migrate_auto_pool_join_rule(item) \in CleanRule
<1> DEFINE days(f) == _clamp_int(Field(item, f), 5, 0, 31)
           percent(f) == _clamp_int(Field(item, f), 50, 0, 100)
<1>1. days("remaining_days") \in 0..31 /\ days("remaining_days_lte") \in 0..31
  BY FieldValue, ClampedFields DEF ClampsTo
<1>2. percent("remaining_usage_percent") \in 0..100 /\ percent("usage_below_percent") \in 0..100
  BY FieldValue, ClampedFields DEF ClampsTo
<1>3. 100 - percent("usage_below_percent") \in 0..100
  BY <1>2
<1>4. CASE \/ "remaining_usage_percent" \in DOMAIN item
           \/ "remaining_days" \in DOMAIN item /\ "remaining_days_lte" \notin DOMAIN item
  <2>1. _migrate_auto_pool_join_rule(item) =
          [remaining_days |-> IF "remaining_days" \in DOMAIN item
                              THEN days("remaining_days") ELSE days("remaining_days_lte"),
           remaining_usage_percent |-> percent("remaining_usage_percent")]
    BY <1>4 DEF _migrate_auto_pool_join_rule
  <2> HIDE DEF days, percent
  <2> QED
    BY <1>1, <1>2, <2>1 DEF CleanRule
<1>5. CASE ~(\/ "remaining_usage_percent" \in DOMAIN item
             \/ "remaining_days" \in DOMAIN item /\ "remaining_days_lte" \notin DOMAIN item)
  <2>1. _migrate_auto_pool_join_rule(item) =
          [remaining_days |-> days("remaining_days_lte"),
           remaining_usage_percent |-> 100 - percent("usage_below_percent")]
    BY <1>5 DEF _migrate_auto_pool_join_rule
  <2> HIDE DEF days, percent
  <2> QED
    BY <1>1, <1>3, <2>1 DEF CleanRule
<1> QED
  BY <1>4, <1>5

LEMMA CleanRuleStays ==
  ASSUME NEW rule \in CleanRule
  PROVE  IsRule(rule) /\ _migrate_auto_pool_join_rule(rule) = rule
<1>1. /\ DOMAIN rule = {"remaining_days", "remaining_usage_percent"}
      /\ rule.remaining_days \in 0..31 /\ rule.remaining_usage_percent \in 0..100
      /\ rule = [remaining_days |-> rule.remaining_days,
                 remaining_usage_percent |-> rule.remaining_usage_percent]
  BY DEF CleanRule
<1>2. IsRule(rule)
  BY <1>1 DEF IsRule
<1>3. /\ Field(rule, "remaining_days") = rule.remaining_days
      /\ Field(rule, "remaining_usage_percent") = rule.remaining_usage_percent
  BY <1>1 DEF Field
<1>4. /\ _clamp_int(rule.remaining_days, 5, 0, 31) = rule.remaining_days
      /\ _clamp_int(rule.remaining_usage_percent, 50, 0, 100) = rule.remaining_usage_percent
  BY <1>1, ClampedFields DEF ClampsTo
<1>5. _migrate_auto_pool_join_rule(rule) =
        [remaining_days |-> rule.remaining_days,
         remaining_usage_percent |-> rule.remaining_usage_percent]
  BY <1>1, <1>3, <1>4 DEF _migrate_auto_pool_join_rule
<1> QED
  BY <1>1, <1>2, <1>5

\* What normalize_auto_pool_join_rules makes of the rules.
Cleaned(data) ==
    LET given == data.auto_pool_join_rules
    IN  IF given # <<>>
        THEN [i \in DOMAIN given |-> _migrate_auto_pool_join_rule(given[i])]
        ELSE <<_migrate_auto_pool_join_rule(
                  [remaining_days_lte |-> data.auto_pool_remaining_days_lte,
                   usage_below_percent |-> data.auto_pool_usage_below_percent])>>

\* A configuration with all its fields.
Whole(data) == Fields \subseteq DOMAIN data /\ data = [f \in DOMAIN data |-> data[f]]

LEMMA FieldNames ==
  Fields = {"scheduler_strategy", "lease_expiry_mode", "auto_pool_enabled", "auto_pool_join_rules",
            "auto_pool_remaining_days_lte", "auto_pool_usage_below_percent",
            "auto_pool_remove_on_cycle_refresh", "circuit_fail_threshold"}
  BY DEF Fields, DEFAULT_PROXY_CONFIG

LEMMA CleanedRules ==
  ASSUME NEW data, Readable(data), Whole(data)
  PROVE  Cleaned(data) \in Seq(CleanRule) \ {<<>>}
<1> DEFINE given == data.auto_pool_join_rules
           older == [remaining_days_lte |-> data.auto_pool_remaining_days_lte,
                     usage_below_percent |-> data.auto_pool_usage_below_percent]
<1>1. given \in Seq({given[i] : i \in DOMAIN given}) /\ \A i \in DOMAIN given : IsRule(given[i])
  BY FieldNames DEF Readable, Whole
<1>2. CASE given # <<>>
  <2>1. Len(given) \in Nat \ {0} /\ DOMAIN given = 1..Len(given)
    <3> HIDE DEF given
    <3>1. Len(given) \in Nat /\ DOMAIN given = 1..Len(given)
      BY <1>1
    <3>2. Len(given) # 0
      BY <1>1, <1>2, <3>1
    <3> QED
      BY <3>1, <3>2
  <2>2. Cleaned(data) = [i \in 1..Len(given) |-> _migrate_auto_pool_join_rule(given[i])]
    BY <1>2, <2>1 DEF Cleaned
  <2> DEFINE clean == [i \in 1..Len(given) |-> _migrate_auto_pool_join_rule(given[i])]
  <2>3. \A i \in 1..Len(given) : clean[i] \in CleanRule
    BY <1>1, <2>1, MigratedRule
  <2>4. clean \in [1..Len(given) -> CleanRule]
    BY <2>3
  <2> HIDE DEF clean, given
  <2>5. clean \in Seq(CleanRule) /\ Len(clean) = Len(given)
    BY <2>1, <2>4
  <2> QED
    BY <2>1, <2>2, <2>5 DEF clean
<1>3. CASE given = <<>>
  <2>1. /\ data.auto_pool_remaining_days_lte \in Int \cup {None}
        /\ data.auto_pool_usage_below_percent \in Int \cup {None}
    BY FieldNames DEF Readable, Whole
  <2>2. IsRule(older)
    BY <2>1 DEF IsRule
  <2>3. Cleaned(data) = <<_migrate_auto_pool_join_rule(older)>>
    BY <1>3 DEF Cleaned
  <2> HIDE DEF older
  <2> QED
    BY <2>2, <2>3, MigratedRule
<1> QED
  BY <1>2, <1>3

LEMMA NormalisedRules ==
  ASSUME NEW data, Readable(data), Whole(data)
  PROVE  LET new == normalize_auto_pool_join_rules(data)
         IN  /\ DOMAIN new = DOMAIN data /\ Whole(new)
             /\ \A f \in DOMAIN data \ {"auto_pool_join_rules", "auto_pool_remaining_days_lte",
                                         "auto_pool_usage_below_percent"} : new[f] = data[f]
             /\ new.auto_pool_join_rules = Cleaned(data)
             /\ new.auto_pool_join_rules \in Seq(CleanRule) \ {<<>>}
             /\ new.auto_pool_remaining_days_lte = new.auto_pool_join_rules[1].remaining_days
             /\ new.auto_pool_usage_below_percent = 100 - new.auto_pool_join_rules[1].remaining_usage_percent
<1> DEFINE rules == Cleaned(data)
           new == [data EXCEPT !.auto_pool_join_rules = rules,
                     !.auto_pool_remaining_days_lte = rules[1].remaining_days,
                     !.auto_pool_usage_below_percent = 100 - rules[1].remaining_usage_percent]
<1>1. rules \in Seq(CleanRule) \ {<<>>}
  BY CleanedRules
<1>2. normalize_auto_pool_join_rules(data) = new
  BY DEF normalize_auto_pool_join_rules, Cleaned
<1> HIDE DEF rules
<1>3. /\ {"auto_pool_join_rules", "auto_pool_remaining_days_lte", "auto_pool_usage_below_percent"}
            \subseteq DOMAIN data
      /\ data = [f \in DOMAIN data |-> data[f]]
  BY FieldNames DEF Whole
<1>4. /\ DOMAIN new = DOMAIN data /\ new = [f \in DOMAIN new |-> new[f]]
      /\ \A f \in DOMAIN data \ {"auto_pool_join_rules", "auto_pool_remaining_days_lte",
                                  "auto_pool_usage_below_percent"} : new[f] = data[f]
      /\ new.auto_pool_join_rules = rules
      /\ new.auto_pool_remaining_days_lte = rules[1].remaining_days
      /\ new.auto_pool_usage_below_percent = 100 - rules[1].remaining_usage_percent
  BY <1>3
<1>5. Whole(new)
  BY <1>4 DEF Whole
<1> HIDE DEF new
<1> QED
  BY <1>1, <1>2, <1>4, <1>5 DEF rules

\* The mode and the strategy that normalisation settles on.
Mode(data) ==
    IF data.lease_expiry_mode \in {"fixed_duration", "billing_cycle"} THEN data.lease_expiry_mode
    ELSE IF Field(data, "reclaim_on_billing_cycle") = FALSE THEN "fixed_duration" ELSE "billing_cycle"
Strategy(data) ==
    IF data.scheduler_strategy \in {"remaining_first", "expiry_first"}
    THEN data.scheduler_strategy ELSE "expiry_first"
Mended(data) == [data EXCEPT !.lease_expiry_mode = Mode(data), !.scheduler_strategy = Strategy(data)]

LEMMA Normalising == \A data : normalize_proxy_config_fields(data) = normalize_auto_pool_join_rules(Mended(data))
  BY DEF normalize_proxy_config_fields, Mended, Mode, Strategy

LEMMA MendedFields ==
  ASSUME NEW data, Readable(data), Whole(data)
  PROVE  /\ Readable(Mended(data)) /\ Whole(Mended(data)) /\ DOMAIN Mended(data) = DOMAIN data
         /\ Mended(data).lease_expiry_mode \in {"fixed_duration", "billing_cycle"}
         /\ Mended(data).scheduler_strategy \in {"remaining_first", "expiry_first"}
<1>1. /\ Mode(data) \in {"fixed_duration", "billing_cycle"}
      /\ Strategy(data) \in {"remaining_first", "expiry_first"}
  BY DEF Mode, Strategy
<1>2. /\ {"lease_expiry_mode", "scheduler_strategy"} \subseteq DOMAIN data
      /\ data = [f \in DOMAIN data |-> data[f]]
  BY FieldNames DEF Whole
<1>3. /\ DOMAIN Mended(data) = DOMAIN data
      /\ Mended(data) = [f \in DOMAIN data |-> Mended(data)[f]]
      /\ Mended(data).lease_expiry_mode = Mode(data)
      /\ Mended(data).scheduler_strategy = Strategy(data)
      /\ \A f \in DOMAIN data \ {"lease_expiry_mode", "scheduler_strategy"} : Mended(data)[f] = data[f]
  BY <1>2 DEF Mended
<1>4. Whole(Mended(data))
  BY <1>3 DEF Whole
<1>5. Readable(Mended(data))
  <2>1. \A f \in DOMAIN data \cap {"auto_pool_remaining_days_lte", "auto_pool_usage_below_percent"} :
          Mended(data)[f] \in Int \cup {None}
    BY <1>3 DEF Readable
  <2>2. "auto_pool_join_rules" \in DOMAIN data =>
          Mended(data).auto_pool_join_rules = data.auto_pool_join_rules
    BY <1>3
  <2> QED
    BY <1>3, <2>1, <2>2 DEF Readable
<1> QED
  BY <1>1, <1>3, <1>4, <1>5

LEMMA BecomesNormal ==
  ASSUME NEW data, Readable(data), Whole(data)
  PROVE  LET new == normalize_proxy_config_fields(data)
         IN  Normal(new) /\ Whole(new) /\ DOMAIN new = DOMAIN data
<1> DEFINE mended == Mended(data)
           new == normalize_auto_pool_join_rules(mended)
<1>1. /\ Readable(mended) /\ Whole(mended) /\ DOMAIN mended = DOMAIN data
      /\ mended.lease_expiry_mode \in {"fixed_duration", "billing_cycle"}
      /\ mended.scheduler_strategy \in {"remaining_first", "expiry_first"}
  BY MendedFields
<1> HIDE DEF mended
<1>2. /\ DOMAIN new = DOMAIN mended /\ Whole(new)
      /\ \A f \in DOMAIN mended \ {"auto_pool_join_rules", "auto_pool_remaining_days_lte",
                                  "auto_pool_usage_below_percent"} : new[f] = mended[f]
      /\ new.auto_pool_join_rules \in Seq(CleanRule) \ {<<>>}
      /\ new.auto_pool_remaining_days_lte = new.auto_pool_join_rules[1].remaining_days
      /\ new.auto_pool_usage_below_percent = 100 - new.auto_pool_join_rules[1].remaining_usage_percent
  BY <1>1, NormalisedRules
<1> HIDE DEF new
<1>3. {"lease_expiry_mode", "scheduler_strategy"} \subseteq DOMAIN mended
  BY <1>1, FieldNames DEF Whole
<1>4. /\ new.lease_expiry_mode = mended.lease_expiry_mode
      /\ new.scheduler_strategy = mended.scheduler_strategy
  BY <1>2, <1>3
<1>5. Normal(new)
  BY <1>1, <1>2, <1>4 DEF Normal
<1> QED
  BY <1>1, <1>2, <1>5, Normalising DEF mended, new

\* Normalisation has nothing to do a second time.
LEMMA NormalStays ==
  ASSUME NEW data, Normal(data), Whole(data)
  PROVE  Readable(data) /\ normalize_proxy_config_fields(data) = data
<1> DEFINE rules == data.auto_pool_join_rules
<1>1. /\ rules \in Seq(CleanRule) \ {<<>>} /\ Len(rules) \in Nat \ {0} /\ DOMAIN rules = 1..Len(rules)
      /\ \A i \in DOMAIN rules : rules[i] \in CleanRule
  <2> HIDE DEF rules
  <2>1. rules \in Seq(CleanRule) \ {<<>>}
    BY DEF Normal, rules
  <2>2. Len(rules) \in Nat /\ DOMAIN rules = 1..Len(rules) /\ Len(rules) # 0
    BY <2>1
  <2> QED
    BY <2>1, <2>2
<1>2. \A i \in DOMAIN rules : IsRule(rules[i]) /\ _migrate_auto_pool_join_rule(rules[i]) = rules[i]
  BY <1>1, CleanRuleStays
<1>3. /\ rules[1].remaining_days \in 0..31 /\ rules[1].remaining_usage_percent \in 0..100
      /\ data.auto_pool_remaining_days_lte = rules[1].remaining_days
      /\ data.auto_pool_usage_below_percent = 100 - rules[1].remaining_usage_percent
  <2>1. rules[1] \in CleanRule
    <3> HIDE DEF rules
    <3> QED
      BY <1>1
  <2>2. rules[1].remaining_days \in 0..31 /\ rules[1].remaining_usage_percent \in 0..100
    BY <2>1 DEF CleanRule
  <2> QED
    BY <2>2 DEF Normal
<1>4. Readable(data)
  <2> HIDE DEF rules
  <2>1. rules \in Seq({rules[i] : i \in DOMAIN rules})
    <3> DEFINE S == {rules[i] : i \in DOMAIN rules}
    <3>1. \A i \in 1..Len(rules) : rules[i] \in S
      BY <1>1
    <3>2. rules = [i \in 1..Len(rules) |-> rules[i]]
      BY <1>1
    <3> HIDE DEF S
    <3>3. rules \in [1..Len(rules) -> S]
      BY <3>1, <3>2
    <3>4. rules \in Seq(S)
      BY <1>1, <3>3
    <3> QED
      BY <3>4 DEF S
  <2>2. data.auto_pool_remaining_days_lte \in Int /\ data.auto_pool_usage_below_percent \in Int
    BY <1>3
  <2> QED
    BY <1>2, <2>1, <2>2 DEF Readable, rules
<1>5. Mended(data) = data
  <2>1. Mode(data) = data.lease_expiry_mode /\ Strategy(data) = data.scheduler_strategy
    BY DEF Normal, Mode, Strategy
  <2>2. /\ {"lease_expiry_mode", "scheduler_strategy"} \subseteq DOMAIN data
        /\ data = [f \in DOMAIN data |-> data[f]]
    BY FieldNames DEF Whole
  <2> QED
    BY <2>1, <2>2 DEF Mended
<1>6. Cleaned(data) = rules
  <2>1. Cleaned(data) = [i \in DOMAIN rules |-> _migrate_auto_pool_join_rule(rules[i])]
    BY <1>1 DEF Cleaned
  <2>2. Cleaned(data) = [i \in DOMAIN rules |-> rules[i]]
    BY <1>2, <2>1
  <2> QED
    BY <1>1, <2>2
<1>7. normalize_auto_pool_join_rules(data) = data
  <2> DEFINE new == normalize_auto_pool_join_rules(data)
  <2>1. /\ DOMAIN new = DOMAIN data /\ Whole(new)
        /\ \A f \in DOMAIN data \ {"auto_pool_join_rules", "auto_pool_remaining_days_lte",
                                    "auto_pool_usage_below_percent"} : new[f] = data[f]
        /\ new.auto_pool_join_rules = Cleaned(data)
        /\ new.auto_pool_remaining_days_lte = new.auto_pool_join_rules[1].remaining_days
        /\ new.auto_pool_usage_below_percent = 100 - new.auto_pool_join_rules[1].remaining_usage_percent
    BY <1>4, NormalisedRules
  <2> HIDE DEF new
  <2>2. \A f \in DOMAIN data : new[f] = data[f]
    BY <1>3, <1>6, <2>1
  <2> QED
    BY <2>1, <2>2 DEF Whole, new
<1> QED
  BY <1>4, <1>5, <1>7, Normalising

LEMMA DefaultNormal == Normal(DEFAULT_PROXY_CONFIG) /\ Whole(DEFAULT_PROXY_CONFIG)
<1>1. Whole(DEFAULT_PROXY_CONFIG)
  BY DEF Whole, Fields, DEFAULT_PROXY_CONFIG
<1>2. [remaining_days |-> 5, remaining_usage_percent |-> 50] \in CleanRule
  BY DEF CleanRule
<1>3. Normal(DEFAULT_PROXY_CONFIG)
  BY <1>2 DEF Normal, DEFAULT_PROXY_CONFIG
<1> QED
  BY <1>1, <1>3

LEMMA OverReadable ==
  ASSUME NEW data, NEW base, Readable(data), Readable(base), Whole(base)
  PROVE  Readable(Over(data, base)) /\ Whole(Over(data, base))
<1>1. Whole(Over(data, base))
  BY DEF Whole, Over
<1>2. Readable(Over(data, base))
  <2>1. \A f \in DOMAIN Over(data, base) : Over(data, base)[f] = IF f \in DOMAIN data THEN data[f] ELSE base[f]
    BY DEF Over
  <2>2. DOMAIN Over(data, base) = DOMAIN data \cup DOMAIN base
    BY DEF Over
  <2>3. \A f \in DOMAIN Over(data, base) \cap {"auto_pool_remaining_days_lte", "auto_pool_usage_below_percent"} :
          Over(data, base)[f] \in Int \cup {None}
    BY <2>1, <2>2 DEF Readable
  <2>4. "auto_pool_join_rules" \in DOMAIN Over(data, base) =>
          \/ /\ "auto_pool_join_rules" \in DOMAIN data
             /\ Over(data, base).auto_pool_join_rules = data.auto_pool_join_rules
          \/ /\ "auto_pool_join_rules" \in DOMAIN base
             /\ Over(data, base).auto_pool_join_rules = base.auto_pool_join_rules
    BY <2>1, <2>2
  <2> QED
    BY <2>3, <2>4 DEF Readable
<1> QED
  BY <1>1, <1>2

\* What is read of a configuration, or of none.
LEMMA ReadsNormal ==
  ASSUME NEW stored, stored # None => Readable(stored)
  PROVE  LET conf == get_config(stored)
         IN  Normal(conf) /\ Whole(conf) /\ DOMAIN conf = Fields
<1>1. CASE stored = None
  <2>1. get_config(stored) = DEFAULT_PROXY_CONFIG
    BY <1>1 DEF get_config
  <2> QED
    BY <2>1, DefaultNormal DEF Fields
<1>2. CASE stored # None
  <2> DEFINE merged == normalize_proxy_config_fields(Over(stored, DEFAULT_PROXY_CONFIG))
             conf == [f \in Fields |-> merged[f]]
  <2>1. Readable(DEFAULT_PROXY_CONFIG) /\ Whole(DEFAULT_PROXY_CONFIG)
    BY DefaultNormal, NormalStays
  <2>2. Readable(Over(stored, DEFAULT_PROXY_CONFIG)) /\ Whole(Over(stored, DEFAULT_PROXY_CONFIG))
    BY <1>2, <2>1, OverReadable
  <2>3. Normal(merged) /\ Whole(merged)
    BY <2>2, BecomesNormal
  <2>4. get_config(stored) = conf
    BY <1>2 DEF get_config
  <2> HIDE DEF merged
  <2>5. \A f \in Fields : conf[f] = merged[f]
    OBVIOUS
  <2>6. Normal(conf)
    BY <2>3, FieldNames DEF Normal
  <2>7. Whole(conf) /\ DOMAIN conf = Fields
    BY DEF Whole
  <2> QED
    BY <2>4, <2>6, <2>7
<1> QED
  BY <1>1, <1>2

LEMMA ReadsBack ==
  ASSUME NEW data, Normal(data), Whole(data), DOMAIN data = Fields
  PROVE  data # None => get_config(data) = data
<1> SUFFICES ASSUME data # None PROVE get_config(data) = data
  OBVIOUS
<1>1. Over(data, DEFAULT_PROXY_CONFIG) = data
  BY DEF Over, Whole, Fields
<1>2. normalize_proxy_config_fields(data) = data
  BY NormalStays
<1>3. get_config(data) = [f \in Fields |-> data[f]]
  BY <1>1, <1>2 DEF get_config
<1> QED
  BY <1>3 DEF Whole

-----------------------------------------------------------------------------
\* p goes on at one of the labels.
Moves(p, labels) == \E r : Shape(r) /\ r.pc \in labels /\ Become(p, r)

LEMMA IdleMoves == \A p : Become(p, Idle) => Moves(p, {"idle"})
  BY IdleShape DEF Moves

LEMMA GotoMoves ==
  ASSUME NEW p, Shape(op[p]), NEW label, Goto(p, label)
  PROVE  Moves(p, {label})
<1> DEFINE r == [op[p] EXCEPT !.pc = label]
<1>1. Shape(r) /\ r.pc = label
  BY DEF Shape, Locals
<1>2. Become(p, r)
  BY DEF Goto
<1> HIDE DEF r
<1> QED
  BY <1>1, <1>2 DEF Moves

LEMMA FollowingMoves ==
  ASSUME NEW p, Shape(op[p]), NEW label, NEW after, Following(p, label, after)
  PROVE  Moves(p, {"idle", label, after})
<1> DEFINE r == [op[p] EXCEPT !.pc = label, !.todo = Tail(@)]
<1>1. Shape(r) /\ r.pc = label
  BY DEF Shape, Locals
<1>2. Become(p, r) \/ Become(p, Idle) \/ Goto(p, after)
  BY DEF Following
<1> HIDE DEF r
<1>3. CASE Become(p, r)
  BY <1>1, <1>3 DEF Moves
<1>4. CASE Become(p, Idle)
  BY <1>4, IdleMoves DEF Moves
<1>5. CASE Goto(p, after)
  BY <1>5, GotoMoves DEF Moves
<1> QED
  BY <1>2, <1>3, <1>4, <1>5

LEMMA FailsMoves ==
  ASSUME NEW p, Shape(op[p]), NEW label, NEW after, Fails(p, label, after)
  PROVE  Moves(p, {"idle", label, after})
<1>1. CASE Become(p, Idle)
  BY <1>1, IdleMoves DEF Moves
<1> QED
  BY <1>1, FollowingMoves DEF Fails

LEMMA ExcludedMoves ==
  ASSUME NEW p, Shape(op[p]), Become(p, Excluded(op[p]))
  PROVE  Moves(p, {"select"})
  BY ExcludedShape DEF Moves

\* The processes that are reading or writing the configuration.
Aloof == \A q \in Proc : op'[q] = op[q] \/ op'[q].pc # "config"

LEMMA MovesAloof ==
  ASSUME ShapeInv, NEW p \in Proc, NEW labels, "config" \notin labels, Moves(p, labels)
  PROVE  Aloof
<1>1. PICK r : Shape(r) /\ r.pc \in labels /\ Become(p, r)
  BY DEF Moves
<1> QED
  BY <1>1, CalmShape DEF Aloof

Reading == \E p \in Admin : ConfigRead(p)
Writes == \E p \in Admin, payload \in Payload : ConfigWrite(p, payload)
Apart == UNCHANGED config /\ Aloof

LEMMA AdminApart == \A p \in Admin : ShapeInv /\ AdminStep(p) => Reading \/ Writes \/ Apart
<1> SUFFICES ASSUME NEW p \in Admin, ShapeInv, AdminStep(p) PROVE Reading \/ Writes \/ Apart
  OBVIOUS
<1>a. p \in Proc /\ Shape(op[p])
  BY DEF Proc, ShapeInv
<1>1. ASSUME NEW accounts, StartAdd(p, accounts) PROVE Apart
  <2> DEFINE r == [Idle EXCEPT !.pc = "add", !.todo = accounts]
  <2>1. Shape(r) /\ r.pc = "add"
    BY DEF Idle, Shape, Locals
  <2>2. Become(p, r) /\ UNCHANGED config
    BY <1>1 DEF StartAdd, tables
  <2> HIDE DEF r
  <2>3. Moves(p, {"add"})
    BY <2>1, <2>2 DEF Moves
  <2> QED
    BY <1>a, <2>2, <2>3, MovesAloof DEF Apart
<1>2. ASSUME NEW accounts, StartRemove(p, accounts) PROVE Apart
  <2> DEFINE r == [Idle EXCEPT !.pc = "drop", !.todo = accounts]
  <2>1. Shape(r) /\ r.pc = "drop"
    BY DEF Idle, Shape, Locals
  <2>2. Become(p, r) /\ UNCHANGED config
    BY <1>2 DEF StartRemove, tables
  <2> HIDE DEF r
  <2>3. Moves(p, {"drop"})
    BY <2>1, <2>2 DEF Moves
  <2> QED
    BY <1>a, <2>2, <2>3, MovesAloof DEF Apart
<1>3. ASSUME NEW a \in Account, NEW enabled \in BOOLEAN, update_member(p, a, enabled) PROVE Apart
  BY <1>3 DEF update_member, Apart, Aloof
<1> QED
  BY <1>1, <1>2, <1>3 DEF AdminStep, Reading, Writes

LEMMA JoinMoves ==
  ASSUME NEW p, NEW r, Shape(r), NEW members, JoinPhase(p, r, members)
  PROVE  Moves(p, {"idle", "add"})
<1> DEFINE joins == Sorted(Joins(r.rows, r.conf, members, r.members))
           next == [r EXCEPT !.pc = "add", !.todo = joins, !.members = None]
<1>1. Shape(next) /\ next.pc = "add"
  BY DEF Shape, Locals
<1>2. Become(p, Idle) \/ Become(p, next)
  BY DEF JoinPhase
<1> HIDE DEF next
<1> QED
  BY <1>1, <1>2, IdleShape DEF Moves

LEMMA WorkerApart == \A p \in Worker : ShapeInv /\ WorkerStep(p) => Apart
<1> SUFFICES ASSUME NEW p \in Worker, ShapeInv, WorkerStep(p) PROVE Apart
  OBVIOUS
<1>a. p \in Proc /\ Shape(op[p])
  BY DEF Proc, ShapeInv
<1>0. UNCHANGED config
  BY DEF WorkerStep, StartPolicy, PolicySnapshot, PolicyRefresh, StartReview,
     _maybe_mark_bind_invalid, tables
<1>1. CASE StartPolicy(p)
  <2> DEFINE conf == get_config(config)
             r == [Idle EXCEPT !.pc = "snapshot", !.conf = conf, !.source = "auto"]
  <2>1. Shape(r) /\ r.pc = "snapshot"
    BY DEF Idle, Shape, Locals
  <2>2. Become(p, r)
    BY <1>1 DEF StartPolicy
  <2> HIDE DEF r
  <2>3. Moves(p, {"snapshot"})
    BY <2>1, <2>2 DEF Moves
  <2> QED
    BY <1>0, <1>a, <2>3, MovesAloof DEF Apart
<1>2. CASE PolicySnapshot(p)
  <2> DEFINE r == [op[p] EXCEPT !.rows = row, !.members = member]
             stale == IF r.conf.auto_pool_remove_on_cycle_refresh THEN Stale(row, member) ELSE {}
             drop == [r EXCEPT !.pc = "drop", !.todo = Sorted(stale)]
             refresh == [r EXCEPT !.pc = "refresh"]
  <2>1. Become(p, drop) \/ Become(p, refresh) \/ JoinPhase(p, r, member)
    BY <1>2 DEF PolicySnapshot
  <2>2. Shape(r)
    BY <1>a DEF Shape, Locals
  <2> HIDE DEF r, stale
  <2>3. Shape(drop) /\ drop.pc = "drop" /\ Shape(refresh) /\ refresh.pc = "refresh"
    BY <2>2 DEF Shape, Locals
  <2> HIDE DEF drop, refresh
  <2>4. Moves(p, {"drop"}) \/ Moves(p, {"refresh"}) \/ Moves(p, {"idle", "add"})
    BY <2>1, <2>2, <2>3, JoinMoves DEF Moves
  <2> QED
    BY <1>0, <1>a, <2>4, MovesAloof DEF Apart
<1>3. CASE PolicyRefresh(p)
  <2>1. Moves(p, {"idle", "add"})
    BY <1>3, <1>a, JoinMoves DEF PolicyRefresh
  <2> QED
    BY <1>0, <1>a, <2>1, MovesAloof DEF Apart
<1>4. CASE StartReview(p)
  <2> DEFINE doubted == {a \in Account : /\ member[a].state = "enabled" /\ row[a] # None
                                         /\ member[a].fails >= ReviewAt}
             r == [Idle EXCEPT !.pc = "mark", !.todo = Sorted(doubted)]
  <2>1. Shape(r) /\ r.pc = "mark"
    BY DEF Idle, Shape, Locals
  <2>2. Become(p, r)
    BY <1>4 DEF StartReview
  <2> HIDE DEF r
  <2>3. Moves(p, {"mark"})
    BY <2>1, <2>2 DEF Moves
  <2> QED
    BY <1>0, <1>a, <2>3, MovesAloof DEF Apart
<1>5. CASE _maybe_mark_bind_invalid(p)
  <2>1. Moves(p, {"idle", "mark", "idle"})
    BY <1>5, <1>a, FollowingMoves DEF _maybe_mark_bind_invalid
  <2> QED
    BY <1>0, <1>a, <2>1, MovesAloof DEF Apart
<1> QED
  BY <1>1, <1>2, <1>3, <1>4, <1>5 DEF WorkerStep

LEMMA MemberApart == \A p \in Admin \cup Worker : ShapeInv /\ MemberStep(p) => Apart
<1> SUFFICES ASSUME NEW p \in Admin \cup Worker, ShapeInv, MemberStep(p) PROVE Apart
  OBVIOUS
<1>a. p \in Proc /\ Shape(op[p])
  BY DEF Proc, ShapeInv
<1>0. UNCHANGED config
  BY DEF MemberStep, AddRead, AddWrite, RemoveWrite, release_by_account, tables
<1>1. CASE AddRead(p)
  <2> DEFINE snap == IF op[p].source = "manual" THEN None ELSE op[p].rows[Head(op[p].todo)].raw.start
             r == [op[p] EXCEPT !.pc = "addWrite", !.snap = snap]
  <2>1. Shape(r) /\ r.pc = "addWrite"
    BY <1>a DEF Shape, Locals
  <2>2. Fails(p, "add", "idle") \/ Become(p, r)
    BY <1>1 DEF AddRead
  <2> HIDE DEF r
  <2>3. Moves(p, {"idle", "add", "idle"}) \/ Moves(p, {"addWrite"})
    BY <1>a, <2>1, <2>2, FailsMoves DEF Moves
  <2> QED
    BY <1>0, <1>a, <2>3, MovesAloof DEF Apart
<1>2. CASE AddWrite(p)
  <2>1. Moves(p, {"idle", "add", "idle"})
    BY <1>2, <1>a, FollowingMoves DEF AddWrite
  <2> QED
    BY <1>0, <1>a, <2>1, MovesAloof DEF Apart
<1>3. CASE RemoveWrite(p)
  <2>1. Moves(p, {"release"}) \/ Moves(p, {"idle", "drop", "refresh"})
    BY <1>3, <1>a, GotoMoves, FailsMoves DEF RemoveWrite
  <2> QED
    BY <1>0, <1>a, <2>1, MovesAloof DEF Apart
<1>4. CASE release_by_account(p)
  <2>1. Moves(p, {"idle", "drop", "idle"}) \/ Moves(p, {"idle", "drop", "refresh"})
    BY <1>4, <1>a, FollowingMoves DEF release_by_account
  <2> QED
    BY <1>0, <1>a, <2>1, MovesAloof DEF Apart
<1> QED
  BY <1>1, <1>2, <1>3, <1>4 DEF MemberStep

LEMMA RenterApart == \A u \in Renter : ShapeInv /\ RenterStep(u) => Apart
<1> SUFFICES ASSUME NEW u \in Renter, ShapeInv, RenterStep(u) PROVE Apart
  OBVIOUS
<1>a. u \in Proc /\ Shape(op[u])
  BY DEF Proc, ShapeInv
<1>0. UNCHANGED config
  BY DEF RenterStep, StartAcquire, select_account, Try, FailRead, FailWrite,
     record_account_success, Return, tables
<1>1. CASE StartAcquire(u)
  <2> DEFINE r == [Idle EXCEPT !.pc = "select", !.conf = get_config(config), !.left = Attempts,
                              !.current = held[u], !.prefer = held[u]]
  <2>1. Shape(r) /\ r.pc = "select"
    BY DEF Idle, Shape, Locals
  <2>2. Become(u, r)
    BY <1>1 DEF StartAcquire
  <2> HIDE DEF r
  <2>3. Moves(u, {"select"})
    BY <2>1, <2>2 DEF Moves
  <2> QED
    BY <1>0, <1>a, <2>3, MovesAloof DEF Apart
<1>2. CASE select_account(u)
  <2> DEFINE candidates == Candidates(u, op[u].tried)
             picked == IF op[u].prefer \in candidates THEN op[u].prefer
                       ELSE _pick_candidate(u, candidates, op[u].conf.scheduler_strategy)
             r == [op[u] EXCEPT !.pc = "try", !.left = @ - 1, !.prefer = picked]
  <2>1. Become(u, Idle) \/ Become(u, r)
    BY <1>2 DEF select_account
  <2> HIDE DEF picked
  <2>2. Shape(r) /\ r.pc = "try"
    BY <1>a DEF Shape, Locals
  <2> HIDE DEF r
  <2>3. Moves(u, {"idle"}) \/ Moves(u, {"try"})
    BY <2>1, <2>2, IdleMoves DEF Moves
  <2> QED
    BY <1>0, <1>a, <2>3, MovesAloof DEF Apart
<1>3. CASE Try(u)
  <2>1. \/ Become(u, Idle) \/ Become(u, Excluded(op[u]))
        \/ Goto(u, "fail") \/ Goto(u, "succeed")
    BY <1>3 DEF Try
  <2>2. \/ Moves(u, {"idle"}) \/ Moves(u, {"select"})
        \/ Moves(u, {"fail"}) \/ Moves(u, {"succeed"})
    BY <1>a, <2>1, IdleMoves, ExcludedMoves, GotoMoves
  <2> QED
    BY <1>0, <1>a, <2>2, MovesAloof DEF Apart
<1>4. CASE FailRead(u)
  <2> DEFINE r == [op[u] EXCEPT !.pc = "failWrite", !.base = member[op[u].prefer].fails]
  <2>1. Become(u, r) \/ Become(u, Excluded(op[u]))
    BY <1>4 DEF FailRead
  <2>2. Shape(r) /\ r.pc = "failWrite"
    BY <1>a DEF Shape, Locals
  <2> HIDE DEF r
  <2>3. Moves(u, {"failWrite"}) \/ Moves(u, {"select"})
    BY <1>a, <2>1, <2>2, ExcludedMoves DEF Moves
  <2> QED
    BY <1>0, <1>a, <2>3, MovesAloof DEF Apart
<1>5. CASE FailWrite(u)
  <2>1. Moves(u, {"select"})
    BY <1>5, <1>a, ExcludedMoves DEF FailWrite
  <2> QED
    BY <1>0, <1>a, <2>1, MovesAloof DEF Apart
<1>6. CASE record_account_success(u)
  <2>1. Moves(u, {"idle"})
    BY <1>6, IdleMoves DEF record_account_success
  <2> QED
    BY <1>0, <1>a, <2>1, MovesAloof DEF Apart
<1>7. CASE Return(u)
  <2>1. UNCHANGED op
    BY <1>7 DEF Return
  <2> QED
    BY <1>0, <2>1 DEF Apart, Aloof
<1> QED
  BY <1>1, <1>2, <1>3, <1>4, <1>5, <1>6, <1>7 DEF RenterStep

LEMMA StepApart == ShapeInv /\ [Next]_vars => Reading \/ Writes \/ Apart
<1> SUFFICES ASSUME ShapeInv, [Next]_vars PROVE Reading \/ Writes \/ Apart
  OBVIOUS
<1>1. CASE UNCHANGED vars
  BY <1>1 DEF vars, tables, Apart, Aloof
<1>2. CASE World
  BY <1>2 DEF World, NextDay, CloseCircuit, Sync, BindStatus, Unbind, Apart, Aloof
<1> QED
  BY <1>1, <1>2, AdminApart, WorkerApart, MemberApart, RenterApart DEF Next

\* The row, if there is one, can be read, and is as normalisation leaves it if it
\* has every field; so is the configuration an update has read.
Written(conf) == Normal(conf) /\ Whole(conf)
ConfigInv ==
    /\ config # None => Readable(config) /\ (DOMAIN config = Fields => Written(config))
    /\ \A p \in Proc : op[p].pc = "config" => Written(op[p].conf)

LEMMA ConfigInit == Init => ConfigInv
<1> SUFFICES ASSUME Init PROVE ConfigInv
  OBVIOUS
<1>1. config \in Stored /\ op = [p \in Proc |-> Idle]
  BY DEF Init
<1>2. config # None => Readable(config) /\ (DOMAIN config = Fields => Written(config))
  BY <1>1, ConfigAssumption DEF Written, Whole
<1>3. \A p \in Proc : op[p].pc = "idle"
  BY <1>1, IdleShape
<1> QED
  BY <1>2, <1>3 DEF ConfigInv

LEMMA ConfigStep == ShapeInv /\ ConfigInv /\ [Next]_vars => ConfigInv'
<1> SUFFICES ASSUME ShapeInv, ConfigInv, [Next]_vars PROVE ConfigInv'
  OBVIOUS
<1>1. CASE Apart
  BY <1>1 DEF Apart, Aloof, ConfigInv
<1>2. ASSUME NEW p \in Admin, ConfigRead(p) PROVE ConfigInv'
  <2> DEFINE conf == get_config(config)
             r == [Idle EXCEPT !.pc = "config", !.conf = conf]
  <2>1. Written(conf)
    BY ReadsNormal DEF ConfigInv, Written
  <2>2. Become(p, r) /\ UNCHANGED config /\ p \in Proc
    BY <1>2 DEF ConfigRead, tables, Proc
  <2> HIDE DEF conf
  <2>3. Shape(r) /\ r.conf = conf
    BY DEF Idle, Shape, Locals
  <2> HIDE DEF r
  <2>4. \A q \in Proc : op'[q] = IF q = p THEN r ELSE op[q]
    BY <2>2, <2>3, CalmShape
  <2> QED
    BY <2>1, <2>2, <2>3, <2>4 DEF ConfigInv
<1>3. ASSUME NEW p \in Admin, NEW payload \in Payload, ConfigWrite(p, payload) PROVE ConfigInv'
  <2>1. p \in Proc /\ Written(op[p].conf) /\ Readable(payload)
    BY <1>3, ConfigAssumption DEF ConfigWrite, ConfigInv, Proc
  <2>2. Readable(op[p].conf)
    BY <2>1, NormalStays DEF Written
  <2>3. Readable(Over(payload, op[p].conf)) /\ Whole(Over(payload, op[p].conf))
    BY <2>1, <2>2, OverReadable DEF Written
  <2>4. Written(config')
    BY <1>3, <2>3, BecomesNormal DEF ConfigWrite, MergedConfig, Written
  <2>5. Readable(config')
    BY <2>4, NormalStays DEF Written
  <2>6. \A q \in Proc : op'[q] = op[q] \/ op'[q].pc # "config"
    <3>1. Become(p, Idle)
      BY <1>3 DEF ConfigWrite
    <3> QED
      BY <2>1, <3>1, CalmShape, IdleShape
  <2> QED
    BY <2>4, <2>5, <2>6 DEF ConfigInv
<1> QED
  BY <1>1, <1>2, <1>3, StepApart DEF Reading, Writes

LEMMA ConfigReads == ConfigInv => ConfigReadsBack
<1> SUFFICES ASSUME ConfigInv, config # None, DOMAIN config = Fields
             PROVE  /\ get_config(config) = config
                    /\ config.auto_pool_remaining_days_lte = config.auto_pool_join_rules[1].remaining_days
                    /\ config.auto_pool_usage_below_percent
                         + config.auto_pool_join_rules[1].remaining_usage_percent = 100
  BY DEF ConfigReadsBack
<1>1. Normal(config) /\ Whole(config)
  BY DEF ConfigInv, Written
<1>2. get_config(config) = config
  BY <1>1, ReadsBack
<1> DEFINE rules == config.auto_pool_join_rules
<1>3. /\ rules \in Seq(CleanRule) \ {<<>>}
      /\ config.auto_pool_remaining_days_lte = rules[1].remaining_days
      /\ config.auto_pool_usage_below_percent = 100 - rules[1].remaining_usage_percent
  BY <1>1 DEF Normal
<1> HIDE DEF rules
<1>4. rules[1] \in CleanRule
  BY <1>3
<1>5. rules[1].remaining_usage_percent \in Int
  BY <1>4 DEF CleanRule
<1> QED
  BY <1>2, <1>3, <1>5 DEF rules

\* Whoever wrote the row, the configuration that calls read from a row with every
\* field is that row: get_config normalises what update_config has normalised
\* already, and the two fields of the older shape agree with the first rule.
THEOREM ConfigsReadBack == Spec => []ConfigReadsBack
<1>1. Spec => [](ShapeInv /\ ConfigInv)
  <2>1. CircuitInv => ShapeInv
    BY DEF CircuitInv
  <2>2. CircuitInv /\ ConfigInv /\ [Next]_vars => (CircuitInv /\ ConfigInv)'
    BY <2>1, CircuitStep, ConfigStep
  <2> QED
    BY <2>1, <2>2, CircuitInit, ConfigInit, PTL DEF Spec
<1> QED
  BY <1>1, ConfigReads, PTL

-----------------------------------------------------------------------------
\* What is bounded from below is least somewhere.
LEMMA Lowest ==
  ASSUME NEW S, S # {}, NEW f, NEW low \in Int, \A a \in S : f[a] \in Int /\ f[a] >= low
  PROVE  \E a \in S : \A b \in S : f[a] <= f[b]
<1> DEFINE heights == {n \in Nat : \E a \in S : f[a] = low + n}
<1>1. \A a \in S : f[a] - low \in heights
  <2> SUFFICES ASSUME NEW a \in S PROVE f[a] - low \in heights
    OBVIOUS
  <2>1. f[a] - low \in Nat /\ f[a] = low + (f[a] - low)
    OBVIOUS
  <2> QED
    BY <2>1
<1>2. PICK n \in heights : \A m \in heights : ~(<<m, n>> \in OpToRel(<, Nat))
  BY <1>1, NatLessThanWellFounded, WFMin
<1>3. ASSUME NEW m \in heights PROVE n <= m
  <2>1. <<m, n>> \in OpToRel(<, Nat) <=> m < n
    BY DEF OpToRel
  <2>2. ~(<<m, n>> \in OpToRel(<, Nat))
    BY <1>2
  <2> HIDE DEF heights
  <2>3. ~(m < n)
    BY <2>1, <2>2
  <2>4. m \in Nat /\ n \in Nat
    BY DEF heights
  <2> QED
    BY <2>3, <2>4
<1>4. PICK a \in S : f[a] = low + n
  OBVIOUS
<1>5. n \in Nat
  OBVIOUS
<1>6. ASSUME NEW b \in S PROVE f[a] <= f[b]
  <2>1. n <= f[b] - low
    BY <1>1, <1>3
  <2> HIDE DEF heights
  <2> QED
    BY <1>4, <1>5, <2>1
<1> QED
  BY <1>6

\* The accounts of S one after the other, in the order of their ids.
InOrder(s, S) ==
    /\ s \in [1..Cardinality(S) -> S]
    /\ \A i, j \in 1..Cardinality(S) : i < j => s[i] < s[j]

LEMMA OneMore ==
  ASSUME NEW S, S \subseteq Nat, IsFiniteSet(S), NEW m \in S, \A a \in S : m <= a,
         NEW t, InOrder(t, S \ {m})
  PROVE  \E s : InOrder(s, S)
<1> DEFINE n == Cardinality(S)
           s == [i \in 1..n |-> IF i = 1 THEN m ELSE t[i - 1]]
<1>1. n \in Nat /\ Cardinality(S \ {m}) = n - 1 /\ n - 1 \in Nat
  BY FS_CardinalityType, FS_RemoveElement
<1>2. t \in [1..n - 1 -> S \ {m}] /\ \A i, j \in 1..n - 1 : i < j => t[i] < t[j]
  BY <1>1 DEF InOrder
<1> HIDE DEF n
<1>3. \A i \in 1..n : i # 1 => i - 1 \in 1..n - 1 /\ t[i - 1] \in S \ {m}
  BY <1>1, <1>2
<1>4. s \in [1..n -> S]
  BY <1>3
<1>5. ASSUME NEW i \in 1..n, NEW j \in 1..n, i < j PROVE s[i] < s[j]
  <2>1. j # 1 /\ j - 1 \in 1..n - 1 /\ s[j] = t[j - 1] /\ t[j - 1] \in S \ {m}
    BY <1>1, <1>3, <1>5
  <2>2. CASE i = 1
    <3>1. s[i] = m /\ m \in Nat /\ t[j - 1] \in Nat /\ m <= t[j - 1] /\ m # t[j - 1]
      BY <2>1, <2>2
    <3> QED
      BY <2>1, <3>1
  <2>3. CASE i # 1
    <3>1. i - 1 \in 1..n - 1 /\ s[i] = t[i - 1] /\ i - 1 < j - 1
      BY <1>1, <1>3, <1>5, <2>3
    <3> QED
      BY <1>2, <2>1, <3>1
  <2> QED
    BY <2>2, <2>3
<1> HIDE DEF s
<1>6. InOrder(s, S)
  BY <1>4, <1>5 DEF InOrder, n
<1> QED
  BY <1>6

\* Every finite set of accounts can be put in order: of those that could not,
\* one with the fewest members would lose its least to one that can.
LEMMA CanBeOrdered == \A S : S \subseteq Nat /\ IsFiniteSet(S) => \E s : InOrder(s, S)
<1> DEFINE Bad(S) == S \subseteq Nat /\ IsFiniteSet(S) /\ ~\E s : InOrder(s, S)
           sizes == {n \in Nat : \E S : Bad(S) /\ Cardinality(S) = n}
<1> SUFFICES ASSUME NEW S0, Bad(S0) PROVE FALSE
  OBVIOUS
<1>1. Cardinality(S0) \in sizes
  BY FS_CardinalityType
<1>2. PICK n \in sizes : \A m \in sizes : ~(<<m, n>> \in OpToRel(<, Nat))
  BY <1>1, NatLessThanWellFounded, WFMin
<1>3. ASSUME NEW m \in sizes PROVE ~(m < n)
  <2>1. <<m, n>> \in OpToRel(<, Nat) <=> m < n
    BY DEF OpToRel
  <2>2. ~(<<m, n>> \in OpToRel(<, Nat))
    BY <1>2
  <2> QED
    BY <2>1, <2>2
<1>4. PICK S : Bad(S) /\ Cardinality(S) = n
  OBVIOUS
<1>5. S # {}
  <2>1. SUFFICES ASSUME S = {} PROVE FALSE
    OBVIOUS
  <2>2. Cardinality(S) = 0
    BY <2>1, FS_EmptySet
  <2> DEFINE e == [i \in 1..0 |-> 0]
  <2>3. e \in [1..0 -> S]
    OBVIOUS
  <2>4. InOrder(e, S)
    BY <2>2, <2>3 DEF InOrder
  <2> QED
    BY <1>4, <2>4
<1>6. PICK m \in S : \A a \in S : m <= a
  <2> DEFINE id == [a \in S |-> a]
  <2>1. \A a \in S : id[a] \in Int /\ id[a] >= 0
    BY <1>4
  <2> HIDE DEF id
  <2>2. \E a \in S : \A b \in S : id[a] <= id[b]
    BY <1>5, <2>1, Lowest
  <2> QED
    BY <2>2 DEF id
<1>7. /\ S \ {m} \subseteq Nat /\ IsFiniteSet(S \ {m})
      /\ Cardinality(S \ {m}) = n - 1 /\ n - 1 \in Nat /\ n \in Nat
  <2>1. S \subseteq Nat /\ IsFiniteSet(S)
    BY <1>4
  <2>2. IsFiniteSet(S \ {m}) /\ Cardinality(S \ {m}) = Cardinality(S) - 1
    BY <2>1, FS_RemoveElement
  <2>3. Cardinality(S \ {m}) \in Nat
    BY <2>2, FS_CardinalityType
  <2> QED
    BY <1>4, <2>1, <2>2, <2>3
<1>8. ~\E t : InOrder(t, S \ {m})
  BY <1>4, <1>6, OneMore
<1>9. n - 1 \in sizes
  BY <1>7, <1>8
<1>10. ~(n - 1 < n)
  BY <1>3, <1>9
<1> HIDE DEF sizes
<1> QED
  BY <1>7, <1>10

LEMMA SortedFacts ==
  ASSUME NEW S, S \subseteq Account
  PROVE  Sorted(S) \in Seq(S) /\ ToSet(Sorted(S)) = S /\ (S # {} => Sorted(S) # <<>>)
<1>1. S \subseteq Nat /\ IsFiniteSet(S)
  BY PoolAssumption, FS_Subset
<1> DEFINE n == Cardinality(S)
           D == 1..n
<1>2. n \in Nat
  BY <1>1, FS_CardinalityType
<1>3. PICK t : InOrder(t, S)
  BY <1>1, CanBeOrdered
<1>4. t \in [D -> S] /\ \A i, j \in D : i < j => t[i] < t[j]
  BY <1>3 DEF InOrder
<1>5. \A i, j \in D : i # j => t[i] # t[j]
  <2> SUFFICES ASSUME NEW i \in D, NEW j \in D, i # j PROVE t[i] # t[j]
    OBVIOUS
  <2>1. i < j \/ j < i
    BY <1>2
  <2>2. t[i] \in Nat /\ t[j] \in Nat
    BY <1>1, <1>4
  <2> QED
    BY <1>4, <2>1, <2>2
<1>6. t \in SetToSeqs(S)
  BY <1>4, <1>5 DEF SetToSeqs
<1>7. DOMAIN t = D
  BY <1>4
<1> DEFINE o == Sorted(S)
<1>8. o \in SetToSeqs(S)
  BY <1>4, <1>6, <1>7 DEF Sorted
<1>9. o \in [D -> S] /\ \A i, j \in D : i # j => o[i] # o[j]
  BY <1>8 DEF SetToSeqs
<1> HIDE DEF o
<1>10. o \in Injection(D, S)
  BY <1>9 DEF Injection, IsInjective
<1>11. IsFiniteSet(D) /\ Cardinality(D) = Cardinality(S)
  BY <1>2, FS_Interval
<1>12. o \in Surjection(D, S)
  BY <1>1, <1>10, <1>11, FS_Injection
<1>13. \A a \in S : \E i \in D : o[i] = a
  BY <1>12 DEF Surjection
<1>14. DOMAIN o = D
  BY <1>9
<1>15. ToSet(o) = S
  BY <1>9, <1>13, <1>14 DEF ToSet
<1>16. o \in Seq(S)
  BY <1>2, <1>14, <1>9
<1>17. S # {} => o # <<>>
  <2>1. S # {} => 1 \in D
    BY <1>13, <1>2
  <2> HIDE DEF D
  <2>2. DOMAIN o = 1..Len(o) /\ (o = <<>> => Len(o) = 0)
    BY <1>16
  <2>3. o = <<>> => D = {}
    BY <1>14, <2>2
  <2> QED
    BY <2>1, <2>3
<1> QED
  BY <1>15, <1>16, <1>17 DEF o

-----------------------------------------------------------------------------
LEMMA TodoFacts ==
  ASSUME NEW s \in Seq(Account), s # <<>>
  PROVE  /\ Head(s) \in Account /\ Head(s) \in ToSet(s) /\ ToSet(s) \subseteq Account
         /\ Len(s) > 1 => /\ Tail(s) \in Seq(Account) /\ Tail(s) # <<>>
                          /\ ToSet(s) = {Head(s)} \cup ToSet(Tail(s))
         /\ ~(Len(s) > 1) => ToSet(s) = {Head(s)}
<1>1. /\ Len(s) \in Nat \ {0} /\ DOMAIN s = 1..Len(s) /\ Head(s) = s[1]
      /\ \A i \in 1..Len(s) : s[i] \in Account
  OBVIOUS
<1>2. Head(s) \in Account /\ Head(s) \in ToSet(s) /\ ToSet(s) \subseteq Account
  BY <1>1 DEF ToSet
<1>3. ASSUME Len(s) > 1
      PROVE  /\ Tail(s) \in Seq(Account) /\ Tail(s) # <<>>
             /\ ToSet(s) = {Head(s)} \cup ToSet(Tail(s))
  <2> DEFINE t == Tail(s)
  <2>1. /\ t \in Seq(Account) /\ Len(t) = Len(s) - 1 /\ DOMAIN t = 1..Len(t)
        /\ \A i \in 1..Len(t) : t[i] = s[i + 1]
    BY <1>1, <1>3
  <2> HIDE DEF t
  <2>2. t # <<>>
    BY <1>3, <2>1
  <2>3. ASSUME NEW i \in 1..Len(s) PROVE s[i] \in {Head(s)} \cup ToSet(t)
    <3>1. CASE i = 1
      BY <1>1, <3>1
    <3>2. CASE i # 1
      <4>1. i - 1 \in 1..Len(t) /\ t[i - 1] = s[i]
        BY <1>1, <2>1, <3>2
      <4> QED
        BY <2>1, <4>1 DEF ToSet
    <3> QED
      BY <3>1, <3>2
  <2>4. ASSUME NEW i \in 1..Len(t) PROVE t[i] \in ToSet(s)
    BY <1>1, <2>1 DEF ToSet
  <2>5. ToSet(s) = {Head(s)} \cup ToSet(t)
    BY <1>1, <1>2, <2>1, <2>3, <2>4 DEF ToSet
  <2> QED
    BY <2>1, <2>2, <2>5 DEF t
<1>4. ASSUME ~(Len(s) > 1) PROVE ToSet(s) = {Head(s)}
  <2>1. Len(s) = 1
    BY <1>1, <1>4
  <2> QED
    BY <1>1, <2>1 DEF ToSet
<1> QED
  BY <1>2, <1>3, <1>4

LEMMA ChosenSeq ==
  ASSUME NEW S \in (SUBSET Account) \ {{}}, NEW s \in SetToSeqs(S)
  PROVE  s \in Seq(Account) /\ s # <<>>
<1>1. S \subseteq Account /\ IsFiniteSet(S) /\ S # {}
  BY PoolAssumption, FS_Subset
<1>2. Cardinality(S) \in Nat /\ Cardinality(S) # 0
  BY <1>1, FS_CardinalityType, FS_EmptySet
<1> DEFINE n == Cardinality(S)
<1>3. s \in [1..n -> S]
  BY DEF SetToSeqs
<1> HIDE DEF n
<1>4. s \in [1..n -> Account] /\ n \in Nat /\ n # 0
  BY <1>1, <1>2, <1>3 DEF n
<1>5. s \in Seq(Account) /\ Len(s) = n
  BY <1>4
<1> QED
  BY <1>4, <1>5

LEMMA SortedSeq ==
  ASSUME NEW S, S \subseteq Account, S # {}
  PROVE  Sorted(S) \in Seq(Account) /\ Sorted(S) # <<>> /\ ToSet(Sorted(S)) = S
<1> DEFINE s == Sorted(S)
<1>1. s \in Seq(S) /\ ToSet(s) = S /\ s # <<>>
  BY SortedFacts
<1> HIDE DEF s
<1>2. s \in Seq(Account)
  BY <1>1
<1> QED
  BY <1>1, <1>2 DEF s

LEMMA LeastLevel == Min(Levels) \in Levels
<1> DEFINE id == [x \in Levels |-> x]
<1>1. \A x \in Levels : id[x] \in Int /\ id[x] >= 0
  BY PoolAssumption
<1>2. Levels # {}
  BY PoolAssumption
<1> HIDE DEF id
<1>3. \E x \in Levels : \A y \in Levels : id[x] <= id[y]
  BY <1>1, <1>2, Lowest
<1>4. \E x \in Levels : \A y \in Levels : x <= y
  BY <1>3 DEF id
<1> QED
  BY <1>4 DEF Min

LEMMA ConfigFields == \A stored : DOMAIN get_config(stored) = Fields
  BY DEF get_config, Fields

-----------------------------------------------------------------------------
LEMMA OthersNumber == \A u, a : Others(u, a) \in Nat
<1> SUFFICES ASSUME NEW u, NEW a PROVE Others(u, a) \in Nat
  OBVIOUS
<1>1. {v \in Renter \ {u} : held[v] = a} \subseteq Renter
  OBVIOUS
<1>2. IsFiniteSet({v \in Renter \ {u} : held[v] = a})
  BY <1>1, PoolAssumption, FS_Subset
<1> QED
  BY <1>2, FS_CardinalityType DEF Others

\* The key by which _pick_candidate compares the accounts.
Key(u, a, strategy) ==
    IF strategy = "expiry_first"
    THEN <<IF row[a].raw = None THEN 1000000000 ELSE remaining_days(row[a]), Others(u, a), a>>
    ELSE <<-compute_schedule_score(u, a), 0, a>>

LEMMA KeyFacts ==
  ASSUME today \in 0..MaxDay, row \in [Account -> Row \cup {None}],
         NEW u, NEW a \in Account, row[a] # None, NEW strategy
  PROVE  LET k == Key(u, a, strategy)
         IN  /\ k[1] \in Int /\ k[1] >= -MaxDay - 1000
             /\ k[2] \in Nat /\ k[3] = a
<1>1. row[a] \in Row
  OBVIOUS
<1>2. row[a].raw # None => row[a].raw.start \in 0..MaxDay /\ row[a].raw.used \in 0..100
  BY <1>1, PoolAssumption DEF Row, Raw
<1>3. Others(u, a) \in Nat
  BY OthersNumber
<1>4. CASE strategy = "expiry_first"
  <2>1. row[a].raw # None => remaining_days(row[a]) \in Int /\ remaining_days(row[a]) >= -MaxDay
    BY <1>2, PoolAssumption DEF remaining_days
  <2> QED
    BY <1>3, <1>4, <2>1, PoolAssumption DEF Key
<1>5. CASE strategy # "expiry_first"
  <2>1. compute_schedule_score(u, a) \in Int /\ compute_schedule_score(u, a) <= 1000
    BY <1>2, <1>3 DEF compute_schedule_score
  <2> QED
    BY <1>5, <2>1, PoolAssumption DEF Key
<1> QED
  BY <1>4, <1>5

LEMMA PickFacts ==
  ASSUME today \in 0..MaxDay, row \in [Account -> Row \cup {None}],
         NEW u, NEW S, S # {}, S \subseteq Account, \A a \in S : row[a] # None, NEW strategy
  PROVE  _pick_candidate(u, S, strategy) \in S
<1> DEFINE key(a) == Key(u, a, strategy)
           before(a, b) == \E i \in 1..3 : key(a)[i] < key(b)[i] /\ \A j \in 1..(i - 1) : key(a)[j] = key(b)[j]
<1>1. \A a \in S : key(a)[1] \in Int /\ key(a)[1] >= -MaxDay - 1000 /\ key(a)[2] \in Nat /\ key(a)[3] = a
  BY KeyFacts
<1>2. _pick_candidate(u, S, strategy) = CHOOSE a \in S : \A b \in S \ {a} : before(a, b)
  BY DEF _pick_candidate, Key
<1> DEFINE f1 == [a \in S |-> key(a)[1]]
           f2 == [a \in S |-> key(a)[2]]
           low == -MaxDay - 1000
<1> HIDE DEF key
<1>3. low \in Int /\ \A a \in S : f1[a] \in Int /\ f1[a] >= low /\ f2[a] \in Nat
  BY <1>1, PoolAssumption
<1> DEFINE S1 == {a \in S : \A b \in S : f1[a] <= f1[b]}
<1> HIDE DEF f1, f2, low
<1>4. S1 # {}
  BY <1>3, Lowest
<1> DEFINE S2 == {a \in S1 : \A b \in S1 : f2[a] <= f2[b]}
<1>5. S2 # {}
  <2>1. \A a \in S1 : f2[a] \in Int /\ f2[a] >= 0
    BY <1>3
  <2> HIDE DEF S1
  <2>2. \E a \in S1 : \A b \in S1 : f2[a] <= f2[b]
    BY <1>4, <2>1, Lowest
  <2> QED
    BY <2>2
<1>6. PICK a \in S2 : \A b \in S2 : a <= b
  <2> DEFINE id == [x \in S2 |-> x]
  <2>1. \A x \in S2 : id[x] \in Int /\ id[x] >= 0
    BY PoolAssumption
  <2> HIDE DEF id, S2
  <2>2. \E x \in S2 : \A y \in S2 : id[x] <= id[y]
    BY <1>5, <2>1, Lowest
  <2> QED
    BY <2>2 DEF id
<1>7. a \in S /\ a \in S1 /\ a \in S2
  OBVIOUS
<1>8. ASSUME NEW b \in S \ {a} PROVE before(a, b)
  <2>1. /\ a \in Nat /\ b \in Nat /\ a # b
        /\ key(a)[1] = f1[a] /\ key(b)[1] = f1[b] /\ key(a)[2] = f2[a] /\ key(b)[2] = f2[b]
        /\ key(a)[3] = a /\ key(b)[3] = b
    BY <1>1, <1>7, PoolAssumption DEF f1, f2
  <2>2. f1[a] \in Int /\ f1[b] \in Int /\ f2[a] \in Nat /\ f2[b] \in Nat /\ f1[a] <= f1[b]
    BY <1>3, <1>7
  <2>3. CASE f1[a] < f1[b]
    <3>1. 1 \in 1..3 /\ key(a)[1] < key(b)[1] /\ \A j \in 1..(1 - 1) : key(a)[j] = key(b)[j]
      BY <2>1, <2>3
    <3> QED
      BY <3>1
  <2>4. CASE f1[a] = f1[b]
    <3>1. b \in S1
      BY <1>7, <2>4
    <3>2. f2[a] <= f2[b]
      BY <1>7, <3>1
    <3>3. CASE f2[a] < f2[b]
      <4>1. 2 \in 1..3 /\ key(a)[2] < key(b)[2] /\ \A j \in 1..(2 - 1) : key(a)[j] = key(b)[j]
        BY <2>1, <2>4, <3>3
      <4> QED
        BY <4>1
    <3>4. CASE f2[a] = f2[b]
      <4>1. b \in S2
        BY <1>7, <3>1, <3>4
      <4>2. a < b
        BY <1>6, <2>1, <4>1
      <4>3. \A j \in 1..2 : j = 1 \/ j = 2
        OBVIOUS
      <4>4. 3 \in 1..3 /\ key(a)[3] < key(b)[3] /\ \A j \in 1..(3 - 1) : key(a)[j] = key(b)[j]
        BY <2>1, <2>4, <3>4, <4>2, <4>3
      <4> QED
        BY <4>4
    <3> QED
      BY <2>2, <3>2, <3>3, <3>4
  <2> QED
    BY <2>2, <2>3, <2>4
<1> HIDE DEF S1, S2, before
<1>9. \E x \in S : \A b \in S \ {x} : before(x, b)
  BY <1>7, <1>8
<1> QED
  BY <1>2, <1>9

-----------------------------------------------------------------------------
\* Accounts are left to do.
Todo(r) == r.todo \in Seq(Account) /\ r.todo # <<>>

\* What a call goes on from, by the kind of its process.
AdminReady(r) ==
    /\ r.pc \in {"idle", "add", "addWrite", "drop", "release", "config"}
    /\ r.source = "manual"
    /\ r.pc \in {"add", "addWrite", "drop", "release"} => Todo(r)
    /\ r.pc = "addWrite" => r.snap = None

WorkerReady(r) ==
    /\ r.pc \in {"idle", "snapshot", "drop", "release", "refresh", "add", "addWrite", "mark"}
    /\ r.pc \in {"drop", "release", "add", "addWrite", "mark"} => Todo(r)
    /\ r.pc \in {"snapshot", "drop", "release", "refresh", "add", "addWrite"} =>
         r.source = "auto" /\ DOMAIN r.conf = Fields
    /\ r.pc \in {"drop", "release", "refresh", "add", "addWrite"} =>
         r.rows \in [Account -> Row \cup {None}]
    /\ r.pc \in {"add", "addWrite"} =>
         \A a \in ToSet(r.todo) : r.rows[a] # None /\ r.rows[a].raw # None
    /\ r.pc = "addWrite" => r.snap \in Snap

RenterReady(r) ==
    /\ r.pc \in {"idle", "select", "try", "fail", "failWrite", "succeed"}
    /\ r.pc \in {"select", "try", "fail", "failWrite"} => DOMAIN r.conf = Fields
    /\ r.pc \in {"try", "fail", "failWrite", "succeed"} => r.prefer \in Account
    /\ IsFiniteSet(r.tried)
    /\ r.pc = "select" => r.left = Attempts - Cardinality(r.tried)
    /\ r.pc \in {"try", "fail", "failWrite"} =>
         r.prefer \notin r.tried /\ r.left = Attempts - Cardinality(r.tried) - 1
    /\ r.pc = "failWrite" => r.base \in Nat

Ready(p, r) ==
    /\ p \in Admin => AdminReady(r)
    /\ p \in Worker => WorkerReady(r)
    /\ p \in Renter => RenterReady(r)

TablesOK ==
    /\ today \in 0..MaxDay
    /\ row \in [Account -> Row \cup {None}]
    /\ member \in [Account -> Member]
    /\ held \in [Renter -> Account \cup {None}]
    /\ calls \in 0..MaxCalls

WatchOK == alone \in [Worker -> BOOLEAN] /\ settled \in BOOLEAN

AllReady == \A p \in Proc : Ready(p, op[p])

TypeInv == CircuitInv /\ TablesOK /\ WatchOK /\ AllReady

LEMMA TypeImplies == TypeInv => TypeOK
<1> SUFFICES ASSUME TypeInv PROVE TypeOK
  OBVIOUS
<1>1. TablesOK /\ WatchOK /\ AllReady /\ ShapeInv
  BY DEF TypeInv, CircuitInv
<1>2. ASSUME NEW p \in Proc
      PROVE LET r == op[p]
            IN  /\ r.pc \in Label(p)
                /\ r.pc \in {"add", "addWrite", "drop", "release", "mark"} => r.todo # <<>>
                /\ r.pc \in {"refresh", "select", "try", "fail", "failWrite"} => DOMAIN r.conf = Fields
                /\ r.pc \in {"try", "fail", "failWrite", "succeed"} => r.prefer \in Account
                /\ r.pc = "select" => r.left = Attempts - Cardinality(r.tried)
  <2>1. Ready(p, op[p])
    BY <1>1 DEF AllReady
  <2>2. CASE p \in Admin
    <3>1. AdminReady(op[p])
      BY <2>1, <2>2 DEF Ready
    <3>2. Label(p) = {"idle", "add", "addWrite", "drop", "release", "config"}
      BY <2>2, PoolAssumption DEF Label
    <3> QED
      BY <3>1, <3>2 DEF AdminReady, Todo
  <2>3. CASE p \in Worker
    <3>1. WorkerReady(op[p])
      BY <2>1, <2>3 DEF Ready
    <3>2. Label(p) = {"idle", "snapshot", "drop", "release", "refresh", "add", "addWrite", "mark"}
      BY <2>3, PoolAssumption DEF Label
    <3> QED
      BY <3>1, <3>2 DEF WorkerReady, Todo
  <2>4. CASE p \in Renter
    <3>1. RenterReady(op[p])
      BY <2>1, <2>4 DEF Ready
    <3>2. Label(p) = {"idle", "select", "try", "fail", "failWrite", "succeed"}
      BY <2>4, PoolAssumption DEF Label
    <3> QED
      BY <3>1, <3>2 DEF RenterReady
  <2> QED
    BY <2>2, <2>3, <2>4 DEF Proc
<1>3. failures \in [Account -> Nat] /\ mixed \in [Account -> BOOLEAN]
  BY <1>1 DEF ShapeInv
<1> QED
  BY <1>1, <1>2, <1>3 DEF TypeOK, TablesOK, WatchOK

LEMMA IdleReady == \A p : Ready(p, Idle)
<1>1. /\ Idle.pc = "idle" /\ Idle.source = "manual" /\ Idle.tried = {}
  BY DEF Idle
<1>2. IsFiniteSet({})
  BY FS_EmptySet
<1> QED
  BY <1>1, <1>2 DEF Ready, AdminReady, WorkerReady, RenterReady

LEMMA TypeInit == Init => TypeInv
<1> SUFFICES ASSUME Init PROVE TypeInv
  OBVIOUS
<1>1. PICK known \in SUBSET Account :
        row = [a \in Account |-> [ok |-> TRUE,
                  raw |-> IF a \in known THEN [start |-> 0, used |-> Min(Levels)] ELSE None]]
  BY DEF Init
<1>2. row \in [Account -> Row \cup {None}]
  <2>1. [start |-> 0, used |-> Min(Levels)] \in Raw
    BY LeastLevel, PoolAssumption DEF Raw
  <2>2. \A a \in Account : [ok |-> TRUE,
           raw |-> IF a \in known THEN [start |-> 0, used |-> Min(Levels)] ELSE None] \in Row
    BY <2>1 DEF Row
  <2> QED
    BY <1>1, <2>2
<1>3. NoMember \in Member
  BY DEF NoMember, Member, Source, Snap
<1>4. TablesOK /\ WatchOK
  <2>1. /\ today = 0 /\ calls = 0 /\ settled = FALSE /\ alone = [p \in Worker |-> FALSE]
        /\ held = [u \in Renter |-> None] /\ member = [a \in Account |-> NoMember]
    BY DEF Init
  <2>2. today \in 0..MaxDay /\ calls \in 0..MaxCalls
    BY <2>1, PoolAssumption
  <2>3. member \in [Account -> Member] /\ held \in [Renter -> Account \cup {None}]
    BY <2>1, <1>3
  <2>4. alone \in [Worker -> BOOLEAN] /\ settled \in BOOLEAN
    BY <2>1
  <2> QED
    BY <1>2, <2>2, <2>3, <2>4 DEF TablesOK, WatchOK
<1>5. \A p \in Proc : op[p] = Idle
  BY DEF Init
<1> QED
  BY <1>4, <1>5, IdleReady, CircuitInit DEF TypeInv, AllReady

-----------------------------------------------------------------------------
LEMMA NowReady ==
  ASSUME ShapeInv, AllReady, NEW p \in Proc, NEW r, Become(p, r), Shape(r), Ready(p, r)
  PROVE  AllReady'
<1>1. \A q \in Proc : op'[q] = IF q = p THEN r ELSE op[q]
  BY CalmShape
<1> QED
  BY <1>1 DEF AllReady, Ready, AdminReady, WorkerReady, RenterReady, Todo

LEMMA NowIdle ==
  ASSUME ShapeInv, AllReady, NEW p \in Proc, Become(p, Idle)
  PROVE  AllReady'
  BY IdleShape, IdleReady, NowReady

LEMMA StillReady == AllReady /\ UNCHANGED op => AllReady'
  BY DEF AllReady, Ready, AdminReady, WorkerReady, RenterReady, Todo

LEMMA OneKind ==
  /\ \A p \in Admin : \A r : AdminReady(r) => Ready(p, r)
  /\ \A p \in Worker : \A r : WorkerReady(r) => Ready(p, r)
  /\ \A p \in Renter : \A r : RenterReady(r) => Ready(p, r)
  BY PoolAssumption DEF Ready

\* The ghosts that Watch keeps are truth values.
LEMMA Watching == Watch /\ WatchOK => WatchOK'
<1> SUFFICES ASSUME Watch, WatchOK PROVE alone' \in [Worker -> BOOLEAN] /\ settled' \in BOOLEAN
  BY DEF WatchOK
<1> DEFINE changed == Decides' # Decides
           now(p) == IF op[p].pc = "idle" THEN op'[p].pc = "snapshot"
                     ELSE alone[p] /\ (changed => op'[p] # op[p])
           done == \/ settled /\ ~changed
                   \/ \E p \in Worker : (op[p].pc # "idle" /\ op'[p].pc = "idle") /\ alone[p]
<1>1. alone' = [p \in Worker |-> now(p)] /\ settled' = done
  BY DEF Watch
<1>2. \A p \in Worker : now(p) \in BOOLEAN
  BY DEF WatchOK
<1>3. done \in BOOLEAN
  BY DEF WatchOK
<1> HIDE DEF now, done
<1> QED
  BY <1>1, <1>2, <1>3

\* A call of p that goes on with the accounts left to do.
LEMMA FollowingReady ==
  ASSUME ShapeInv, AllReady, NEW p \in Proc, Todo(op[p]), NEW label, NEW after, Following(p, label, after),
         \A todo : (/\ todo \in Seq(Account) /\ todo # <<>>
                    /\ ToSet(todo) \subseteq ToSet(op[p].todo)) =>
                      Ready(p, [op[p] EXCEPT !.pc = label, !.todo = todo]),
         after # "idle" => Ready(p, [op[p] EXCEPT !.pc = after])
  PROVE  AllReady'
<1> DEFINE s == op[p].todo
           next == [op[p] EXCEPT !.pc = label, !.todo = Tail(s)]
           past == [op[p] EXCEPT !.pc = after]
<1>1. Shape(op[p]) /\ s \in Seq(Account) /\ s # <<>>
  BY DEF ShapeInv, Todo
<1>2. \/ Len(s) > 1 /\ Become(p, next)
      \/ Become(p, Idle)
      \/ after # "idle" /\ Become(p, past)
  BY DEF Following, Goto
<1>3. Shape(next) /\ Shape(past)
  BY <1>1 DEF Shape, Locals
<1>4. Len(s) > 1 => Ready(p, next)
  <2>1. Len(s) > 1 => /\ Tail(s) \in Seq(Account) /\ Tail(s) # <<>>
                      /\ ToSet(s) = {Head(s)} \cup ToSet(Tail(s))
    BY <1>1, TodoFacts
  <2> QED
    BY <2>1
<1> HIDE DEF s, next
<1>5. after # "idle" => Ready(p, past)
  OBVIOUS
<1> HIDE DEF past
<1> QED
  BY <1>2, <1>3, <1>4, <1>5, NowReady, NowIdle

-----------------------------------------------------------------------------
LEMMA Counts == TablesOK /\ Call => calls' \in 0..MaxCalls
  BY PoolAssumption DEF TablesOK, Call

LEMMA TablesStay ==
  ASSUME TablesOK, UNCHANGED tables, UNCHANGED held, calls' \in 0..MaxCalls
  PROVE  TablesOK'
  BY DEF TablesOK, tables

LEMMA MemberOK ==
  ASSUME TablesOK, NEW a, NEW m, member' = [member EXCEPT ![a] = m], a \in Account => m \in Member,
         UNCHANGED <<today, row, held>>, calls' \in 0..MaxCalls
  PROVE  TablesOK'
  BY DEF TablesOK

LEMMA AdminTypes == \A p \in Admin : ShapeInv /\ TablesOK /\ AllReady /\ AdminStep(p) => TablesOK' /\ AllReady'
<1> SUFFICES ASSUME NEW p \in Admin, ShapeInv, TablesOK, AllReady, AdminStep(p) PROVE TablesOK' /\ AllReady'
  OBVIOUS
<1>a. p \in Proc
  BY DEF Proc
<1>i. Idle.source = "manual"
  BY DEF Idle
<1>1. ASSUME NEW S \in (SUBSET Account) \ {{}}, NEW accounts \in SetToSeqs(S), StartAdd(p, accounts)
      PROVE  TablesOK' /\ AllReady'
  <2> DEFINE r == [Idle EXCEPT !.pc = "add", !.todo = accounts]
  <2>1. Shape(r) /\ r.pc = "add" /\ r.source = "manual" /\ r.todo = accounts
    BY DEF Idle, Shape, Locals
  <2>2. Become(p, r) /\ Call /\ UNCHANGED tables /\ UNCHANGED held
    BY <1>1 DEF StartAdd, Starts
  <2> HIDE DEF r
  <2>3. AdminReady(r)
    BY <2>1, ChosenSeq DEF AdminReady, Todo
  <2> QED
    BY <1>a, <2>1, <2>2, <2>3, OneKind, NowReady, Counts, TablesStay
<1>2. ASSUME NEW S \in (SUBSET Account) \ {{}}, NEW accounts \in SetToSeqs(S), StartRemove(p, accounts)
      PROVE  TablesOK' /\ AllReady'
  <2> DEFINE r == [Idle EXCEPT !.pc = "drop", !.todo = accounts]
  <2>1. Shape(r) /\ r.pc = "drop" /\ r.source = "manual" /\ r.todo = accounts
    BY DEF Idle, Shape, Locals
  <2>2. Become(p, r) /\ Call /\ UNCHANGED tables /\ UNCHANGED held
    BY <1>2 DEF StartRemove, Starts
  <2> HIDE DEF r
  <2>3. AdminReady(r)
    BY <2>1, ChosenSeq DEF AdminReady, Todo
  <2> QED
    BY <1>a, <2>1, <2>2, <2>3, OneKind, NowReady, Counts, TablesStay
<1>3. ASSUME NEW a \in Account, NEW enabled \in BOOLEAN, update_member(p, a, enabled)
      PROVE  TablesOK' /\ AllReady'
  <2> DEFINE state == IF enabled THEN "enabled" ELSE "disabled"
             m == [member[a] EXCEPT !.state = state]
  <2>1. member[a] \in Member
    BY DEF TablesOK
  <2>2. m \in Member
    BY <2>1 DEF Member
  <2>3. member' = [member EXCEPT ![a] = m] /\ Call /\ UNCHANGED <<today, row, held, op>>
    BY <1>3 DEF update_member, Starts
  <2> HIDE DEF m
  <2> QED
    BY <2>2, <2>3, MemberOK, Counts, StillReady
<1>4. CASE ConfigRead(p)
  <2> DEFINE r == [Idle EXCEPT !.pc = "config", !.conf = get_config(config)]
  <2>1. Shape(r) /\ r.pc = "config" /\ r.source = "manual"
    BY DEF Idle, Shape, Locals
  <2>2. Become(p, r) /\ Call /\ UNCHANGED tables /\ UNCHANGED held
    BY <1>4 DEF ConfigRead, Starts
  <2> HIDE DEF r
  <2>3. AdminReady(r)
    BY <2>1 DEF AdminReady
  <2> QED
    BY <1>a, <2>1, <2>2, <2>3, OneKind, NowReady, Counts, TablesStay
<1>5. ASSUME NEW payload \in Payload, ConfigWrite(p, payload) PROVE TablesOK' /\ AllReady'
  <2>1. Become(p, Idle) /\ UNCHANGED <<today, row, member, held, calls>>
    BY <1>5 DEF ConfigWrite
  <2> QED
    BY <1>a, <2>1, NowIdle DEF TablesOK
<1> QED
  BY <1>1, <1>2, <1>3, <1>4, <1>5 DEF AdminStep

-----------------------------------------------------------------------------
LEMMA JoinReady ==
  ASSUME ShapeInv, AllReady, NEW p \in Worker, NEW r, Shape(r), NEW members, JoinPhase(p, r, members),
         r.source = "auto", DOMAIN r.conf = Fields, r.rows \in [Account -> Row \cup {None}]
  PROVE  AllReady'
<1> DEFINE joins == Joins(r.rows, r.conf, members, r.members)
           todo == Sorted(joins)
           next == [r EXCEPT !.pc = "add", !.todo = todo, !.members = None]
<1>a. p \in Proc
  BY DEF Proc
<1>1. joins \subseteq Account /\ \A a \in joins : r.rows[a] # None /\ r.rows[a].raw # None
  BY DEF Joins, matches_auto_join
<1>2. joins # {} => todo \in Seq(Account) /\ todo # <<>> /\ ToSet(todo) = joins
  BY <1>1, SortedSeq
<1>3. Become(p, Idle) \/ (joins # {} /\ Become(p, next))
  BY DEF JoinPhase
<1> HIDE DEF joins, todo
<1>4. /\ Shape(next) /\ next.pc = "add" /\ next.todo = todo /\ next.source = r.source
      /\ next.conf = r.conf /\ next.rows = r.rows
  BY DEF Shape, Locals
<1> HIDE DEF next
<1>5. joins # {} => WorkerReady(next)
  BY <1>1, <1>2, <1>4 DEF WorkerReady, Todo
<1> QED
  BY <1>a, <1>3, <1>4, <1>5, OneKind, NowReady, NowIdle

LEMMA WorkerTypes == \A p \in Worker : ShapeInv /\ TablesOK /\ AllReady /\ WorkerStep(p) => TablesOK' /\ AllReady'
<1> SUFFICES ASSUME NEW p \in Worker, ShapeInv, TablesOK, AllReady, WorkerStep(p) PROVE TablesOK' /\ AllReady'
  OBVIOUS
<1>a. p \in Proc /\ Shape(op[p]) /\ WorkerReady(op[p])
  BY DEF Proc, ShapeInv, AllReady, Ready
<1>1. CASE StartPolicy(p)
  <2> DEFINE conf == get_config(config)
             r == [Idle EXCEPT !.pc = "snapshot", !.conf = conf, !.source = "auto"]
  <2>1. DOMAIN conf = Fields
    BY ConfigFields
  <2> HIDE DEF conf
  <2>2. Shape(r) /\ r.pc = "snapshot" /\ r.source = "auto" /\ r.conf = conf
    BY DEF Idle, Shape, Locals
  <2>3. Become(p, r) /\ Call /\ UNCHANGED tables /\ UNCHANGED held
    BY <1>1 DEF StartPolicy, Starts, conf
  <2> HIDE DEF r
  <2>4. WorkerReady(r)
    BY <2>1, <2>2 DEF WorkerReady
  <2> QED
    BY <1>a, <2>2, <2>3, <2>4, OneKind, NowReady, Counts, TablesStay
<1>2. CASE PolicySnapshot(p)
  <2> DEFINE r == [op[p] EXCEPT !.rows = row, !.members = member]
             stale == IF r.conf.auto_pool_remove_on_cycle_refresh THEN Stale(row, member) ELSE {}
             drop == [r EXCEPT !.pc = "drop", !.todo = Sorted(stale)]
             refresh == [r EXCEPT !.pc = "refresh"]
  <2>1. /\ \/ stale # {} /\ Become(p, drop)
           \/ Become(p, refresh)
           \/ JoinPhase(p, r, member)
        /\ UNCHANGED tables /\ UNCHANGED held /\ UNCHANGED calls
    BY <1>2 DEF PolicySnapshot
  <2>2. /\ Shape(r) /\ r.source = op[p].source /\ r.conf = op[p].conf /\ r.rows = row
        /\ op[p].pc = "snapshot"
    BY <1>2, <1>a DEF Shape, Locals, PolicySnapshot
  <2>3. r.source = "auto" /\ DOMAIN r.conf = Fields /\ r.rows \in [Account -> Row \cup {None}]
    BY <1>a, <2>2 DEF WorkerReady, TablesOK
  <2>4. stale \subseteq Account
    BY DEF Stale
  <2> HIDE DEF r, stale
  <2>5. /\ Shape(drop) /\ drop.pc = "drop" /\ drop.source = r.source /\ drop.conf = r.conf
        /\ drop.rows = r.rows /\ drop.todo = Sorted(stale)
        /\ Shape(refresh) /\ refresh.pc = "refresh" /\ refresh.source = r.source
        /\ refresh.conf = r.conf /\ refresh.rows = r.rows
    BY <2>2 DEF Shape, Locals
  <2> HIDE DEF drop, refresh
  <2>6. stale # {} => Sorted(stale) \in Seq(Account) /\ Sorted(stale) # <<>>
    BY <2>4, SortedSeq
  <2>7. WorkerReady(refresh) /\ (stale # {} => WorkerReady(drop))
    BY <2>3, <2>5, <2>6 DEF WorkerReady, Todo
  <2>8. AllReady'
    BY <1>a, <2>1, <2>2, <2>3, <2>5, <2>7, OneKind, NowReady, JoinReady
  <2>9. calls' \in 0..MaxCalls
    BY <2>1 DEF TablesOK
  <2> QED
    BY <2>1, <2>8, <2>9, TablesStay
<1>3. CASE PolicyRefresh(p)
  <2>1. JoinPhase(p, op[p], member) /\ UNCHANGED tables /\ UNCHANGED held /\ UNCHANGED calls
        /\ op[p].pc = "refresh"
    BY <1>3 DEF PolicyRefresh
  <2>2. AllReady'
    BY <1>a, <2>1, JoinReady DEF WorkerReady
  <2>3. calls' \in 0..MaxCalls
    BY <2>1 DEF TablesOK
  <2> QED
    BY <2>1, <2>2, <2>3, TablesStay
<1>4. CASE StartReview(p)
  <2> DEFINE doubted == {a \in Account : /\ member[a].state = "enabled" /\ row[a] # None
                                         /\ member[a].fails >= ReviewAt}
             r == [Idle EXCEPT !.pc = "mark", !.todo = Sorted(doubted)]
  <2>1. doubted # {} /\ Become(p, r) /\ Call /\ UNCHANGED tables /\ UNCHANGED held
    BY <1>4 DEF StartReview, Starts
  <2>2. doubted \subseteq Account
    OBVIOUS
  <2> HIDE DEF doubted
  <2>3. Shape(r) /\ r.pc = "mark" /\ r.todo = Sorted(doubted)
    BY DEF Idle, Shape, Locals
  <2> HIDE DEF r
  <2>4. Sorted(doubted) \in Seq(Account) /\ Sorted(doubted) # <<>>
    BY <2>1, <2>2, SortedSeq
  <2>5. WorkerReady(r)
    BY <2>3, <2>4 DEF WorkerReady, Todo
  <2> QED
    BY <1>a, <2>1, <2>3, <2>5, OneKind, NowReady, Counts, TablesStay
<1>5. CASE _maybe_mark_bind_invalid(p)
  <2> DEFINE a == Head(op[p].todo)
             gone == [row[a] EXCEPT !.ok = FALSE]
  <2>1. /\ op[p].pc = "mark" /\ Following(p, "mark", "idle")
        /\ UNCHANGED <<today, member, held, calls>>
        /\ row' = row \/ (row[a] # None /\ row' = [row EXCEPT ![a] = gone])
    BY <1>5 DEF _maybe_mark_bind_invalid
  <2>2. Todo(op[p])
    BY <1>a, <2>1 DEF WorkerReady
  <2>3. a \in Account
    BY <2>2, TodoFacts DEF Todo
  <2> HIDE DEF a
  <2>4. row[a] # None => gone \in Row
    BY <2>3 DEF TablesOK, Row
  <2> HIDE DEF gone
  <2>5. row' \in [Account -> Row \cup {None}]
    BY <2>1, <2>3, <2>4 DEF TablesOK
  <2>6. ASSUME NEW todo \in Seq(Account), todo # <<>>
        PROVE  Ready(p, [op[p] EXCEPT !.pc = "mark", !.todo = todo])
    <3> DEFINE r == [op[p] EXCEPT !.pc = "mark", !.todo = todo]
    <3>1. r.pc = "mark" /\ r.todo = todo
      BY <1>a DEF Shape, Locals
    <3> HIDE DEF r
    <3>2. WorkerReady(r)
      BY <2>6, <3>1 DEF WorkerReady, Todo
    <3> QED
      BY <3>2, OneKind DEF r
  <2>7. AllReady'
    BY <1>a, <2>1, <2>2, <2>6, FollowingReady
  <2> QED
    BY <2>1, <2>5, <2>7 DEF TablesOK
<1> QED
  BY <1>1, <1>2, <1>3, <1>4, <1>5 DEF WorkerStep

-----------------------------------------------------------------------------
\* A call that goes on at label with fewer accounts left to do, from label or
\* from where it has yet to finish with the first of them.
LEMMA FewerLeft ==
  ASSUME NEW p \in Admin \cup Worker, Shape(op[p]), Ready(p, op[p]), NEW todo \in Seq(Account), todo # <<>>,
         ToSet(todo) \subseteq ToSet(op[p].todo),
         NEW label, \/ label = "add" /\ op[p].pc \in {"add", "addWrite"}
                    \/ label = "drop" /\ op[p].pc \in {"drop", "release"}
  PROVE  Ready(p, [op[p] EXCEPT !.pc = label, !.todo = todo])
<1> DEFINE r == [op[p] EXCEPT !.pc = label, !.todo = todo]
<1>1. /\ r.pc = label /\ r.todo = todo /\ r.source = op[p].source /\ r.conf = op[p].conf
      /\ r.rows = op[p].rows
  BY DEF Shape, Locals
<1> HIDE DEF r
<1>2. CASE p \in Admin
  <2>1. AdminReady(op[p])
    BY <1>2 DEF Ready
  <2>2. AdminReady(r)
    BY <1>1, <2>1 DEF AdminReady, Todo
  <2> QED
    BY <1>2, <2>2, OneKind DEF r
<1>3. CASE p \in Worker
  <2>1. WorkerReady(op[p])
    BY <1>3 DEF Ready
  <2>2. WorkerReady(r)
    BY <1>1, <2>1 DEF WorkerReady, Todo
  <2> QED
    BY <1>3, <2>2, OneKind DEF r
<1> QED
  BY <1>2, <1>3

LEMMA GoneOver ==
  ASSUME NEW p \in Worker, Shape(op[p]), Ready(p, op[p]), op[p].pc \in {"drop", "release"}
  PROVE  Ready(p, [op[p] EXCEPT !.pc = "refresh"])
<1> DEFINE r == [op[p] EXCEPT !.pc = "refresh"]
<1>1. /\ r.pc = "refresh" /\ r.source = op[p].source /\ r.conf = op[p].conf
      /\ r.rows = op[p].rows
  BY DEF Shape, Locals
<1> HIDE DEF r
<1>2. WorkerReady(r)
  BY <1>1 DEF Ready, WorkerReady
<1> QED
  BY <1>2, OneKind DEF r

LEMMA MemberTypes ==
  \A p \in Admin \cup Worker : ShapeInv /\ TablesOK /\ AllReady /\ MemberStep(p) => TablesOK' /\ AllReady'
<1> SUFFICES ASSUME NEW p \in Admin \cup Worker, ShapeInv, TablesOK, AllReady, MemberStep(p)
             PROVE  TablesOK' /\ AllReady'
  OBVIOUS
<1> DEFINE a == Head(op[p].todo)
<1>a. p \in Proc /\ Shape(op[p]) /\ Ready(p, op[p])
  BY DEF Proc, ShapeInv, AllReady
<1>b. op[p].pc \in {"add", "addWrite", "drop", "release"} =>
        Todo(op[p]) /\ a \in Account /\ a \in ToSet(op[p].todo)
  <2>1. op[p].pc \in {"add", "addWrite", "drop", "release"} => Todo(op[p])
    BY <1>a DEF Ready, AdminReady, WorkerReady
  <2> QED
    BY <2>1, TodoFacts DEF Todo
<1>c. op[p].source \in Source \/ op[p].pc \notin {"add", "addWrite", "drop", "release"}
  BY <1>a DEF Ready, AdminReady, WorkerReady, Source
<1>d. calls \in 0..MaxCalls
  BY DEF TablesOK
<1>e. ASSUME op[p].pc \in {"add", "addWrite"}, Following(p, "add", "idle") PROVE AllReady'
  BY <1>a, <1>b, <1>e, FewerLeft, FollowingReady
<1>f. ASSUME op[p].pc \in {"drop", "release"}, NEW after, Following(p, "drop", after),
             after = "idle" \/ (after = "refresh" /\ p \in Worker)
      PROVE  AllReady'
  BY <1>a, <1>b, <1>f, FewerLeft, GoneOver, FollowingReady
<1> HIDE DEF a
<1>1. CASE AddRead(p)
  <2> DEFINE snap == IF op[p].source = "manual" THEN None ELSE op[p].rows[a].raw.start
             r == [op[p] EXCEPT !.pc = "addWrite", !.snap = snap]
  <2>1. /\ op[p].pc = "add" /\ (Fails(p, "add", "idle") \/ Become(p, r))
        /\ UNCHANGED tables /\ UNCHANGED held /\ UNCHANGED calls
    BY <1>1 DEF AddRead, a
  <2>2. p \in Worker => snap \in Snap
    <3> SUFFICES ASSUME p \in Worker PROVE snap \in Snap
      OBVIOUS
    <3>1. /\ op[p].rows \in [Account -> Row \cup {None}] /\ op[p].rows[a] # None
          /\ op[p].rows[a].raw # None
      BY <1>a, <1>b, <2>1 DEF Ready, WorkerReady
    <3>2. op[p].rows[a].raw \in Raw
      BY <1>b, <2>1, <3>1 DEF Row
    <3> QED
      BY <3>2 DEF Snap, Raw
  <2>3. p \in Admin => snap = None
    BY <1>a DEF Ready, AdminReady
  <2> HIDE DEF snap
  <2>4. /\ Shape(r) /\ r.pc = "addWrite" /\ r.todo = op[p].todo /\ r.source = op[p].source
        /\ r.conf = op[p].conf /\ r.rows = op[p].rows /\ r.snap = snap
    BY <1>a DEF Shape, Locals
  <2> HIDE DEF r
  <2>5. Ready(p, r)
    <3>1. CASE p \in Admin
      <4>1. AdminReady(op[p])
        BY <1>a, <3>1 DEF Ready
      <4>2. AdminReady(r)
        BY <2>1, <2>3, <2>4, <3>1, <4>1 DEF AdminReady, Todo
      <4> QED
        BY <3>1, <4>2, OneKind
    <3>2. CASE p \in Worker
      <4>1. WorkerReady(op[p])
        BY <1>a, <3>2 DEF Ready
      <4>2. WorkerReady(r)
        BY <2>1, <2>2, <2>4, <3>2, <4>1 DEF WorkerReady, Todo
      <4> QED
        BY <3>2, <4>2, OneKind
    <3> QED
      BY <3>1, <3>2
  <2>6. AllReady'
    <3>1. CASE Become(p, r)
      BY <1>a, <2>4, <2>5, <3>1, NowReady
    <3>2. CASE Fails(p, "add", "idle")
      BY <1>a, <1>e, <2>1, <3>2, NowIdle DEF Fails
    <3> QED
      BY <2>1, <3>1, <3>2
  <2> QED
    BY <1>d, <2>1, <2>6, TablesStay
<1>2. CASE AddWrite(p)
  <2> DEFINE made == [NoMember EXCEPT !.state = "enabled", !.source = op[p].source, !.snap = op[p].snap]
             again == [made EXCEPT !.fails = member[a].fails, !.open = member[a].open]
  <2>1. /\ op[p].pc = "addWrite" /\ Following(p, "add", "idle")
        /\ UNCHANGED <<today, row, held, calls>>
        /\ member' = [member EXCEPT ![a] = again] \/ member' = [member EXCEPT ![a] = made]
    BY <1>2 DEF AddWrite, a
  <2>2. op[p].snap \in Snap /\ op[p].source \in Source
    BY <1>a, <1>c, <2>1 DEF Ready, AdminReady, WorkerReady, Snap
  <2>3. made \in Member
    BY <2>2 DEF NoMember, Member
  <2> HIDE DEF made
  <2>4. member[a] \in Member
    BY <1>b, <2>1 DEF TablesOK
  <2>5. again \in Member
    BY <2>3, <2>4 DEF Member
  <2> HIDE DEF again
  <2>6. TablesOK'
    BY <1>d, <2>1, <2>3, <2>5, MemberOK
  <2> QED
    BY <1>e, <2>1, <2>6
<1>3. CASE RemoveWrite(p)
  <2> DEFINE m == [member[a] EXCEPT !.state = "removed"]
             r == [op[p] EXCEPT !.pc = "release"]
  <2>1. /\ op[p].pc = "drop" /\ UNCHANGED <<today, row, held, calls>>
        /\ \/ member' = [member EXCEPT ![a] = m] /\ Become(p, r)
           \/ UNCHANGED member /\ Fails(p, "drop", "refresh")
    BY <1>3 DEF RemoveWrite, Goto, a
  <2>2. member[a] \in Member
    BY <1>b, <2>1 DEF TablesOK
  <2>3. m \in Member
    BY <2>2 DEF Member
  <2> HIDE DEF m
  <2>4. TablesOK'
    <3>1. CASE member' = [member EXCEPT ![a] = m]
      BY <1>d, <2>1, <2>3, <3>1, MemberOK
    <3>2. CASE UNCHANGED member
      BY <2>1, <3>2 DEF TablesOK
    <3> QED
      BY <2>1, <3>1, <3>2
  <2>5. /\ Shape(r) /\ r.pc = "release" /\ r.todo = op[p].todo /\ r.source = op[p].source
        /\ r.conf = op[p].conf /\ r.rows = op[p].rows
    BY <1>a DEF Shape, Locals
  <2> HIDE DEF r
  <2>6. Ready(p, r)
    <3>1. CASE p \in Admin
      <4>1. AdminReady(op[p])
        BY <1>a, <3>1 DEF Ready
      <4>2. AdminReady(r)
        BY <2>1, <2>5, <4>1 DEF AdminReady, Todo
      <4> QED
        BY <3>1, <4>2, OneKind
    <3>2. CASE p \in Worker
      <4>1. WorkerReady(op[p])
        BY <1>a, <3>2 DEF Ready
      <4>2. WorkerReady(r)
        BY <2>1, <2>5, <4>1 DEF WorkerReady, Todo
      <4> QED
        BY <3>2, <4>2, OneKind
    <3> QED
      BY <3>1, <3>2
  <2>7. AllReady'
    <3>1. CASE Become(p, r)
      BY <1>a, <2>5, <2>6, <3>1, NowReady
    <3>2. CASE Fails(p, "drop", "refresh")
      <4>1. Become(p, Idle) \/ (p \in Worker /\ Following(p, "drop", "refresh"))
        BY <3>2 DEF Fails
      <4> QED
        BY <1>a, <1>f, <2>1, <4>1, NowIdle
    <3> QED
      BY <2>1, <3>1, <3>2
  <2> QED
    BY <2>4, <2>7
<1>4. CASE release_by_account(p)
  <2> DEFINE after == IF p \in Admin THEN "idle" ELSE "refresh"
  <2>1. /\ op[p].pc = "release" /\ Following(p, "drop", after) /\ UNCHANGED <<tables, calls>>
        /\ held' = [u \in Renter |-> IF held[u] = a THEN None ELSE held[u]]
    BY <1>4 DEF release_by_account, a
  <2>2. after = "idle" \/ (after = "refresh" /\ p \in Worker)
    OBVIOUS
  <2> HIDE DEF after
  <2>3. AllReady'
    BY <1>f, <2>1, <2>2
  <2>4. held' \in [Renter -> Account \cup {None}]
    BY <2>1 DEF TablesOK
  <2> QED
    BY <2>1, <2>3, <2>4 DEF TablesOK, tables
<1> QED
  BY <1>1, <1>2, <1>3, <1>4 DEF MemberStep

-----------------------------------------------------------------------------
LEMMA ExcludedReady ==
  ASSUME NEW u \in Renter, Shape(op[u]), RenterReady(op[u]), op[u].pc \in {"try", "fail", "failWrite"}
  PROVE  Shape(Excluded(op[u])) /\ RenterReady(Excluded(op[u]))
<1> DEFINE r == Excluded(op[u])
<1>1. /\ r.pc = "select" /\ r.tried = op[u].tried \cup {op[u].prefer}
      /\ r.left = op[u].left /\ r.conf = op[u].conf
  BY DEF Excluded, Shape, Locals
<1>2. IsFiniteSet(op[u].tried) /\ op[u].prefer \notin op[u].tried
      /\ op[u].left = Attempts - Cardinality(op[u].tried) - 1 /\ DOMAIN op[u].conf = Fields
  BY DEF RenterReady
<1> HIDE DEF r
<1>3. IsFiniteSet(r.tried) /\ Cardinality(r.tried) = Cardinality(op[u].tried) + 1
  <2> DEFINE S == op[u].tried
             x == op[u].prefer
  <2>1. IsFiniteSet(S) /\ x \notin S
    BY <1>2
  <2> HIDE DEF S, x
  <2>2. IsFiniteSet(S \cup {x}) /\ Cardinality(S \cup {x}) = Cardinality(S) + 1
    BY <2>1, FS_AddElement
  <2> QED
    BY <1>1, <2>2 DEF S, x
<1>4. Cardinality(op[u].tried) \in Nat
  BY <1>2, FS_CardinalityType
<1>5. RenterReady(r)
  BY <1>1, <1>2, <1>3, <1>4, PoolAssumption DEF RenterReady
<1> QED
  BY <1>5, ExcludedShape DEF r

LEMMA RenterTypes == \A u \in Renter : ShapeInv /\ TablesOK /\ AllReady /\ RenterStep(u) => TablesOK' /\ AllReady'
<1> SUFFICES ASSUME NEW u \in Renter, ShapeInv, TablesOK, AllReady, RenterStep(u) PROVE TablesOK' /\ AllReady'
  OBVIOUS
<1>a. u \in Proc /\ Shape(op[u]) /\ RenterReady(op[u])
  BY DEF Proc, ShapeInv, AllReady, Ready
<1>d. calls \in 0..MaxCalls
  BY DEF TablesOK
<1>e. ASSUME Become(u, Excluded(op[u])), op[u].pc \in {"try", "fail", "failWrite"} PROVE AllReady'
  BY <1>a, <1>e, ExcludedReady, OneKind, NowReady
<1>1. CASE StartAcquire(u)
  <2> DEFINE conf == get_config(config)
             r == [Idle EXCEPT !.pc = "select", !.conf = conf, !.left = Attempts,
                              !.current = held[u], !.prefer = held[u]]
  <2>1. DOMAIN conf = Fields
    BY ConfigFields
  <2> HIDE DEF conf
  <2>2. Shape(r) /\ r.pc = "select" /\ r.conf = conf /\ r.left = Attempts /\ r.tried = {}
    BY DEF Idle, Shape, Locals
  <2>3. Become(u, r) /\ Call /\ UNCHANGED tables /\ UNCHANGED held
    BY <1>1 DEF StartAcquire, Starts, conf
  <2> HIDE DEF r
  <2>4. IsFiniteSet(r.tried) /\ Cardinality(r.tried) = 0
    BY <2>2, FS_EmptySet
  <2>5. RenterReady(r)
    BY <2>1, <2>2, <2>4, PoolAssumption DEF RenterReady
  <2> QED
    BY <1>a, <2>2, <2>3, <2>5, OneKind, NowReady, Counts, TablesStay
<1>2. CASE select_account(u)
  <2> DEFINE candidates == Candidates(u, op[u].tried)
             picked == IF op[u].prefer \in candidates THEN op[u].prefer
                       ELSE _pick_candidate(u, candidates, op[u].conf.scheduler_strategy)
             r == [op[u] EXCEPT !.pc = "try", !.left = @ - 1, !.prefer = picked]
  <2>1. /\ op[u].pc = "select" /\ (Become(u, Idle) \/ (candidates # {} /\ Become(u, r)))
        /\ UNCHANGED tables /\ UNCHANGED held /\ UNCHANGED calls
    BY <1>2 DEF select_account
  <2>2. candidates \subseteq Account /\ \A a \in candidates : row[a] # None /\ a \notin op[u].tried
    BY DEF Candidates
  <2> HIDE DEF candidates
  <2>3. candidates # {} => _pick_candidate(u, candidates, op[u].conf.scheduler_strategy) \in candidates
    BY <2>2, PickFacts DEF TablesOK
  <2>4. candidates # {} => picked \in candidates
    BY <2>3
  <2> HIDE DEF picked
  <2>5. /\ Shape(r) /\ r.pc = "try" /\ r.left = op[u].left - 1 /\ r.prefer = picked
        /\ r.tried = op[u].tried /\ r.conf = op[u].conf
    BY <1>a DEF Shape, Locals
  <2> HIDE DEF r
  <2>6. candidates # {} => RenterReady(r)
    BY <1>a, <2>1, <2>2, <2>4, <2>5 DEF RenterReady
  <2>7. AllReady'
    BY <1>a, <2>1, <2>5, <2>6, OneKind, NowReady, NowIdle
  <2> QED
    BY <1>d, <2>1, <2>7, TablesStay
<1>3. CASE Try(u)
  <2> DEFINE fail == [op[u] EXCEPT !.pc = "fail"]
             succeed == [op[u] EXCEPT !.pc = "succeed"]
  <2>1. /\ op[u].pc = "try" /\ UNCHANGED tables /\ UNCHANGED calls
        /\ \/ Become(u, Idle) /\ UNCHANGED held
           \/ Become(u, Excluded(op[u])) /\ UNCHANGED held
           \/ Become(u, fail) /\ UNCHANGED held
           \/ Become(u, succeed) /\ held' = [held EXCEPT ![u] = op[u].prefer]
    BY <1>3 DEF Try, Goto
  <2>2. /\ Shape(fail) /\ fail.pc = "fail" /\ fail.conf = op[u].conf /\ fail.left = op[u].left
        /\ fail.prefer = op[u].prefer /\ fail.tried = op[u].tried
        /\ Shape(succeed) /\ succeed.pc = "succeed" /\ succeed.prefer = op[u].prefer
        /\ succeed.tried = op[u].tried
    BY <1>a DEF Shape, Locals
  <2> HIDE DEF fail, succeed
  <2>3. RenterReady(fail) /\ RenterReady(succeed)
    BY <1>a, <2>1, <2>2 DEF RenterReady
  <2>4. AllReady'
    BY <1>a, <1>e, <2>1, <2>2, <2>3, OneKind, NowReady, NowIdle
  <2>5. op[u].prefer \in Account
    BY <1>a, <2>1 DEF RenterReady
  <2>6. held' \in [Renter -> Account \cup {None}]
    BY <2>1, <2>5 DEF TablesOK
  <2> QED
    BY <2>1, <2>4, <2>6 DEF TablesOK, tables
<1>4. CASE FailRead(u)
  <2> DEFINE base == member[op[u].prefer].fails
             r == [op[u] EXCEPT !.pc = "failWrite", !.base = base]
  <2>1. /\ op[u].pc = "fail" /\ (Become(u, r) \/ Become(u, Excluded(op[u])))
        /\ UNCHANGED tables /\ UNCHANGED held /\ UNCHANGED calls
    BY <1>4 DEF FailRead
  <2>2. op[u].prefer \in Account
    BY <1>a, <2>1 DEF RenterReady
  <2>3. base \in Nat
    BY <2>2 DEF TablesOK, Member
  <2> HIDE DEF base
  <2>4. /\ Shape(r) /\ r.pc = "failWrite" /\ r.conf = op[u].conf /\ r.left = op[u].left
        /\ r.prefer = op[u].prefer /\ r.tried = op[u].tried /\ r.base = base
    BY <1>a DEF Shape, Locals
  <2> HIDE DEF r
  <2>5. RenterReady(r)
    BY <1>a, <2>1, <2>3, <2>4 DEF RenterReady
  <2>6. AllReady'
    BY <1>a, <1>e, <2>1, <2>4, <2>5, OneKind, NowReady
  <2> QED
    BY <1>d, <2>1, <2>6, TablesStay
<1>5. CASE FailWrite(u)
  <2> DEFINE a == op[u].prefer
             trips == member[a].open \/ op[u].base + 1 >= op[u].conf.circuit_fail_threshold
             count == op[u].base + 1
             m == [member[a] EXCEPT !.fails = count, !.open = trips]
  <2>1. /\ op[u].pc = "failWrite" /\ Become(u, Excluded(op[u]))
        /\ UNCHANGED <<today, row, held, calls>>
    BY <1>5 DEF FailWrite
  <2>2. a \in Account /\ op[u].base \in Nat
    BY <1>a, <2>1 DEF RenterReady
  <2>3. member[a] \in Member
    BY <2>2 DEF TablesOK
  <2>4. member' = [member EXCEPT ![a].fails = op[u].base + 1, ![a].open = trips]
    BY <1>5 DEF FailWrite
  <2>5. member' = [member EXCEPT ![a] = m]
    <3> HIDE DEF a, trips
    <3>1. DOMAIN member = Account
      BY DEF TablesOK
    <3> QED
      BY <2>2, <2>4, <3>1
  <2>6. trips \in BOOLEAN
    <3>1. member[a].open \in BOOLEAN
      BY <2>3 DEF Member
    <3> HIDE DEF a
    <3> QED
      BY <3>1
  <2>7. m \in Member
    <3>1. count \in Nat
      BY <2>2
    <3> HIDE DEF a, trips, count
    <3> QED
      BY <2>3, <2>6, <3>1 DEF Member
  <2> HIDE DEF m
  <2>8. TablesOK'
    BY <1>d, <2>1, <2>5, <2>7, MemberOK
  <2> QED
    BY <1>e, <2>1, <2>8
<1>6. CASE record_account_success(u)
  <2> DEFINE a == op[u].prefer
             m == [member[a] EXCEPT !.fails = 0, !.open = FALSE]
  <2>1. /\ op[u].pc = "succeed" /\ Become(u, Idle) /\ UNCHANGED <<today, row, held, calls>>
        /\ UNCHANGED member \/ member' = [member EXCEPT ![a] = m]
    BY <1>6, <1>a DEF record_account_success, TablesOK
  <2>2. a \in Account
    BY <1>a, <2>1 DEF RenterReady
  <2>3. member[a] \in Member
    BY <2>2 DEF TablesOK
  <2>4. m \in Member
    BY <2>3 DEF Member
  <2> HIDE DEF m
  <2>5. TablesOK'
    <3>1. CASE UNCHANGED member
      BY <2>1, <3>1 DEF TablesOK
    <3>2. CASE member' = [member EXCEPT ![a] = m]
      BY <1>d, <2>1, <2>4, <3>2, MemberOK
    <3> QED
      BY <2>1, <3>1, <3>2
  <2> QED
    BY <1>a, <2>1, <2>5, NowIdle
<1>7. CASE Return(u)
  <2>1. Call /\ UNCHANGED tables /\ UNCHANGED op /\ held' = [held EXCEPT ![u] = None]
    BY <1>7 DEF Return, Starts
  <2>2. calls' \in 0..MaxCalls
    BY <2>1, Counts
  <2>3. held' \in [Renter -> Account \cup {None}]
    BY <2>1 DEF TablesOK
  <2> QED
    BY <2>1, <2>2, <2>3, StillReady DEF TablesOK, tables
<1> QED
  BY <1>1, <1>2, <1>3, <1>4, <1>5, <1>6, <1>7 DEF RenterStep

-----------------------------------------------------------------------------
LEMMA WorldTypes == ShapeInv /\ TablesOK /\ AllReady /\ World => TablesOK' /\ AllReady'
<1> SUFFICES ASSUME ShapeInv, TablesOK, AllReady, World PROVE TablesOK' /\ AllReady'
  OBVIOUS
<1>0. UNCHANGED op /\ UNCHANGED held
  BY DEF World, NextDay, CloseCircuit, Sync, BindStatus, Unbind
<1>a. AllReady'
  BY <1>0, StillReady
<1>1. CASE NextDay
  BY <1>1, <1>a, PoolAssumption DEF NextDay, TablesOK
<1>2. ASSUME NEW a \in Account, CloseCircuit(a) PROVE TablesOK'
  <2> DEFINE m == [member[a] EXCEPT !.open = FALSE]
  <2>1. member' = [member EXCEPT ![a] = m] /\ Call /\ UNCHANGED <<today, row, held>>
    BY <1>2 DEF CloseCircuit
  <2>2. member[a] \in Member
    BY DEF TablesOK
  <2>3. m \in Member
    BY <2>2 DEF Member
  <2> HIDE DEF m
  <2> QED
    BY <2>1, <2>3, MemberOK, Counts
<1>3. ASSUME NEW a \in Account, NEW r \in Row \cup {None}, row' = [row EXCEPT ![a] = r], Call,
             UNCHANGED <<today, member, held>>
      PROVE  TablesOK'
  BY <1>3, Counts DEF TablesOK
<1>4. ASSUME NEW a \in Account, Sync(a) PROVE TablesOK'
  <2>1. PICK raw \in Raw : row' = [row EXCEPT ![a].raw = raw]
    BY <1>4 DEF Sync
  <2>2. row[a] # None /\ Call /\ UNCHANGED <<today, member, held>>
    BY <1>4 DEF Sync
  <2>3. row[a] \in Row
    BY <2>2 DEF TablesOK
  <2> DEFINE r == [row[a] EXCEPT !.raw = raw]
  <2>4. r \in Row
    BY <2>3 DEF Row
  <2>5. row' = [row EXCEPT ![a] = r]
    BY <2>1
  <2> HIDE DEF r
  <2> QED
    BY <1>3, <2>2, <2>4, <2>5
<1>5. ASSUME NEW a \in Account, BindStatus(a) PROVE TablesOK'
  <2> DEFINE r == [row[a] EXCEPT !.ok = ~@]
  <2>1. row[a] # None /\ Call /\ UNCHANGED <<today, member, held>> /\ row' = [row EXCEPT ![a] = r]
    BY <1>5 DEF BindStatus
  <2>2. row[a] \in Row
    BY <2>1 DEF TablesOK
  <2>3. r \in Row
    BY <2>2 DEF Row
  <2> HIDE DEF r
  <2> QED
    BY <1>3, <2>1, <2>3
<1>6. ASSUME NEW a \in Account, Unbind(a) PROVE TablesOK'
  BY <1>3, <1>6 DEF Unbind
<1> QED
  BY <1>1, <1>2, <1>4, <1>5, <1>6, <1>a DEF World

LEMMA TypeStep == TypeInv /\ [Next]_vars => TypeInv'
<1> SUFFICES ASSUME TypeInv, [Next]_vars PROVE TypeInv'
  OBVIOUS
<1>1. CircuitInv /\ ShapeInv /\ TablesOK /\ WatchOK /\ AllReady
  BY DEF TypeInv, CircuitInv
<1>2. CircuitInv'
  BY <1>1, CircuitStep
<1>3. CASE UNCHANGED vars
  <2>1. TablesOK' /\ WatchOK'
    BY <1>1, <1>3 DEF vars, tables, ghosts, TablesOK, WatchOK
  <2>2. AllReady'
    BY <1>1, <1>3, StillReady DEF vars
  <2> QED
    BY <1>2, <2>1, <2>2 DEF TypeInv
<1>4. CASE Next
  <2>1. WatchOK'
    BY <1>1, <1>4, Watching DEF Next
  <2>2. TablesOK' /\ AllReady'
    BY <1>1, <1>4, WorldTypes, AdminTypes, WorkerTypes, MemberTypes, RenterTypes DEF Next
  <2> QED
    BY <1>2, <2>1, <2>2 DEF TypeInv
<1> QED
  BY <1>3, <1>4

\* Whatever the administrators, the policy and the renters do, and in whatever
\* order: every variable holds what its comment says, and a call has what it
\* goes on from at the label it is at.
THEOREM PoolTypeCorrect == Spec => []TypeOK
<1>1. Spec => []TypeInv
  BY TypeInit, TypeStep, PTL DEF Spec
<1> QED
  BY <1>1, TypeImplies, PTL

-----------------------------------------------------------------------------
\* Nobody takes a step for another.
LEMMA OwnSteps ==
  ASSUME ShapeInv, NEW p \in Proc, op'[p] # op[p], [Next]_vars
  PROVE  \/ p \in Admin /\ AdminStep(p)
         \/ p \in Worker /\ WorkerStep(p)
         \/ p \in Admin \cup Worker /\ MemberStep(p)
         \/ p \in Renter /\ RenterStep(p)
<1>1. ASSUME NEW q, NEW r, Become(q, r), q # p PROVE FALSE
  BY <1>1 DEF Become, ShapeInv
<1>2. \A q, l : Goto(q, l) => q = p
  BY <1>1 DEF Goto
<1>3. \A q, l, k : Following(q, l, k) => q = p
  BY <1>1, <1>2 DEF Following
<1>4. \A q, l, k : Fails(q, l, k) => q = p
  BY <1>1, <1>3 DEF Fails
<1>5. \A q, r, members : JoinPhase(q, r, members) => q = p
  BY <1>1 DEF JoinPhase
<1>6. ~UNCHANGED op
  OBVIOUS
<1>7. \A q : AdminStep(q) => q = p
  <2> SUFFICES ASSUME NEW q, AdminStep(q), q # p PROVE FALSE
    OBVIOUS
  <2>1. \A accounts : ~StartAdd(q, accounts) /\ ~StartRemove(q, accounts)
    BY <1>1 DEF StartAdd, StartRemove
  <2>2. \A a, enabled : ~update_member(q, a, enabled)
    BY <1>6 DEF update_member
  <2>3. ~ConfigRead(q) /\ \A payload : ~ConfigWrite(q, payload)
    BY <1>1 DEF ConfigRead, ConfigWrite
  <2> QED
    BY <2>1, <2>2, <2>3 DEF AdminStep
<1>8. \A q : WorkerStep(q) => q = p
  <2> SUFFICES ASSUME NEW q, WorkerStep(q), q # p PROVE FALSE
    OBVIOUS
  <2>1. ~StartPolicy(q) /\ ~StartReview(q)
    BY <1>1 DEF StartPolicy, StartReview
  <2>2. ~PolicySnapshot(q) /\ ~PolicyRefresh(q)
    BY <1>1, <1>5 DEF PolicySnapshot, PolicyRefresh
  <2>3. ~_maybe_mark_bind_invalid(q)
    BY <1>3 DEF _maybe_mark_bind_invalid
  <2> QED
    BY <2>1, <2>2, <2>3 DEF WorkerStep
<1>9. \A q : MemberStep(q) => q = p
  <2> SUFFICES ASSUME NEW q, MemberStep(q), q # p PROVE FALSE
    OBVIOUS
  <2>1. ~AddRead(q) /\ ~AddWrite(q)
    BY <1>1, <1>3, <1>4 DEF AddRead, AddWrite
  <2>2. ~RemoveWrite(q) /\ ~release_by_account(q)
    BY <1>2, <1>3, <1>4 DEF RemoveWrite, release_by_account
  <2> QED
    BY <2>1, <2>2 DEF MemberStep
<1>10. \A q : RenterStep(q) => q = p
  <2> SUFFICES ASSUME NEW q, RenterStep(q), q # p PROVE FALSE
    OBVIOUS
  <2>1. ~StartAcquire(q) /\ ~select_account(q)
    BY <1>1 DEF StartAcquire, select_account
  <2>2. ~Try(q) /\ ~FailRead(q)
    BY <1>1, <1>2 DEF Try, FailRead
  <2>3. ~FailWrite(q) /\ ~record_account_success(q)
    BY <1>1 DEF FailWrite, record_account_success
  <2>4. ~Return(q)
    BY <1>6 DEF Return
  <2> QED
    BY <2>1, <2>2, <2>3, <2>4 DEF RenterStep
<1>11. ~World
  BY <1>6 DEF World, NextDay, CloseCircuit, Sync, BindStatus, Unbind
<1> QED
  BY <1>6, <1>7, <1>8, <1>9, <1>10, <1>11 DEF Next, vars

LEMMA TriesOthers ==
  ASSUME TypeInv, [Next]_vars, NEW u \in Renter, op[u].pc = "select", op'[u].pc = "idle"
  PROVE  Cardinality(op[u].tried) = Attempts \/ Candidates(u, op[u].tried) = {}
<1>1. ShapeInv /\ u \in Proc /\ RenterReady(op[u]) /\ op'[u] # op[u]
  BY DEF TypeInv, CircuitInv, AllReady, Ready, Proc
<1>2. RenterStep(u)
  BY <1>1, OwnSteps, PoolAssumption
<1>3. select_account(u)
  BY <1>2 DEF RenterStep, StartAcquire, Try, FailRead, FailWrite, record_account_success, Return, Starts
<1> DEFINE candidates == Candidates(u, op[u].tried)
           picked == IF op[u].prefer \in candidates THEN op[u].prefer
                     ELSE _pick_candidate(u, candidates, op[u].conf.scheduler_strategy)
           r == [op[u] EXCEPT !.pc = "try", !.left = @ - 1, !.prefer = picked]
<1>4. candidates = {} \/ op[u].left = 0 \/ Become(u, r)
  BY <1>3 DEF select_account
<1> HIDE DEF candidates, picked
<1>5. Shape(r) /\ r.pc = "try"
  BY <1>1 DEF ShapeInv, Shape, Locals
<1> HIDE DEF r
<1>6. ~Become(u, r)
  BY <1>1, <1>5, CalmShape
<1>7. Cardinality(op[u].tried) \in Nat /\ op[u].left = Attempts - Cardinality(op[u].tried)
  BY <1>1, FS_CardinalityType DEF RenterReady
<1> QED
  BY <1>4, <1>6, <1>7, PoolAssumption DEF candidates

\* An acquire that gives up has tried as many different accounts as it has
\* attempts, or every account it could select.
THEOREM AcquiresTryOthers == Spec => AcquireTriesOthers
<1>1. Spec => []TypeInv
  BY TypeInit, TypeStep, PTL DEF Spec
<1>2. TypeInv /\ [Next]_vars =>
        [\A u \in Renter : op[u].pc = "select" /\ op'[u].pc = "idle" =>
           \/ Cardinality(op[u].tried) = Attempts
           \/ Candidates(u, op[u].tried) = {}]_vars
  BY TriesOthers
<1> QED
  BY <1>1, <1>2, PTL DEF Spec, AcquireTriesOthers

-----------------------------------------------------------------------------
\* What a policy run would do with the pool as it is: nobody is to be removed,
\* and nobody to join.
Removes == get_config(config).auto_pool_remove_on_cycle_refresh
ToRemove == Stale(row, member)
ToJoin == Joins(row, get_config(config), member, member)
Tidy == Removes => ToRemove = {}
Quiet == Tidy /\ ToJoin = {}

\* The account is a member as the policy makes one of it.
Joined(a) ==
    /\ member[a].state = "enabled" /\ member[a].source = "auto"
    /\ member[a].snap = row[a].raw.start

\* A policy run that nobody interfered with: its copies are the rows, and what
\* it has yet to do is all there is to do.
Watched(p) ==
    LET r == op[p]
    IN  /\ r.pc \in {"snapshot", "drop", "release", "refresh", "add", "addWrite"}
        /\ r.conf = get_config(config)
        /\ r.pc # "snapshot" => r.rows = row
        /\ r.pc \in {"drop", "release"} =>
             /\ Removes
             /\ ToRemove \subseteq ToSet(r.todo)
             /\ \A a \in ToSet(r.todo) : Listed(member[a]) => a \in ToRemove
        /\ r.pc = "release" => ~Listed(member[Head(r.todo)])
        /\ r.pc \in {"refresh", "add", "addWrite"} => Tidy
        /\ r.pc \in {"add", "addWrite"} =>
             /\ ToJoin \subseteq ToSet(r.todo)
             /\ \A a \in ToSet(r.todo) :
                  /\ row[a] # None /\ matches_auto_join(row[a], r.conf)
                  /\ member[a].state = "enabled" => Joined(a)
        /\ r.pc = "addWrite" => r.snap = row[Head(r.todo)].raw.start

WatchInv ==
    /\ \A p \in Worker : alone[p] /\ op[p].pc # "idle" => Watched(p)
    /\ settled => Quiet

\* Nothing changes that the policy goes by.
Same ==
    /\ today' = today /\ row' = row /\ config' = config
    /\ \A a \in Account : /\ member'[a].state = member[a].state
                          /\ member'[a].source = member[a].source
                          /\ member'[a].snap = member[a].snap

LEMMA SameDecides == Decides' = Decides => Same
<1> SUFFICES ASSUME Decides' = Decides PROVE Same
  OBVIOUS
<1> DEFINE seen(m) == [a \in Account |-> <<m[a].state, m[a].source, m[a].snap>>]
<1>1. today' = today /\ row' = row /\ config' = config /\ seen(member') = seen(member)
  BY DEF Decides
<1>2. \A a \in Account : seen(member')[a] = seen(member)[a]
  BY <1>1
<1> QED
  BY <1>1, <1>2 DEF Same

LEMMA SameTables == UNCHANGED <<today, row, config, member>> => Same
  BY DEF Same

LEMMA SameSets ==
  ASSUME Same
  PROVE  /\ ToRemove' = ToRemove /\ ToJoin' = ToJoin /\ Removes' = Removes
         /\ Tidy' = Tidy /\ Quiet' = Quiet
         /\ \A a \in Account : Listed(member[a])' = Listed(member[a]) /\ Joined(a)' = Joined(a)
         /\ \A r, conf : matches_auto_join(r, conf)' = matches_auto_join(r, conf)
<1>1. \A r, conf : matches_auto_join(r, conf)' = matches_auto_join(r, conf)
  BY DEF Same, matches_auto_join, remaining_days
<1>2. \A a \in Account : Listed(member[a])' = Listed(member[a]) /\ Joined(a)' = Joined(a)
  BY DEF Same, Listed, Joined
<1>3. ToRemove' = ToRemove
  BY <1>2 DEF Same, ToRemove, Stale
<1>4. ToJoin' = ToJoin
  BY <1>1 DEF Same, ToJoin, Joins
<1>5. Removes' = Removes
  BY DEF Same, Removes
<1>6. Tidy' = Tidy
  BY <1>3, <1>5 DEF Tidy
<1>7. Quiet' = Quiet
  BY <1>4, <1>6 DEF Quiet
<1> QED
  BY <1>1, <1>2, <1>3, <1>4, <1>5, <1>6, <1>7

LEMMA SameWatched ==
  ASSUME Same, NEW p \in Worker, WorkerReady(op[p]), op'[p] = op[p], Watched(p)
  PROVE  Watched(p)'
<1>1. /\ ToRemove' = ToRemove /\ ToJoin' = ToJoin /\ Removes' = Removes /\ Tidy' = Tidy
      /\ \A a \in Account : Listed(member[a])' = Listed(member[a]) /\ Joined(a)' = Joined(a)
      /\ \A r, conf : matches_auto_join(r, conf)' = matches_auto_join(r, conf)
  BY SameSets
<1>2. row' = row /\ config' = config /\ \A a \in Account : member'[a].state = member[a].state
  BY DEF Same
<1>3. op[p].pc \in {"drop", "release", "add", "addWrite"} =>
        ToSet(op[p].todo) \subseteq Account /\ Head(op[p].todo) \in Account
  BY TodoFacts DEF WorkerReady, Todo
<1> QED
  BY <1>1, <1>2, <1>3 DEF Watched

-----------------------------------------------------------------------------
\* A policy run goes on as it should, or ends and leaves nothing to do.
GoesOn(p) == IF op'[p].pc = "idle" THEN Quiet' ELSE Watched(p)'

LEMMA JoinGoesOn ==
  ASSUME ShapeInv, NEW p \in Worker, NEW r, Shape(r), r.conf = get_config(config), r.rows = row, Tidy,
         UNCHANGED <<today, row, config, member>>, JoinPhase(p, r, member)
  PROVE  GoesOn(p)
<1> DEFINE todo == Sorted(ToJoin)
           next == [r EXCEPT !.pc = "add", !.todo = todo, !.members = None]
<1>a. p \in Proc
  BY DEF Proc
<1>1. Joins(r.rows, r.conf, member, r.members) = ToJoin
  BY DEF ToJoin, Joins
<1>2. (ToJoin = {} /\ Become(p, Idle)) \/ (ToJoin # {} /\ Become(p, next))
  BY <1>1 DEF JoinPhase
<1>3. /\ ToJoin \subseteq Account
      /\ \A a \in ToJoin : row[a] # None /\ matches_auto_join(row[a], r.conf) /\ member[a].state # "enabled"
  BY DEF ToJoin, Joins
<1>4. ToJoin # {} => ToSet(todo) = ToJoin
  BY <1>3, SortedSeq
<1>s. /\ ToJoin' = ToJoin /\ Tidy' = Tidy
      /\ \A conf, b : matches_auto_join(b, conf)' = matches_auto_join(b, conf)
  BY SameTables, SameSets
<1>5. CASE ToJoin = {} /\ Become(p, Idle)
  <2>1. op'[p].pc = "idle"
    BY <1>a, <1>5, CalmShape, IdleShape
  <2> QED
    BY <1>5, <1>s, <2>1 DEF GoesOn, Quiet
<1>6. CASE ToJoin # {} /\ Become(p, next)
  <2> HIDE DEF todo
  <2>1. /\ Shape(next) /\ next.pc = "add" /\ next.todo = todo /\ next.conf = r.conf
        /\ next.rows = r.rows
    BY DEF Shape, Locals
  <2> HIDE DEF next
  <2>2. op'[p] = next
    BY <1>a, <1>6, <2>1, CalmShape
  <2>3. Watched(p)'
    BY <1>3, <1>4, <1>6, <1>s, <2>1, <2>2 DEF Watched
  <2> QED
    BY <2>1, <2>2, <2>3 DEF GoesOn
<1> QED
  BY <1>2, <1>5, <1>6

LEMMA PolicyGoesOn ==
  ASSUME ShapeInv, NEW p \in Worker, WorkerReady(op[p]), Watched(p), WorkerStep(p)
  PROVE  GoesOn(p)
<1>a. p \in Proc /\ Shape(op[p])
  BY DEF Proc, ShapeInv
<1>b. op[p].conf = get_config(config)
  BY DEF Watched
<1>1. CASE PolicySnapshot(p)
  <2> DEFINE r == [op[p] EXCEPT !.rows = row, !.members = member]
             stale == IF r.conf.auto_pool_remove_on_cycle_refresh THEN Stale(row, member) ELSE {}
             drop == [r EXCEPT !.pc = "drop", !.todo = Sorted(stale)]
             refresh == [r EXCEPT !.pc = "refresh"]
  <2>1. /\ \/ stale # {} /\ Become(p, drop)
           \/ stale = {} /\ r.conf.auto_pool_remove_on_cycle_refresh /\ Become(p, refresh)
           \/ stale = {} /\ JoinPhase(p, r, member)
        /\ UNCHANGED <<today, row, config, member>>
    BY <1>1 DEF PolicySnapshot, tables
  <2>2. Shape(r) /\ r.conf = op[p].conf /\ r.rows = row
    BY <1>a DEF Shape, Locals
  <2>3. stale = IF Removes THEN ToRemove ELSE {}
    BY <1>b, <2>2 DEF Removes, ToRemove
  <2>4. stale = {} => Tidy
    BY <2>3 DEF Tidy
  <2>5. ToRemove \subseteq Account /\ \A a \in ToRemove : Listed(member[a])
    BY DEF ToRemove, Stale
  <2> HIDE DEF r, stale
  <2>6. /\ Shape(drop) /\ drop.pc = "drop" /\ drop.conf = r.conf
        /\ drop.rows = r.rows /\ drop.todo = Sorted(stale)
        /\ Shape(refresh) /\ refresh.pc = "refresh"
        /\ refresh.conf = r.conf /\ refresh.rows = r.rows
    BY <2>2 DEF Shape, Locals
  <2> HIDE DEF drop, refresh
  <2>7. stale # {} => Removes /\ stale = ToRemove /\ ToSet(Sorted(stale)) = ToRemove
    BY <2>3, <2>5, SortedSeq
  <2>s. /\ ToRemove' = ToRemove /\ Tidy' = Tidy /\ Removes' = Removes
    BY <2>1, SameTables, SameSets
  <2>8. CASE stale # {} /\ Become(p, drop)
    <3>1. op'[p] = drop
      BY <1>a, <2>6, <2>8, CalmShape
    <3>2. Watched(p)'
      BY <1>b, <2>1, <2>2, <2>6, <2>7, <2>8, <2>s, <3>1 DEF Watched
    <3> QED
      BY <2>6, <3>1, <3>2 DEF GoesOn
  <2>9. CASE stale = {} /\ Become(p, refresh)
    <3>1. op'[p] = refresh
      BY <1>a, <2>6, <2>9, CalmShape
    <3>2. Watched(p)'
      BY <1>b, <2>1, <2>2, <2>4, <2>6, <2>9, <2>s, <3>1 DEF Watched
    <3> QED
      BY <2>6, <3>1, <3>2 DEF GoesOn
  <2>10. CASE stale = {} /\ JoinPhase(p, r, member)
    BY <1>b, <2>1, <2>2, <2>4, <2>10, JoinGoesOn
  <2> QED
    BY <2>1, <2>8, <2>9, <2>10
<1>2. CASE PolicyRefresh(p)
  <2>1. /\ op[p].pc = "refresh" /\ JoinPhase(p, op[p], member)
        /\ UNCHANGED <<today, row, config, member>>
    BY <1>2 DEF PolicyRefresh, tables
  <2>2. Tidy /\ op[p].rows = row
    BY <2>1 DEF Watched
  <2> QED
    BY <1>a, <1>b, <2>1, <2>2, JoinGoesOn
<1>3. op[p].pc \notin {"idle", "mark"}
  BY DEF Watched
<1> QED
  BY <1>1, <1>2, <1>3 DEF WorkerStep, StartPolicy, StartReview, _maybe_mark_bind_invalid, Starts

-----------------------------------------------------------------------------
\* The first account to be removed is dealt with.
LEMMA DropGoesOn ==
  ASSUME ShapeInv, NEW p \in Worker, WorkerReady(op[p]), Watched(p), op[p].pc \in {"drop", "release"},
         ~Listed(member[Head(op[p].todo)]), UNCHANGED <<today, row, config, member>>,
         Following(p, "drop", "refresh")
  PROVE  GoesOn(p)
<1> DEFINE s == op[p].todo
           next == [op[p] EXCEPT !.pc = "drop", !.todo = Tail(s)]
           past == [op[p] EXCEPT !.pc = "refresh"]
<1>a. p \in Proc /\ Shape(op[p])
  BY DEF Proc, ShapeInv
<1>1. s \in Seq(Account) /\ s # <<>>
  BY DEF WorkerReady, Todo
<1>2. \/ Len(s) > 1 /\ Become(p, next)
      \/ ~(Len(s) > 1) /\ Become(p, past)
  BY DEF Following, Goto
<1>3. /\ Len(s) > 1 => ToSet(s) = {Head(s)} \cup ToSet(Tail(s))
      /\ ~(Len(s) > 1) => ToSet(s) = {Head(s)}
  BY <1>1, TodoFacts
<1>4. /\ Removes /\ ToRemove \subseteq ToSet(s) /\ op[p].conf = get_config(config)
      /\ op[p].rows = row
      /\ \A a \in ToSet(s) : Listed(member[a]) => a \in ToRemove
  BY DEF Watched
<1>5. Head(s) \notin ToRemove
  BY DEF ToRemove, Stale
<1>s. /\ ToRemove' = ToRemove /\ Tidy' = Tidy /\ Removes' = Removes
  BY SameTables, SameSets
<1> HIDE DEF s
<1>6. /\ Shape(next) /\ next.pc = "drop" /\ next.todo = Tail(s) /\ next.conf = op[p].conf
      /\ next.rows = op[p].rows
      /\ Shape(past) /\ past.pc = "refresh" /\ past.conf = op[p].conf /\ past.rows = op[p].rows
  BY <1>a DEF Shape, Locals
<1> HIDE DEF next, past
<1>7. CASE Len(s) > 1 /\ Become(p, next)
  <2>1. op'[p] = next
    BY <1>a, <1>6, <1>7, CalmShape
  <2>2. ToRemove \subseteq ToSet(Tail(s)) /\ \A a \in ToSet(Tail(s)) : Listed(member[a]) => a \in ToRemove
    BY <1>3, <1>4, <1>5, <1>7
  <2>3. Watched(p)'
    BY <1>4, <1>6, <1>s, <2>1, <2>2 DEF Watched
  <2> QED
    BY <1>6, <2>1, <2>3 DEF GoesOn
<1>8. CASE ~(Len(s) > 1) /\ Become(p, past)
  <2>1. op'[p] = past
    BY <1>a, <1>6, <1>8, CalmShape
  <2>2. Tidy
    BY <1>3, <1>4, <1>5, <1>8 DEF Tidy
  <2>3. Watched(p)'
    BY <1>4, <1>6, <1>s, <2>1, <2>2 DEF Watched
  <2> QED
    BY <1>6, <2>1, <2>3 DEF GoesOn
<1> QED
  BY <1>2, <1>7, <1>8

LEMMA RemoveGoesOn ==
  ASSUME ShapeInv, NEW p \in Worker, WorkerReady(op[p]), Watched(p), RemoveWrite(p)
  PROVE  GoesOn(p)
<1> DEFINE a == Head(op[p].todo)
           m == [member[a] EXCEPT !.state = "removed"]
           r == [op[p] EXCEPT !.pc = "release"]
<1>a. p \in Proc /\ Shape(op[p]) /\ p \notin Admin
  BY PoolAssumption DEF Proc, ShapeInv
<1>1. op[p].pc = "drop" /\ UNCHANGED <<today, row, config>>
  BY DEF RemoveWrite
<1>2. Todo(op[p]) /\ a \in Account /\ ToSet(op[p].todo) \subseteq Account
  <2>1. Todo(op[p])
    BY <1>1 DEF WorkerReady
  <2> QED
    BY <2>1, TodoFacts DEF Todo
<1>3. \/ Listed(member[a]) /\ member' = [member EXCEPT ![a] = m] /\ Become(p, r)
      \/ ~Listed(member[a]) /\ UNCHANGED member /\ Following(p, "drop", "refresh")
  BY <1>a DEF RemoveWrite, Fails, Goto
<1>4. CASE ~Listed(member[a]) /\ UNCHANGED member /\ Following(p, "drop", "refresh")
  BY <1>1, <1>4, DropGoesOn
<1>5. CASE Listed(member[a]) /\ member' = [member EXCEPT ![a] = m] /\ Become(p, r)
  <2>1. /\ Removes /\ ToRemove \subseteq ToSet(op[p].todo) /\ op[p].conf = get_config(config)
        /\ op[p].rows = row
        /\ \A b \in ToSet(op[p].todo) : Listed(member[b]) => b \in ToRemove
    BY <1>1 DEF Watched
  <2>2. Shape(r) /\ r.pc = "release" /\ r.todo = op[p].todo /\ r.conf = op[p].conf /\ r.rows = op[p].rows
    BY <1>a DEF Shape, Locals
  <2> HIDE DEF r
  <2>3. op'[p] = r
    BY <1>a, <1>5, <2>2, CalmShape
  <2>4. m.state = "removed" /\ m.source = member[a].source /\ m.snap = member[a].snap
    BY <1>2 DEF ShapeInv, MemberShape
  <2>5. Head(r.todo) = a
    BY <2>2
  <2> HIDE DEF a, m
  <2>6. \A b \in Account : member'[b] = IF b = a THEN m ELSE member[b]
    BY <1>2, <1>5 DEF ShapeInv
  <2>7. ~Listed(member'[a])
    BY <1>2, <2>4, <2>6 DEF Listed
  <2>8. ToRemove' = ToRemove \ {a}
    BY <1>1, <2>6, <2>7 DEF ToRemove, Stale
  <2>9. \A b \in ToSet(r.todo) : Listed(member'[b]) => b \in ToRemove'
    <3> SUFFICES ASSUME NEW b \in ToSet(r.todo), Listed(member'[b]) PROVE b \in ToRemove'
      OBVIOUS
    <3>1. b # a /\ member'[b] = member[b]
      BY <1>2, <2>2, <2>6, <2>7
    <3> QED
      BY <2>1, <2>2, <2>8, <3>1
  <2>10. Removes' /\ r.conf = get_config(config')
    BY <1>1, <2>1, <2>2 DEF Removes
  <2>11. ToRemove' \subseteq ToSet(r.todo) /\ r.rows = row'
    BY <1>1, <2>1, <2>2, <2>8
  <2>12. Watched(p)'
    BY <2>2, <2>3, <2>5, <2>7, <2>9, <2>10, <2>11 DEF Watched
  <2> QED
    BY <2>2, <2>3, <2>12 DEF GoesOn
<1> QED
  BY <1>3, <1>4, <1>5

LEMMA ReleaseGoesOn ==
  ASSUME ShapeInv, NEW p \in Worker, WorkerReady(op[p]), Watched(p), release_by_account(p)
  PROVE  GoesOn(p)
<1>1. /\ op[p].pc = "release" /\ UNCHANGED <<today, row, config, member>>
      /\ Following(p, "drop", "refresh")
  BY PoolAssumption DEF release_by_account, tables
<1>2. ~Listed(member[Head(op[p].todo)])
  BY <1>1 DEF Watched
<1> QED
  BY <1>1, <1>2, DropGoesOn

-----------------------------------------------------------------------------
\* The next account to join is one of the policy's, and can be added.
LEMMA NextToJoin ==
  ASSUME NEW p \in Worker, WorkerReady(op[p]), Watched(p), op[p].pc \in {"add", "addWrite"}
  PROVE  LET a == Head(op[p].todo)
         IN  /\ op[p].todo \in Seq(Account) /\ op[p].todo # <<>>
             /\ a \in Account /\ a \in ToSet(op[p].todo)
             /\ row[a] # None /\ matches_auto_join(row[a], get_config(config))
             /\ member[a].state = "enabled" => Joined(a)
             /\ op[p].source = "auto" /\ op[p].rows = row /\ op[p].conf = get_config(config)
<1>1. op[p].todo \in Seq(Account) /\ op[p].todo # <<>> /\ op[p].source = "auto"
  BY DEF WorkerReady, Todo
<1>2. Head(op[p].todo) \in Account /\ Head(op[p].todo) \in ToSet(op[p].todo)
  BY <1>1, TodoFacts
<1> QED
  BY <1>1, <1>2 DEF Watched

LEMMA ReadGoesOn ==
  ASSUME ShapeInv, NEW p \in Worker, WorkerReady(op[p]), Watched(p), AddRead(p)
  PROVE  GoesOn(p)
<1> DEFINE a == Head(op[p].todo)
           snap == op[p].rows[a].raw.start
           r == [op[p] EXCEPT !.pc = "addWrite", !.snap = snap]
<1>a. p \in Proc /\ Shape(op[p])
  BY DEF Proc, ShapeInv
<1>1. op[p].pc = "add" /\ UNCHANGED <<today, row, config, member>>
  BY DEF AddRead, tables
<1>2. /\ op[p].todo \in Seq(Account) /\ op[p].todo # <<>>
      /\ a \in Account /\ a \in ToSet(op[p].todo)
      /\ row[a] # None /\ matches_auto_join(row[a], get_config(config))
      /\ op[p].source = "auto" /\ op[p].rows = row /\ op[p].conf = get_config(config)
  BY <1>1, NextToJoin
<1>3. row[a].ok
  BY <1>2 DEF matches_auto_join
<1>4. Become(p, r)
  BY <1>2, <1>3 DEF AddRead
<1>5. snap = row[a].raw.start
  BY <1>2
<1>6. a = Head(op[p].todo)
  OBVIOUS
<1> HIDE DEF a, snap
<1>7. /\ Shape(r) /\ r.pc = "addWrite" /\ r.snap = snap /\ r.todo = op[p].todo
      /\ r.conf = op[p].conf /\ r.rows = op[p].rows
  BY <1>a DEF Shape, Locals
<1> HIDE DEF r
<1>8. op'[p] = r
  BY <1>a, <1>4, <1>7, CalmShape
<1>9. /\ Tidy /\ ToJoin \subseteq ToSet(op[p].todo)
      /\ \A b \in ToSet(op[p].todo) :
           /\ row[b] # None /\ matches_auto_join(row[b], op[p].conf)
           /\ member[b].state = "enabled" => Joined(b)
  BY <1>1 DEF Watched
<1>s. /\ ToJoin' = ToJoin /\ Tidy' = Tidy
      /\ \A b, conf : matches_auto_join(b, conf)' = matches_auto_join(b, conf)
      /\ \A b \in Account : Joined(b)' = Joined(b)
  BY <1>1, SameTables, SameSets
<1>10. ToSet(op[p].todo) \subseteq Account
  BY <1>2, TodoFacts
<1>11. Watched(p)'
  BY <1>1, <1>2, <1>5, <1>6, <1>7, <1>8, <1>9, <1>10, <1>s DEF Watched
<1> QED
  BY <1>7, <1>8, <1>11 DEF GoesOn

\* What the write makes of the row.
LEMMA RowAdded ==
  ASSUME ShapeInv, NEW p \in Worker, WorkerReady(op[p]), Watched(p), AddWrite(p)
  PROVE  LET a == Head(op[p].todo)
         IN  /\ \A b \in Account \ {a} : member'[b] = member[b]
             /\ MemberShape(member'[a])
             /\ member'[a].state = "enabled" /\ member'[a].source = "auto"
             /\ member'[a].snap = row[a].raw.start
             /\ Listed(member[a]) => /\ member'[a].fails = member[a].fails
                                     /\ member'[a].open = member[a].open
<1> DEFINE a == Head(op[p].todo)
           made == [NoMember EXCEPT !.state = "enabled", !.source = op[p].source, !.snap = op[p].snap]
           again == [made EXCEPT !.fails = member[a].fails, !.open = member[a].open]
           m == IF Listed(member[a]) THEN again ELSE made
<1>1. /\ op[p].pc = "addWrite" /\ member' = [member EXCEPT ![a] = m]
  BY DEF AddWrite
<1>2. a \in Account /\ op[p].source = "auto" /\ op[p].snap = row[a].raw.start
  BY <1>1, NextToJoin DEF Watched
<1>3. /\ MemberShape(made) /\ made.state = "enabled" /\ made.source = op[p].source
      /\ made.snap = op[p].snap
  BY DEF NoMember, MemberShape
<1> HIDE DEF made
<1>4. /\ MemberShape(again) /\ again.state = made.state /\ again.source = made.source
      /\ again.snap = made.snap /\ again.fails = member[a].fails /\ again.open = member[a].open
  BY <1>3 DEF MemberShape
<1> HIDE DEF again
<1>5. /\ MemberShape(m) /\ m.state = "enabled" /\ m.source = "auto" /\ m.snap = row[a].raw.start
      /\ Listed(member[a]) => m.fails = member[a].fails /\ m.open = member[a].open
  BY <1>2, <1>3, <1>4
<1> HIDE DEF m, a
<1>6. member'[a] = m /\ \A b \in Account \ {a} : member'[b] = member[b]
  BY <1>1, <1>2 DEF ShapeInv
<1> QED
  BY <1>5, <1>6 DEF a

LEMMA WriteGoesOn ==
  ASSUME ShapeInv, NEW p \in Worker, WorkerReady(op[p]), Watched(p), AddWrite(p)
  PROVE  GoesOn(p)
<1>0. PICK a, conf : a = Head(op[p].todo) /\ conf = get_config(config)
  OBVIOUS
<1> DEFINE s == op[p].todo
           next == [op[p] EXCEPT !.pc = "add", !.todo = Tail(s)]
<1>a. p \in Proc /\ Shape(op[p])
  BY DEF Proc, ShapeInv
<1>1. op[p].pc = "addWrite" /\ UNCHANGED <<today, row, config>>
  BY DEF AddWrite
<1>2. /\ s \in Seq(Account) /\ s # <<>> /\ a \in Account /\ row[a] # None
      /\ op[p].rows = row /\ op[p].conf = conf
  BY <1>0, <1>1, NextToJoin
<1>3. /\ \A b \in Account \ {a} : member'[b] = member[b]
      /\ member'[a].state = "enabled" /\ member'[a].source = "auto"
      /\ member'[a].snap = row[a].raw.start
  BY <1>0, RowAdded
<1>4. /\ Tidy /\ ToJoin \subseteq ToSet(s)
      /\ \A b \in ToSet(s) :
           /\ row[b] # None /\ matches_auto_join(row[b], conf)
           /\ member[b].state = "enabled" => Joined(b)
  BY <1>0, <1>1 DEF Watched
<1>5. \/ Len(s) > 1 /\ Become(p, next)
      \/ ~(Len(s) > 1) /\ Become(p, Idle)
  BY DEF AddWrite, Following
<1>6. /\ ToSet(s) \subseteq Account
      /\ Len(s) > 1 => ToSet(s) = {a} \cup ToSet(Tail(s))
      /\ ~(Len(s) > 1) => ToSet(s) = {a}
  BY <1>0, <1>2, TodoFacts
<1> HIDE DEF s
<1>7. \A b, c : matches_auto_join(b, c)' = matches_auto_join(b, c)
  BY <1>1 DEF matches_auto_join, remaining_days
<1>8. ToRemove' \subseteq ToRemove
  <2>1. a \notin ToRemove'
    BY <1>1, <1>3 DEF ToRemove, Stale
  <2> QED
    BY <1>1, <1>3, <2>1 DEF ToRemove, Stale
<1>9. Tidy'
  BY <1>1, <1>4, <1>8 DEF Tidy, Removes
<1>10. ToJoin' \subseteq ToJoin \ {a}
  <2>1. a \notin ToJoin'
    BY <1>3 DEF ToJoin, Joins
  <2> QED
    BY <1>1, <1>3, <1>7, <2>1 DEF ToJoin, Joins
<1>11. Joined(a)' /\ \A b \in Account \ {a} : Joined(b)' = Joined(b)
  BY <1>1, <1>3 DEF Joined
<1>12. CASE Len(s) > 1 /\ Become(p, next)
  <2>1. /\ Shape(next) /\ next.pc = "add" /\ next.todo = Tail(s) /\ next.conf = op[p].conf
        /\ next.rows = op[p].rows
    BY <1>a DEF Shape, Locals
  <2> HIDE DEF next
  <2>2. op'[p] = next
    BY <1>a, <1>12, <2>1, CalmShape
  <2>3. ToJoin' \subseteq ToSet(Tail(s)) /\ ToSet(Tail(s)) \subseteq ToSet(s)
    BY <1>4, <1>6, <1>10, <1>12
  <2>4. ASSUME NEW b \in ToSet(Tail(s))
        PROVE  /\ row'[b] # None /\ matches_auto_join(row[b], conf)'
               /\ member'[b].state = "enabled" => Joined(b)'
    <3>1. b \in ToSet(s) /\ b \in Account
      BY <1>6, <2>3
    <3> QED
      BY <1>1, <1>3, <1>4, <1>7, <1>11, <3>1
  <2>5. Watched(p)'
    BY <1>0, <1>1, <1>2, <1>9, <2>1, <2>2, <2>3, <2>4 DEF Watched
  <2> QED
    BY <2>1, <2>2, <2>5 DEF GoesOn
<1>13. CASE ~(Len(s) > 1) /\ Become(p, Idle)
  <2>1. op'[p].pc = "idle"
    BY <1>a, <1>13, CalmShape, IdleShape
  <2>2. ToJoin' = {}
    BY <1>4, <1>6, <1>10, <1>13
  <2> QED
    BY <1>9, <2>1, <2>2 DEF GoesOn, Quiet
<1> QED
  BY <1>5, <1>12, <1>13

-----------------------------------------------------------------------------
LEMMA OwnGoesOn ==
  ASSUME ShapeInv, NEW p \in Worker, WorkerReady(op[p]), Watched(p), op'[p] # op[p], [Next]_vars
  PROVE  GoesOn(p)
<1>1. WorkerStep(p) \/ MemberStep(p)
  BY OwnSteps, PoolAssumption DEF Proc
<1> QED
  BY <1>1, PolicyGoesOn, ReadGoesOn, WriteGoesOn, RemoveGoesOn, ReleaseGoesOn DEF MemberStep

LEMMA StartsWatched ==
  ASSUME ShapeInv, NEW p \in Worker, op[p].pc = "idle", op'[p].pc = "snapshot", [Next]_vars
  PROVE  Watched(p)'
<1> DEFINE r == [Idle EXCEPT !.pc = "snapshot", !.conf = get_config(config), !.source = "auto"]
<1>1. p \in Proc /\ op'[p] # op[p]
  BY DEF Proc
<1>2. WorkerStep(p) \/ MemberStep(p)
  BY <1>1, OwnSteps, PoolAssumption
<1>3. WorkerStep(p)
  BY <1>2 DEF MemberStep, AddRead, AddWrite, RemoveWrite, release_by_account
<1>4. StartPolicy(p) \/ StartReview(p)
  BY <1>3 DEF WorkerStep, PolicySnapshot, PolicyRefresh, _maybe_mark_bind_invalid
<1>5. ~StartReview(p)
  <2> SUFFICES ASSUME StartReview(p) PROVE FALSE
    OBVIOUS
  <2> DEFINE doubted == {a \in Account : /\ member[a].state = "enabled" /\ row[a] # None
                                         /\ member[a].fails >= ReviewAt}
             todo == Sorted(doubted)
             mark == [Idle EXCEPT !.pc = "mark", !.todo = todo]
  <2>1. Become(p, mark)
    BY DEF StartReview
  <2> HIDE DEF todo
  <2>2. Shape(mark) /\ mark.pc = "mark"
    BY DEF Idle, Shape, Locals
  <2> HIDE DEF mark
  <2> QED
    BY <1>1, <2>1, <2>2, CalmShape
<1>6. Become(p, r) /\ UNCHANGED config
  BY <1>4, <1>5 DEF StartPolicy, tables
<1>7. Shape(r) /\ r.pc = "snapshot" /\ r.conf = get_config(config)
  BY DEF Idle, Shape, Locals
<1> HIDE DEF r
<1>8. op'[p] = r
  BY <1>1, <1>6, <1>7, CalmShape
<1> QED
  BY <1>6, <1>7, <1>8 DEF Watched

LEMMA WatchInit == Init => WatchInv
<1> SUFFICES ASSUME Init PROVE WatchInv
  OBVIOUS
<1>1. settled = FALSE /\ alone = [p \in Worker |-> FALSE]
  BY DEF Init
<1> QED
  BY <1>1 DEF WatchInv

LEMMA WatchStep == TypeInv /\ WatchInv /\ [Next]_vars => WatchInv'
<1> SUFFICES ASSUME TypeInv, WatchInv, [Next]_vars PROVE WatchInv'
  OBVIOUS
<1>1. ShapeInv /\ \A p \in Worker : WorkerReady(op[p])
  BY DEF TypeInv, CircuitInv, AllReady, Ready, Proc
<1>2. CASE UNCHANGED vars
  <2>1. Same /\ alone' = alone /\ settled' = settled /\ op' = op
    BY <1>2, SameTables DEF vars, tables, ghosts
  <2>2. \A p \in Worker : alone'[p] /\ op'[p].pc # "idle" => Watched(p)'
    BY <1>1, <2>1, SameWatched DEF WatchInv
  <2>3. settled' => Quiet'
    BY <2>1, SameSets DEF WatchInv
  <2> QED
    BY <2>2, <2>3 DEF WatchInv
<1>3. CASE Next
  <2> DEFINE changed == Decides' # Decides
             now(p) == IF op[p].pc = "idle" THEN op'[p].pc = "snapshot"
                       ELSE alone[p] /\ (changed => op'[p] # op[p])
  <2>0. Watch
    BY <1>3 DEF Next
  <2>1. /\ alone' = [p \in Worker |-> now(p)]
        /\ settled' => \/ settled /\ ~changed
                       \/ \E p \in Worker : (op[p].pc # "idle" /\ op'[p].pc = "idle") /\ alone[p]
    BY <2>0 DEF Watch
  <2>2. ASSUME NEW p \in Worker, alone'[p], op'[p].pc # "idle" PROVE Watched(p)'
    <3>1. now(p)
      BY <2>1, <2>2
    <3>2. CASE op[p].pc = "idle"
      BY <1>1, <3>1, <3>2, StartsWatched
    <3>3. CASE op[p].pc # "idle"
      <4>1. Watched(p) /\ (changed => op'[p] # op[p])
        BY <3>1, <3>3 DEF WatchInv
      <4>2. CASE op'[p] # op[p]
        BY <1>1, <2>2, <4>1, <4>2, OwnGoesOn DEF GoesOn
      <4>3. CASE op'[p] = op[p]
        <5>1. Same
          BY <4>1, <4>3, SameDecides
        <5> QED
          BY <1>1, <4>1, <4>3, <5>1, SameWatched
      <4> QED
        BY <4>2, <4>3
    <3> QED
      BY <3>2, <3>3
  <2>3. ASSUME settled' PROVE Quiet'
    <3>1. CASE settled /\ ~changed
      BY <3>1, SameDecides, SameSets DEF WatchInv
    <3>2. ASSUME NEW p \in Worker, op[p].pc # "idle", op'[p].pc = "idle", alone[p] PROVE Quiet'
      <4>1. Watched(p) /\ op'[p] # op[p]
        BY <3>2 DEF WatchInv
      <4> QED
        BY <1>1, <3>2, <4>1, OwnGoesOn DEF GoesOn
    <3> QED
      BY <2>1, <2>3, <3>1, <3>2
  <2> QED
    BY <2>2, <2>3 DEF WatchInv
<1> QED
  BY <1>2, <1>3

LEMMA WatchHolds == Spec => [](TypeInv /\ WatchInv)
<1>1. TypeInv /\ WatchInv /\ [Next]_vars => (TypeInv /\ WatchInv)'
  BY TypeStep, WatchStep
<1> QED
  BY <1>1, TypeInit, WatchInit, PTL DEF Spec

-----------------------------------------------------------------------------
\* The steps of a policy run that change a member.
LEMMA PolicyWrites ==
  ASSUME TypeInv, WatchInv, [Next]_vars, NEW p \in Worker, alone[p], Runs(p)
  PROVE  /\ ShapeInv /\ WorkerReady(op[p]) /\ Watched(p)
         /\ UNCHANGED member \/ AddWrite(p) \/ (RemoveWrite(p) /\ Listed(member[Head(op[p].todo)]))
<1>1. ShapeInv /\ WorkerReady(op[p]) /\ Watched(p) /\ p \in Proc /\ op'[p] # op[p]
  BY DEF TypeInv, CircuitInv, AllReady, Ready, Proc, WatchInv, Runs
<1>2. WorkerStep(p) \/ MemberStep(p)
  BY <1>1, OwnSteps, PoolAssumption
<1>3. WorkerStep(p) => UNCHANGED member
  BY DEF WorkerStep, StartPolicy, PolicySnapshot, PolicyRefresh, StartReview, _maybe_mark_bind_invalid, tables
<1>4. MemberStep(p) =>
        UNCHANGED member \/ AddWrite(p) \/ (RemoveWrite(p) /\ Listed(member[Head(op[p].todo)]))
  BY DEF MemberStep, AddRead, RemoveWrite, release_by_account, tables
<1> QED
  BY <1>1, <1>2, <1>3, <1>4

\* An account that the policy removes is one it has to remove.
LEMMA RemovesStale ==
  ASSUME NEW p \in Worker, WorkerReady(op[p]), Watched(p), RemoveWrite(p), Listed(member[Head(op[p].todo)])
  PROVE  /\ Removes /\ Head(op[p].todo) \in ToRemove
         /\ member' = [member EXCEPT ![Head(op[p].todo)].state = "removed"]
<1>1. op[p].pc = "drop" /\ member' = [member EXCEPT ![Head(op[p].todo)].state = "removed"]
  BY DEF RemoveWrite
<1>2. Head(op[p].todo) \in ToSet(op[p].todo)
  <2>1. op[p].todo \in Seq(Account) /\ op[p].todo # <<>>
    BY <1>1 DEF WorkerReady, Todo
  <2> QED
    BY <2>1, TodoFacts
<1> QED
  BY <1>1, <1>2 DEF Watched

LEMMA KeepsManual ==
  ASSUME TypeInv, WatchInv, [Next]_vars, NEW p \in Worker, alone[p], Runs(p),
         NEW b \in Account, member[b].source = "manual", member[b].state = "enabled"
  PROVE  member'[b] = member[b]
<1>1. ShapeInv /\ WorkerReady(op[p]) /\ Watched(p)
  BY PolicyWrites
<1>2. CASE AddWrite(p)
  <2>1. op[p].pc = "addWrite"
    BY <1>2 DEF AddWrite
  <2>2. member[Head(op[p].todo)].state = "enabled" => Joined(Head(op[p].todo))
    BY <1>1, <2>1, NextToJoin
  <2>3. b # Head(op[p].todo)
    BY <2>2 DEF Joined
  <2> QED
    BY <1>1, <1>2, <2>3, RowAdded
<1>3. CASE RemoveWrite(p) /\ Listed(member[Head(op[p].todo)])
  <2>1. Head(op[p].todo) \in ToRemove /\ member' = [member EXCEPT ![Head(op[p].todo)].state = "removed"]
    BY <1>1, <1>3, RemovesStale
  <2>2. b # Head(op[p].todo)
    BY <2>1 DEF ToRemove, Stale
  <2> QED
    BY <1>1, <2>1, <2>2 DEF ShapeInv
<1> QED
  BY <1>2, <1>3, PolicyWrites

\* A policy run that nobody interfered with leaves alone what an administrator
\* has put into the pool by hand and is enabled.
THEOREM ManualMembersStay == Spec => ManualStays
<1>1. TypeInv /\ WatchInv /\ [Next]_vars =>
        [\A p \in Worker : alone[p] /\ Runs(p) =>
           \A a \in Account : member[a].source = "manual" /\ member[a].state = "enabled"
               => member'[a] = member[a]]_vars
  BY KeepsManual
<1> QED
  BY <1>1, WatchHolds, PTL DEF Spec, ManualStays

LEMMA QuietStays ==
  ASSUME TypeInv, WatchInv, [Next]_vars, settled, NEW p \in Worker, alone[p], Runs(p)
  PROVE  member' = member
<1>1. ShapeInv /\ WorkerReady(op[p]) /\ Watched(p) /\ Quiet
  BY PolicyWrites DEF WatchInv
<1>2. CASE AddWrite(p)
  <2>0. PICK a : a = Head(op[p].todo)
    OBVIOUS
  <2>1. op[p].pc = "addWrite"
    BY <1>2 DEF AddWrite
  <2>2. /\ a \in Account /\ row[a] # None /\ matches_auto_join(row[a], get_config(config))
        /\ member[a].state = "enabled" => Joined(a)
    BY <1>1, <2>0, <2>1, NextToJoin
  <2>3. member[a].state = "enabled"
    BY <1>1, <2>2 DEF Quiet, ToJoin, Joins
  <2>4. Listed(member[a]) /\ member[a].source = "auto" /\ member[a].snap = row[a].raw.start
    BY <2>2, <2>3 DEF Listed, Joined
  <2>5. /\ \A b \in Account \ {a} : member'[b] = member[b]
        /\ MemberShape(member'[a])
        /\ member'[a].state = "enabled" /\ member'[a].source = "auto"
        /\ member'[a].snap = row[a].raw.start
        /\ member'[a].fails = member[a].fails /\ member'[a].open = member[a].open
    BY <1>1, <1>2, <2>0, <2>4, RowAdded
  <2>6. MemberShape(member[a])
    BY <1>1, <2>2 DEF ShapeInv
  <2>7. member'[a] = member[a]
    BY <2>3, <2>4, <2>5, <2>6 DEF MemberShape
  <2>8. ShapeInv'
    BY TypeStep DEF TypeInv, CircuitInv
  <2> QED
    BY <1>1, <2>5, <2>7, <2>8 DEF ShapeInv
<1>3. CASE RemoveWrite(p) /\ Listed(member[Head(op[p].todo)])
  <2>1. Removes /\ Head(op[p].todo) \in ToRemove
    BY <1>1, <1>3, RemovesStale
  <2> QED
    BY <1>1, <2>1 DEF Quiet, Tidy
<1> QED
  BY <1>2, <1>3, PolicyWrites

\* Where a policy run that nobody interfered with left off, the next one finds
\* nothing to do: what it removes is not what it would take in, and what it
\* takes in is not what it would remove.
THEOREM PoliciesSettle == Spec => PolicySettles
<1>1. TypeInv /\ WatchInv /\ [Next]_vars =>
        [\A p \in Worker : settled /\ alone[p] /\ Runs(p) => member' = member]_vars
  BY QuietStays
<1> QED
  BY <1>1, WatchHolds, PTL DEF Spec, PolicySettles

=============================================================================
