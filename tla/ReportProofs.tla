---------------------------- MODULE ReportProofs ----------------------------
(***************************************************************************)
(* What the dashboard shows is right, for every instance of the ledgers:   *)
(* the pages of the account list show every account once, every billing    *)
(* cycle is ranked once for the month in which it ends, and the trends, the *)
(* summary and the calendar of a month are one figure.                     *)
(*                                                                         *)
(* The reports choose sequences in some order, so the lemmas come first    *)
(* that a finite set can be put in every total order of it and that a      *)
(* sequence in order shows every member once.  What the list and the       *)
(* rankings say then follows from the types of the ledgers (TypeInv of     *)
(* BooksProofs).                                                           *)
(*                                                                         *)
(* The figures of a month need more: that the ledgers agree with the log   *)
(* (AgreeInv), and that a month without a calendar row has nothing in the  *)
(* log (GapInv), which is made inductive here.  Every figure is then brought *)
(* to the same sum, of what the logs of the bound accounts have of the month *)
(* (Booking): the trend by adding up days and accounts in the other order, *)
(* the users' trends by leaving out those who spent nothing.               *)
(***************************************************************************)
EXTENDS BooksProofs, SequenceTheorems

-----------------------------------------------------------------------------
\* Finite sets put in order.  R, a set of pairs, is a total order of S.
Orders(R, S) ==
    /\ \A x \in S : <<x, x>> \notin R
    /\ \A x, y \in S : x # y => <<x, y>> \in R \/ <<y, x>> \in R
    /\ \A x, y, z \in S : <<x, y>> \in R /\ <<y, z>> \in R => <<x, z>> \in R

Ordered(s, R, S) ==
    /\ s \in [1..Cardinality(S) -> S]
    /\ \A i, j \in 1..Cardinality(S) : i < j => <<s[i], s[j]>> \in R

LEMMA FirstOf ==
  ASSUME NEW S, IsFiniteSet(S), S # {}, NEW R, Orders(R, S)
  PROVE  \E m \in S : \A x \in S \ {m} : <<m, x>> \in R
<1> DEFINE Has(s) == \E m \in s : \A x \in s \ {m} : <<m, x>> \in R
           T == {s \in SUBSET S : s # {} /\ ~Has(s)}
<1>1. SUFFICES ASSUME T # {} PROVE FALSE
  OBVIOUS
<1>2. PICK s \in T : \A t \in T : t \subseteq s => t = s
  <2>1. T \subseteq SUBSET S
    OBVIOUS
  <2> HIDE DEF T
  <2> QED
    BY <1>1, <2>1, LeastSet
<1> DEFINE e == Some(s)
           r == s \ {e}
<1>3. e \in s /\ r \subseteq s /\ r # s /\ s = r \cup {e} /\ e \notin r
  BY SomeIn
<1> HIDE DEF e, r
<1>4. CASE r = {}
  BY <1>3, <1>4
<1>5. CASE r # {}
  <2>1. r \notin T
    BY <1>2, <1>3
  <2>2. PICK m \in r : \A x \in r \ {m} : <<m, x>> \in R
    BY <1>3, <1>5, <2>1
  <2>3. m # e /\ m \in S /\ e \in S /\ r \subseteq S
    BY <1>3, <2>2
  <2>4. CASE <<m, e>> \in R
    <3>1. \A x \in s \ {m} : <<m, x>> \in R
      BY <1>3, <2>2, <2>4
    <3> QED
      BY <1>3, <2>2, <3>1
  <2>5. CASE <<e, m>> \in R
    <3>1. ASSUME NEW x \in s \ {e} PROVE <<e, x>> \in R
      <4>1. x = m \/ x \in r \ {m}
        BY <1>3
      <4>2. x \in S
        BY <1>3, <2>3
      <4> QED
        BY <2>2, <2>3, <2>5, <4>1, <4>2 DEF Orders
    <3> QED
      BY <1>3, <3>1
  <2> QED
    BY <2>3, <2>4, <2>5 DEF Orders
<1> QED
  BY <1>4, <1>5

\* The first, and the others in order.
LEMMA FirstThenOthers ==
  ASSUME NEW S, IsFiniteSet(S), NEW R, NEW m \in S, \A x \in S \ {m} : <<m, x>> \in R,
         NEW t, Ordered(t, R, S \ {m})
  PROVE  \E s : Ordered(s, R, S)
<1> DEFINE n == Cardinality(S)
           s == [i \in 1..n |-> IF i = 1 THEN m ELSE t[i - 1]]
<1>1. n \in Nat /\ Cardinality(S \ {m}) = n - 1 /\ n - 1 \in Nat
  <2>1. IsFiniteSet(S \ {m}) /\ Cardinality(S \ {m}) = n - 1
    BY FS_RemoveElement
  <2>2. n \in Nat /\ Cardinality(S \ {m}) \in Nat
    BY <2>1, FS_CardinalityType
  <2> QED
    BY <2>1, <2>2
<1>2. t \in [1..n - 1 -> S \ {m}] /\ \A i, j \in 1..n - 1 : i < j => <<t[i], t[j]>> \in R
  BY <1>1 DEF Ordered
<1> HIDE DEF n
<1>3. \A i \in 1..n : i # 1 => i - 1 \in 1..n - 1 /\ t[i - 1] \in S \ {m}
  BY <1>1, <1>2
<1>4. s \in [1..n -> S]
  BY <1>3
<1>5. ASSUME NEW i \in 1..n, NEW j \in 1..n, i < j PROVE <<s[i], s[j]>> \in R
  <2>1. j # 1 /\ j - 1 \in 1..n - 1 /\ s[j] = t[j - 1] /\ t[j - 1] \in S \ {m}
    BY <1>1, <1>3, <1>5
  <2>2. CASE i = 1
    <3>1. s[i] = m
      BY <2>2
    <3> HIDE DEF s
    <3> QED
      BY <2>1, <3>1
  <2>3. CASE i # 1
    <3>1. i - 1 \in 1..n - 1 /\ s[i] = t[i - 1] /\ i - 1 < j - 1
      BY <1>1, <1>3, <1>5, <2>3
    <3> HIDE DEF s
    <3> QED
      BY <1>2, <2>1, <3>1
  <2> QED
    BY <2>2, <2>3
<1> HIDE DEF s
<1>6. Ordered(s, R, S)
  BY <1>4, <1>5 DEF Ordered, n
<1> QED
  BY <1>6

LEMMA CanBeSorted ==
  ASSUME NEW S, IsFiniteSet(S), NEW R, Orders(R, S)
  PROVE  \E s : Ordered(s, R, S)
<1> DEFINE Has(s) == \E t : Ordered(t, R, s)
           T == {s \in SUBSET S : ~Has(s)}
<1>1. SUFFICES ASSUME T # {} PROVE FALSE
  <2>1. S \notin T => Has(S)
    <3> HIDE DEF Has
    <3> QED
      OBVIOUS
  <2> QED
    BY <2>1
<1>2. PICK s \in T : \A t \in T : t \subseteq s => t = s
  <2>1. T \subseteq SUBSET S
    OBVIOUS
  <2> HIDE DEF T
  <2> QED
    BY <1>1, <2>1, LeastSet
<1>3. IsFiniteSet(s) /\ ~Has(s) /\ s \subseteq S
  BY FS_Subset
<1>4. s # {}
  <2>1. SUFFICES ASSUME s = {} PROVE FALSE
    OBVIOUS
  <2>2. Cardinality(s) = 0
    BY <2>1, FS_EmptySet
  <2> DEFINE e == [i \in 1..0 |-> 0]
  <2>3. e \in [1..0 -> s]
    OBVIOUS
  <2>4. Ordered(e, R, s)
    BY <2>2, <2>3 DEF Ordered
  <2> QED
    BY <1>3, <2>4
<1>5. Orders(R, s)
  BY <1>3 DEF Orders
<1>6. PICK m \in s : \A x \in s \ {m} : <<m, x>> \in R
  BY <1>3, <1>4, <1>5, FirstOf
<1>7. s \ {m} \subseteq s /\ s \ {m} # s /\ s \ {m} \in SUBSET S
  BY <1>3, <1>6
<1>8. Has(s \ {m})
  <2> HIDE DEF Has
  <2> QED
    BY <1>2, <1>7
<1>9. PICK t : Ordered(t, R, s \ {m})
  BY <1>8
<1> QED
  BY <1>3, <1>6, <1>9, FirstThenOthers

\* What is in order is a sequence that has every member once.
LEMMA OrderedFacts ==
  ASSUME NEW S, IsFiniteSet(S), NEW R, Orders(R, S), NEW s, Ordered(s, R, S)
  PROVE  /\ s \in Seq(S) /\ Len(s) = Cardinality(S) /\ Len(s) \in Nat
         /\ ToSet(s) = S
         /\ \A i, j \in 1..Len(s) : i # j => s[i] # s[j]
<1> DEFINE n == Cardinality(S)
           D == 1..n
<1>1. n \in Nat
  BY FS_CardinalityType
<1>2. s \in [D -> S] /\ \A i, j \in D : i < j => <<s[i], s[j]>> \in R
  BY DEF Ordered
<1>3. \A i, j \in D : i # j => s[i] # s[j]
  <2> SUFFICES ASSUME NEW i \in D, NEW j \in D, i # j PROVE s[i] # s[j]
    OBVIOUS
  <2>1. i < j \/ j < i
    BY <1>1
  <2>2. s[i] \in S /\ s[j] \in S
    BY <1>2
  <2>3. <<s[i], s[j]>> \in R \/ <<s[j], s[i]>> \in R
    BY <1>2, <2>1
  <2> QED
    BY <2>2, <2>3 DEF Orders
<1>4. s \in Injection(D, S)
  BY <1>2, <1>3 DEF Injection, IsInjective
<1>5. IsFiniteSet(D) /\ Cardinality(D) = Cardinality(S)
  BY <1>1, FS_Interval
<1>6. s \in Surjection(D, S)
  BY <1>4, <1>5, FS_Injection
<1>7. \A x \in S : \E i \in D : s[i] = x
  BY <1>6 DEF Surjection
<1>8. DOMAIN s = D
  BY <1>2
<1>9. ToSet(s) = S
  BY <1>2, <1>7, <1>8 DEF ToSet
<1>10. s \in Seq(S) /\ Len(s) = n
  BY <1>1, <1>2
<1> QED
  BY <1>1, <1>3, <1>9, <1>10

\* What a function makes of a finite set is finite.
LEMMA FiniteImage ==
  ASSUME NEW f, IsFiniteSet(DOMAIN f)
  PROVE  IsFiniteSet({f[x] : x \in DOMAIN f})
<1> DEFINE D == DOMAIN f
           T == {f[x] : x \in D}
           g == [x \in D |-> f[x]]
<1>1. g \in Surjection(D, T)
  BY DEF Surjection
<1> QED
  BY <1>1, FS_Surjection

LEMMA StartInt == Start \subseteq Int
<1>1. MaxDay + 1 \in Int /\ FirstStart \in Int /\ CycleDays \in Int
  BY LedgerAssumption, MetricsAssumption DEF FirstStart
<1>2. \A k \in 0..(MaxDay + 1) : k * CycleDays \in Int
  BY <1>1
<1> QED
  BY <1>1, <1>2 DEF Start

-----------------------------------------------------------------------------
\* The rows of an account's history, and what its account row says.
HistoryOf(a) == {CycleRecord(a, s) : s \in DOMAIN cycles[a]}
LiveCycle(a) ==
    [account_id |-> a, billing_cycle_start |-> usage[a].start,
     usage_total_pct |-> usage[a].pct, is_finalized |-> FALSE, total_tokens |-> usage[a].total]

LEMMA HistoryFinite ==
  ASSUME CyclesIn, NEW a \in Account
  PROVE  IsFiniteSet(HistoryOf(a)) /\ DOMAIN cycles[a] \subseteq Int
<1> DEFINE D == DOMAIN cycles[a]
           f == [s \in D |-> CycleRecord(a, s)]
<1>1. D \subseteq Start
  BY DEF CyclesIn, IsRows
<1>2. IsFiniteSet(D)
  BY <1>1, StartFinite, FS_Subset
<1>3. DOMAIN f = D /\ HistoryOf(a) = {f[s] : s \in D}
  BY DEF HistoryOf
<1> HIDE DEF f
<1>4. IsFiniteSet(HistoryOf(a))
  BY <1>2, <1>3, FiniteImage
<1> QED
  BY <1>1, <1>4, StartInt

LEMMA HistoryShown ==
  ASSUME CyclesIn, NEW a \in Account
  PROVE  ToSet(get_account_billing_cycles(a)) = HistoryOf(a)
<1> DEFINE S == HistoryOf(a)
           D == 1..Cardinality(S)
           R == {p \in S \X S : p[1].billing_cycle_start > p[2].billing_cycle_start}
           InTurn(s) == \A i, j \in D : i < j => s[i].billing_cycle_start > s[j].billing_cycle_start
           o == get_account_billing_cycles(a)
<1>1. IsFiniteSet(S)
  BY HistoryFinite
<1>2. \A x \in S : x.billing_cycle_start \in Int /\ x = CycleRecord(a, x.billing_cycle_start)
  <2>1. \A s \in DOMAIN cycles[a] : s \in Int /\ CycleRecord(a, s).billing_cycle_start = s
    BY HistoryFinite DEF CycleRecord
  <2> QED
    BY <2>1 DEF HistoryOf
<1>3. \A x, y \in S : <<x, y>> \in R <=> x.billing_cycle_start > y.billing_cycle_start
  OBVIOUS
<1>4. o = CHOOSE s \in [D -> S] : InTurn(s)
  BY DEF get_account_billing_cycles, SortedBy, HistoryOf
<1> HIDE DEF S, R, o
<1>5. Orders(R, S)
  <2>1. ASSUME NEW x \in S, NEW y \in S, x # y PROVE <<x, y>> \in R \/ <<y, x>> \in R
    <3>1. x.billing_cycle_start # y.billing_cycle_start
      BY <1>2, <2>1
    <3> QED
      BY <1>2, <1>3, <3>1
  <2>2. ASSUME NEW x \in S, NEW y \in S, NEW z \in S, <<x, y>> \in R, <<y, z>> \in R
        PROVE  <<x, z>> \in R
    BY <1>2, <1>3, <2>2
  <2> QED
    BY <1>2, <1>3, <2>1, <2>2 DEF Orders
<1>6. PICK t : Ordered(t, R, S)
  BY <1>1, <1>5, CanBeSorted
<1>7. t \in [D -> S] /\ InTurn(t)
  BY <1>3, <1>6 DEF Ordered
<1>8. o \in [D -> S] /\ InTurn(o)
  <2> HIDE DEF D, InTurn
  <2> QED
    BY <1>4, <1>7
<1>9. Ordered(o, R, S)
  BY <1>3, <1>8 DEF Ordered
<1>10. ToSet(o) = S
  BY <1>1, <1>5, <1>9, OrderedFacts
<1> QED
  BY <1>10 DEF o, S

LEMMA EndingLive ==
  ASSUME AccountsIn, NEW m, NEW x
  PROVE  x \in accounts_ending_in_month(list_admin_accounts(m), m)
         <=> \E a \in bound : /\ usage[a] # None /\ Month(EndOf(usage[a].start)) = m
                              /\ x = LiveCycle(a)
<1> DEFINE rows == list_admin_accounts(m)
           Shown(r) ==
             [account_id |-> r.id, billing_cycle_start |-> r.billing_cycle_start,
              usage_total_pct |-> r.usage_total, is_finalized |-> FALSE,
              total_tokens |-> IF r.cycle_total_tokens = None THEN 0 ELSE r.cycle_total_tokens]
           Ends(r) == r.billing_cycle_start # None /\ Month(EndOf(r.billing_cycle_start)) = m
           row(a) == _to_admin_schema(a, m)
<1>1. x \in accounts_ending_in_month(rows, m) <=> \E a \in bound : Ends(row(a)) /\ x = Shown(row(a))
  BY DEF accounts_ending_in_month, list_admin_accounts
<1>2. ASSUME NEW a \in bound
      PROVE  /\ Ends(row(a)) <=> usage[a] # None /\ Month(EndOf(usage[a].start)) = m
             /\ usage[a] # None => Shown(row(a)) = LiveCycle(a)
  <2>1. a \in Account /\ (usage[a] # None => usage[a] \in Snapshot)
    BY DEF AccountsIn
  <2>2. usage[a] # None => usage[a].start \in Int /\ usage[a].total \in Int
    <3>1. Tokens \subseteq Int
      BY LedgerAssumption DEF Tokens
    <3> QED
      BY <2>1, <3>1, StartInt DEF Snapshot
  <2>3. None \notin Int
    BY NoneAssumption
  <2>4. /\ row(a).id = a
        /\ row(a).billing_cycle_start = IF usage[a] = None THEN None ELSE usage[a].start
        /\ row(a).usage_total = IF usage[a] = None THEN None ELSE usage[a].pct
        /\ row(a).cycle_total_tokens = IF usage[a] = None \/ usage[a].total = 0 THEN None
                                       ELSE usage[a].total
    BY DEF _to_admin_schema
  <2> HIDE DEF row
  <2>5. Ends(row(a)) <=> usage[a] # None /\ Month(EndOf(usage[a].start)) = m
    BY <2>2, <2>3, <2>4
  <2>6. ASSUME usage[a] # None PROVE Shown(row(a)) = LiveCycle(a)
    BY <2>2, <2>3, <2>4, <2>6 DEF LiveCycle
  <2> QED
    BY <2>5, <2>6
<1> HIDE DEF Ends, Shown, row
<1> QED
  BY <1>1, <1>2

LEMMA EndingKept ==
  ASSUME NEW m, NEW x
  PROVE  x \in _load_cycle_end_month_rows(m)
         <=> \E a \in bound : \E s \in DOMAIN cycles[a] :
                Month(EndOf(s)) = m /\ x = CycleRecord(a, s)
  BY DEF _load_cycle_end_month_rows

LEMMA CycleFields ==
  ASSUME NEW a, NEW s
  PROVE  CycleRecord(a, s).account_id = a /\ CycleRecord(a, s).billing_cycle_start = s
  BY DEF CycleRecord

LEMMA LiveFields ==
  ASSUME NEW a
  PROVE  /\ LiveCycle(a).account_id = a /\ LiveCycle(a).billing_cycle_start = usage[a].start
         /\ LiveCycle(a).total_tokens = usage[a].total
  BY DEF LiveCycle

LEMMA EachEndOnce == AccountsIn /\ CyclesIn => MonthEndOnce
<1> SUFFICES ASSUME AccountsIn, CyclesIn, NEW m \in 0..Month(today), NEW a \in bound,
                    NEW s \in {t \in Start : Month(EndOf(t)) = m}
             PROVE  LET merged == merge_cycle_end_rows(_load_cycle_end_month_rows(m),
                                      accounts_ending_in_month(list_admin_accounts(m), m))
                        ranked == {r \in merged : r.account_id = a /\ r.billing_cycle_start = s}
                        history == {r \in ToSet(get_account_billing_cycles(a)) :
                                      r.billing_cycle_start = s}
                        live == usage[a] # None /\ usage[a].start = s
                    IN  /\ Cardinality(ranked) = IF live THEN 1 ELSE Cardinality(history)
                        /\ \A r \in ranked :
                             IF live THEN r.total_tokens = usage[a].total ELSE r \in history
  BY DEF MonthEndOnce
<1> DEFINE db == _load_cycle_end_month_rows(m)
           now == accounts_ending_in_month(list_admin_accounts(m), m)
           merged == merge_cycle_end_rows(db, now)
           ranked == {r \in merged : r.account_id = a /\ r.billing_cycle_start = s}
           history == {r \in ToSet(get_account_billing_cycles(a)) : r.billing_cycle_start = s}
           live == usage[a] # None /\ usage[a].start = s
           Of(r) == r.account_id = a /\ r.billing_cycle_start = s
<1>1. a \in Account /\ Month(EndOf(s)) = m
  BY DEF AccountsIn
<1>2. \A r : r \in merged <=> \/ r \in now
                              \/ /\ r \in db
                                 /\ \A l \in now : \/ l.account_id # r.account_id
                                                   \/ l.billing_cycle_start # r.billing_cycle_start
  BY DEF merge_cycle_end_rows
<1>3. \A r : r \in now /\ Of(r) <=> live /\ r = LiveCycle(a)
  <2>1. \A r : r \in now <=> \E b \in bound : /\ usage[b] # None /\ Month(EndOf(usage[b].start)) = m
                                              /\ r = LiveCycle(b)
    BY EndingLive
  <2> HIDE DEF now
  <2> QED
    BY <1>1, <2>1, LiveFields
<1>4. \A r : r \in db /\ Of(r) <=> s \in DOMAIN cycles[a] /\ r = CycleRecord(a, s)
  <2>1. \A r : r \in db <=> \E b \in bound : \E t \in DOMAIN cycles[b] :
                              Month(EndOf(t)) = m /\ r = CycleRecord(b, t)
    BY EndingKept
  <2> HIDE DEF db
  <2> QED
    BY <1>1, <2>1, CycleFields
<1>5. \A r : r \in history <=> s \in DOMAIN cycles[a] /\ r = CycleRecord(a, s)
  <2>1. \A r : r \in ToSet(get_account_billing_cycles(a))
               <=> \E t \in DOMAIN cycles[a] : r = CycleRecord(a, t)
    BY <1>1, HistoryShown DEF HistoryOf
  <2> QED
    BY <2>1, CycleFields
<1> HIDE DEF db, now, merged, history
<1>6. CASE live
  <2>1. ranked = {LiveCycle(a)}
    <3>1. LiveCycle(a) \in now /\ Of(LiveCycle(a))
      BY <1>3, <1>6
    <3>2. ASSUME NEW r \in merged, Of(r) PROVE r = LiveCycle(a)
      <4>1. r \in now
        BY <1>2, <3>1, <3>2
      <4> QED
        BY <1>3, <3>2, <4>1
    <3> QED
      BY <1>2, <3>1, <3>2
  <2>2. Cardinality(ranked) = 1
    BY <2>1, FS_Singleton
  <2>3. \A r \in ranked : r.total_tokens = usage[a].total
    BY <2>1, LiveFields
  <2> HIDE DEF ranked
  <2> QED
    BY <1>6, <2>2, <2>3 DEF db, now, merged, history, ranked
<1>7. CASE ~live
  <2>1. ranked = history
    <3>1. ASSUME NEW r \in merged, Of(r) PROVE r \in history
      BY <1>2, <1>3, <1>4, <1>5, <1>7, <3>1
    <3>2. ASSUME NEW r \in history PROVE r \in merged /\ Of(r)
      <4>1. r \in db /\ Of(r)
        BY <1>4, <1>5, <3>2
      <4>2. \A l \in now : l.account_id # r.account_id \/ l.billing_cycle_start # r.billing_cycle_start
        BY <1>3, <1>7, <4>1
      <4> QED
        BY <1>2, <4>1, <4>2
    <3> QED
      BY <3>1, <3>2
  <2> HIDE DEF ranked
  <2> QED
    BY <1>7, <2>1 DEF db, now, merged, history, ranked
<1> QED
  BY <1>6, <1>7

LEMMA LeastNumber ==
  ASSUME NEW T, T \subseteq Nat, T # {}
  PROVE  \E n \in T : \A m \in T : n <= m
<1>1. PICK n \in T : \A m \in T : ~(<<m, n>> \in OpToRel(<, Nat))
  BY NatLessThanWellFounded, WFMin
<1>2. ASSUME NEW m \in T PROVE n <= m
  <2>1. <<m, n>> \in OpToRel(<, Nat) <=> m < n
    BY DEF OpToRel
  <2>2. ~(m < n)
    BY <1>1, <2>1
  <2> QED
    BY <2>2
<1> QED
  BY <1>2

\* Pages of one row, one after the other, are the rows.
IsFlat(g, q) == g = [i \in 1..Len(q) |-> IF i = 1 THEN q[i] ELSE g[i - 1] \o q[i]]

LEMMA FlatChosen ==
  \A q : FlattenSeq(q) = IF Len(q) = 0 THEN q ELSE (CHOOSE g : IsFlat(g, q))[Len(q)]
  BY DEF FlattenSeq, IsFlat

LEMMA OnePage ==
  ASSUME NEW S, NEW s \in Seq(S), NEW i \in 1..Len(s)
  PROVE  PageOf(s, i, 1) = <<s[i]>>
<1>1. Len(s) \in Nat /\ i * 1 = i /\ (i - 1) * 1 + 1 = i /\ i <= Len(s)
  OBVIOUS
<1>2. Min({i * 1, Len(s)}) = i
  <2> DEFINE n == Len(s)
             m == Min({i, n})
  <2>1. i \in Int /\ n \in Int /\ i <= n /\ {i * 1, Len(s)} = {i, n}
    BY <1>1
  <2> HIDE DEF n
  <2>2. m \in {i, n} /\ m <= i /\ m <= n
    BY <2>1, MinOfTwo
  <2> HIDE DEF m
  <2>3. m = i
    BY <2>1, <2>2
  <2> QED
    BY <2>1, <2>3 DEF m
<1>3. PageOf(s, i, 1) = SubSeq(s, i, i)
  BY <1>1, <1>2 DEF PageOf
<1>4. SubSeq(s, i, i) = SubSeq(s, i, i - 1) \o <<s[i]>>
  BY SubSeqRecursiveSecond
<1>5. SubSeq(s, i, i - 1) = <<>>
  BY <1>1, SubSeqEmpty
<1>6. <<s[i]>> \in Seq(S)
  OBVIOUS
<1>7. <<>> \o <<s[i]>> = <<s[i]>>
  BY <1>6, ConcatEmptySeq
<1> QED
  BY <1>3, <1>4, <1>5, <1>7

LEMMA PagesAreRows ==
  ASSUME NEW S, NEW s \in Seq(S)
  PROVE  FlattenSeq([i \in 1..Len(s) |-> PageOf(s, i, 1)]) = s
<1> DEFINE n == Len(s)
           q == [i \in 1..n |-> PageOf(s, i, 1)]
           h == [i \in 1..n |-> SubSeq(s, 1, i)]
           G == CHOOSE g : IsFlat(g, q)
<1>1. n \in Nat
  OBVIOUS
<1>2. \A i \in 1..n : PageOf(s, i, 1) = <<s[i]>>
  BY OnePage
<1>3. Len(q) = n /\ \A i \in 1..n : q[i] = <<s[i]>>
  BY <1>1, <1>2
<1>4. CASE n = 0
  BY <1>3, <1>4, FlatChosen
<1>5. CASE n # 0
  <2> HIDE DEF n, q
  <2>1. ASSUME NEW i \in 1..n, i # 1
        PROVE  i - 1 \in 1..n /\ SubSeq(s, 1, i) = SubSeq(s, 1, i - 1) \o q[i]
    <3>1. SubSeq(s, 1, i) = SubSeq(s, 1, i - 1) \o <<s[i]>>
      BY <1>1, SubSeqRecursiveSecond DEF n
    <3>2. i - 1 \in 1..n
      BY <1>1, <2>1
    <3>3. q[i] = <<s[i]>>
      BY <1>3
    <3> QED
      BY <3>1, <3>2, <3>3
  <2>2. SubSeq(s, 1, 1) = q[1] /\ SubSeq(s, 1, n) = s /\ 1 \in 1..n /\ n \in 1..n
    <3>1. 1 \in 1..n /\ n \in 1..n
      BY <1>1, <1>5
    <3>2. SubSeq(s, 1, 1) = SubSeq(s, 1, 0) \o <<s[1]>> /\ SubSeq(s, 1, 0) = <<>>
      <4>1. 1 - 1 = 0 /\ 1 \in 1..Len(s)
        BY <3>1 DEF n
      <4>2. SubSeq(s, 1, 1) = SubSeq(s, 1, 1 - 1) \o <<s[1]>>
        BY <4>1, SubSeqRecursiveSecond
      <4> QED
        BY <4>1, <4>2, SubSeqEmpty
    <3>3. SubSeq(s, 1, n) = s
      BY SubSeqFull DEF n
    <3> QED
      BY <1>3, <3>1, <3>2, <3>3
  <2>3. \A i \in 1..n : h[i] = SubSeq(s, 1, i)
    OBVIOUS
  <2>4. IsFlat(h, q)
    <3>1. h = [i \in 1..n |-> IF i = 1 THEN q[i] ELSE h[i - 1] \o q[i]]
      BY <2>1, <2>2, <2>3
    <3> QED
      BY <1>3, <3>1 DEF IsFlat
  <2> HIDE DEF h
  <2>5. IsFlat(G, q)
    BY <2>4
  <2>6. FlattenSeq(q) = G[n]
    BY <1>3, <1>5, FlatChosen
  <2> HIDE DEF G
  <2>7. \A i \in 1..n : G[i] = IF i = 1 THEN q[i] ELSE G[i - 1] \o q[i]
    BY <1>3, <2>5 DEF IsFlat
  <2> DEFINE T == {i \in 1..n : G[i] # SubSeq(s, 1, i)}
  <2>8. T = {}
    <3> SUFFICES ASSUME T # {} PROVE FALSE
      OBVIOUS
    <3>1. T \subseteq Nat
      BY <1>1
    <3>2. PICK i \in T : \A j \in T : i <= j
      <4> HIDE DEF T
      <4> QED
        BY <3>1, LeastNumber
    <3>3. i \in 1..n /\ G[i] # SubSeq(s, 1, i)
      OBVIOUS
    <3>4. i # 1
      BY <2>2, <2>7, <3>3
    <3>5. i - 1 \in 1..n /\ SubSeq(s, 1, i) = SubSeq(s, 1, i - 1) \o q[i]
      BY <2>1, <3>3, <3>4
    <3>6. i - 1 \notin T
      BY <1>1, <3>2, <3>3, <3>5
    <3>7. G[i - 1] = SubSeq(s, 1, i - 1)
      BY <3>5, <3>6
    <3> QED
      BY <2>7, <3>3, <3>4, <3>5, <3>7
  <2>9. G[n] = SubSeq(s, 1, n)
    BY <2>2, <2>8
  <2> QED
    BY <2>2, <2>6, <2>9 DEF q, n
<1> QED
  BY <1>4, <1>5

Columns == {"usage_total", "cycle_total_tokens", "calendar_total_tokens"}

\* Rows of accounts: each account once, its figures numbers or None.
AccountRows(rows) ==
    /\ IsFiniteSet(rows)
    /\ \A r \in rows : r.id \in Nat /\ \A f \in Columns : r[f] \in Int \cup {None}
    /\ \A r, q \in rows : r.id = q.id => r = q

Lower(x, y, f) == x[f] < y[f] \/ (x[f] = y[f] /\ x.id < y.id)

LEMMA ChosenInOrder ==
  ASSUME NEW S, IsFiniteSet(S), NEW R, Orders(R, S), NEW o,
         (\E s \in [1..Cardinality(S) -> S] :
            \A i, j \in 1..Cardinality(S) : i < j => <<s[i], s[j]>> \in R)
         => /\ o \in [1..Cardinality(S) -> S]
            /\ \A i, j \in 1..Cardinality(S) : i < j => <<o[i], o[j]>> \in R
  PROVE  o \in Seq(S) /\ ToSet(o) = S /\ Len(o) = Cardinality(S)
<1>1. PICK t : Ordered(t, R, S)
  BY CanBeSorted
<1>2. Ordered(o, R, S)
  BY <1>1 DEF Ordered
<1> QED
  BY <1>2, OrderedFacts

LEMMA LowerIsOrder ==
  ASSUME NEW S, AccountRows(S), NEW f \in Columns, \A r \in S : r[f] # None
  PROVE  /\ \A x \in S : ~Lower(x, x, f)
         /\ \A x, y \in S : x # y => Lower(x, y, f) \/ Lower(y, x, f)
         /\ \A x, y, z \in S : Lower(x, y, f) /\ Lower(y, z, f) => Lower(x, z, f)
<1>1. \A x \in S : x[f] \in Int /\ x.id \in Int
  BY DEF AccountRows
<1>2. ASSUME NEW x \in S PROVE ~Lower(x, x, f)
  BY <1>1 DEF Lower
<1>3. ASSUME NEW x \in S, NEW y \in S, x # y PROVE Lower(x, y, f) \/ Lower(y, x, f)
  <2>1. x.id # y.id
    BY <1>3 DEF AccountRows
  <2> QED
    BY <1>1, <2>1 DEF Lower
<1>4. ASSUME NEW x \in S, NEW y \in S, NEW z \in S, Lower(x, y, f), Lower(y, z, f)
      PROVE  Lower(x, z, f)
  BY <1>1, <1>4 DEF Lower
<1> QED
  BY <1>2, <1>3, <1>4

LEMMA SortedUp ==
  ASSUME NEW S, AccountRows(S), NEW f \in Columns, \A r \in S : r[f] # None,
         NEW o, o = CHOOSE s \in [1..Cardinality(S) -> S] :
                      \A i, j \in 1..Cardinality(S) : i < j => Lower(s[i], s[j], f)
  PROVE  o \in Seq(S) /\ ToSet(o) = S /\ Len(o) = Cardinality(S)
<1> DEFINE D == 1..Cardinality(S)
           R == {p \in S \X S : Lower(p[1], p[2], f)}
           InTurn(s) == \A i, j \in D : i < j => Lower(s[i], s[j], f)
           Chosen(s) == \A i, j \in D : i < j => <<s[i], s[j]>> \in R
<1>1. \A x, y \in S : <<x, y>> \in R <=> Lower(x, y, f)
  OBVIOUS
<1> HIDE DEF R
<1>2. Orders(R, S)
  BY <1>1, LowerIsOrder DEF Orders
<1>3. \A s \in [D -> S] : InTurn(s) <=> Chosen(s)
  BY <1>1
<1>4. (\E s \in [D -> S] : Chosen(s)) => o \in [D -> S] /\ Chosen(o)
  <2>1. (\E s \in [D -> S] : InTurn(s)) => o \in [D -> S] /\ InTurn(o)
    <3>1. o = CHOOSE s \in [D -> S] : InTurn(s)
      OBVIOUS
    <3> HIDE DEF D, InTurn
    <3> QED
      BY <3>1
  <2> HIDE DEF D, InTurn, Chosen
  <2> QED
    BY <1>3, <2>1
<1> QED
  BY <1>2, <1>4, ChosenInOrder DEF AccountRows

LEMMA SortedDown ==
  ASSUME NEW S, AccountRows(S), NEW f \in Columns, \A r \in S : r[f] # None,
         NEW o, o = CHOOSE s \in [1..Cardinality(S) -> S] :
                      \A i, j \in 1..Cardinality(S) : i < j => Lower(s[j], s[i], f)
  PROVE  o \in Seq(S) /\ ToSet(o) = S /\ Len(o) = Cardinality(S)
<1> DEFINE D == 1..Cardinality(S)
           R == {p \in S \X S : Lower(p[2], p[1], f)}
           InTurn(s) == \A i, j \in D : i < j => Lower(s[j], s[i], f)
           Chosen(s) == \A i, j \in D : i < j => <<s[i], s[j]>> \in R
<1>1. \A x, y \in S : <<x, y>> \in R <=> Lower(y, x, f)
  OBVIOUS
<1> HIDE DEF R
<1>2. Orders(R, S)
  BY <1>1, LowerIsOrder DEF Orders
<1>3. \A s \in [D -> S] : InTurn(s) <=> Chosen(s)
  BY <1>1
<1>4. (\E s \in [D -> S] : Chosen(s)) => o \in [D -> S] /\ Chosen(o)
  <2>1. (\E s \in [D -> S] : InTurn(s)) => o \in [D -> S] /\ InTurn(o)
    <3>1. o = CHOOSE s \in [D -> S] : InTurn(s)
      OBVIOUS
    <3> HIDE DEF D, InTurn
    <3> QED
      BY <3>1
  <2> HIDE DEF D, InTurn, Chosen
  <2> QED
    BY <1>3, <2>1
<1> QED
  BY <1>2, <1>4, ChosenInOrder DEF AccountRows

LEMMA SortedById ==
  ASSUME NEW S, AccountRows(S),
         NEW o, o = CHOOSE s \in [1..Cardinality(S) -> S] :
                      \A i, j \in 1..Cardinality(S) : i < j => s[i].id < s[j].id
  PROVE  o \in Seq(S) /\ ToSet(o) = S /\ Len(o) = Cardinality(S)
<1> DEFINE D == 1..Cardinality(S)
           R == {p \in S \X S : p[1].id < p[2].id}
           InTurn(s) == \A i, j \in D : i < j => s[i].id < s[j].id
           Chosen(s) == \A i, j \in D : i < j => <<s[i], s[j]>> \in R
<1>1. \A x \in S : x.id \in Int
  BY DEF AccountRows
<1>2. \A x, y \in S : <<x, y>> \in R <=> x.id < y.id
  OBVIOUS
<1> HIDE DEF R
<1>3. Orders(R, S)
  <2>1. ASSUME NEW x \in S, NEW y \in S, x # y PROVE x.id < y.id \/ y.id < x.id
    <3>1. x.id # y.id
      BY <2>1 DEF AccountRows
    <3> QED
      BY <1>1, <3>1
  <2>2. ASSUME NEW x \in S, NEW y \in S, NEW z \in S, x.id < y.id, y.id < z.id
        PROVE  x.id < z.id
    BY <1>1, <2>2
  <2>3. \A x \in S : ~(x.id < x.id)
    BY <1>1
  <2> QED
    BY <1>2, <2>1, <2>2, <2>3 DEF Orders
<1>4. \A s \in [D -> S] : InTurn(s) <=> Chosen(s)
  BY <1>2
<1>5. (\E s \in [D -> S] : Chosen(s)) => o \in [D -> S] /\ Chosen(o)
  <2>1. (\E s \in [D -> S] : InTurn(s)) => o \in [D -> S] /\ InTurn(o)
    <3>1. o = CHOOSE s \in [D -> S] : InTurn(s)
      OBVIOUS
    <3> HIDE DEF D, InTurn
    <3> QED
      BY <3>1
  <2> HIDE DEF D, InTurn, Chosen
  <2> QED
    BY <1>4, <2>1
<1> QED
  BY <1>3, <1>5, ChosenInOrder DEF AccountRows

LEMMA PartOfRows ==
  ASSUME NEW rows, AccountRows(rows), NEW S, S \subseteq rows
  PROVE  AccountRows(S)
  BY FS_Subset DEF AccountRows

\* The account list: those with a figure, then those without.
Valued(rows, f) == {r \in rows : r[f] # None}
Lists(s, S) == s \in Seq(S) /\ ToSet(s) = S /\ Len(s) = Cardinality(S)

LEMMA ListInOrder ==
  ASSUME NEW rows, AccountRows(rows), NEW f \in Columns, NEW reverse \in BOOLEAN
  PROVE  \E v, w : /\ Lists(v, Valued(rows, f)) /\ Lists(w, rows \ Valued(rows, f))
                   /\ _sort_admin_accounts(rows, f, reverse) = v \o w
<1> DEFINE V == Valued(rows, f)
           W == rows \ V
           up == CHOOSE s \in [1..Cardinality(V) -> V] :
                   \A i, j \in 1..Cardinality(V) : i < j => Lower(s[i], s[j], f)
           down == CHOOSE s \in [1..Cardinality(V) -> V] :
                   \A i, j \in 1..Cardinality(V) : i < j => Lower(s[j], s[i], f)
           others == CHOOSE s \in [1..Cardinality(W) -> W] :
                   \A i, j \in 1..Cardinality(W) : i < j => s[i].id < s[j].id
           v == IF reverse THEN down ELSE up
<1>1. _sort_admin_accounts(rows, f, reverse) = v \o others
  BY DEF _sort_admin_accounts, SortedBy, Lower, Valued
<1>2. AccountRows(V) /\ AccountRows(W) /\ \A r \in V : r[f] # None
  BY PartOfRows DEF Valued
<1> HIDE DEF V, W
<1>3. up \in Seq(V) /\ ToSet(up) = V /\ Len(up) = Cardinality(V)
  BY <1>2, SortedUp
<1>4. down \in Seq(V) /\ ToSet(down) = V /\ Len(down) = Cardinality(V)
  BY <1>2, SortedDown
<1>5. others \in Seq(W) /\ ToSet(others) = W /\ Len(others) = Cardinality(W)
  BY <1>2, SortedById
<1> HIDE DEF up, down, others
<1>6. v \in Seq(V) /\ ToSet(v) = V /\ Len(v) = Cardinality(V)
  BY <1>3, <1>4
<1> HIDE DEF v
<1> QED
  BY <1>1, <1>5, <1>6 DEF V, W, Lists

LEMMA ListedRow ==
  ASSUME IsFiniteSet(Account), TypeInv, NEW month \in Nat, NEW a \in bound
  PROVE  LET r == _to_admin_schema(a, month)
         IN  r.id = a /\ r.id \in Nat /\ \A f \in Columns : r[f] \in Int \cup {None}
<1> DEFINE u == usage[a]
           tokens == resolve_calendar_month(u, month, logs[a], Created, today)
           r == _to_admin_schema(a, month)
<1>1. a \in Account /\ a \in Nat /\ u \in Snapshot \cup {None}
  BY ReportAssumption DEF TypeInv, AccountsIn
<1>2. u # None => u.total \in Nat /\ u.start \in Int /\ u.pct \in Int
  <2>1. Tokens \subseteq Nat
    BY LedgerAssumption DEF Tokens
  <2>2. 0..100 \subseteq Int
    OBVIOUS
  <2> HIDE DEF u
  <2>3. ASSUME u \in Snapshot PROVE u.total \in Nat /\ u.start \in Int /\ u.pct \in Int
    BY <2>1, <2>2, <2>3, StartInt DEF Snapshot
  <2> QED
    BY <1>1, <2>3
<1>3. IsFiniteSet(logs[a]) /\ today \in Int /\ \A l \in logs[a] : l.delta \in Nat
  <2>1. Tokens \subseteq Nat /\ Day \subseteq Int
    BY LedgerAssumption DEF Tokens, Day
  <2> QED
    BY <1>1, <2>1 DEF TypeInv, LogsIn, WorldIn, LogRow
<1>4. tokens \in Nat
  BY <1>2, <1>3, ResolveNat
<1>5. /\ r.id = a
      /\ r.usage_total = IF u = None THEN None ELSE u.pct
      /\ r.cycle_total_tokens = IF u = None \/ u.total = 0 THEN None ELSE u.total
      /\ r.calendar_total_tokens = IF tokens = 0 THEN None ELSE tokens
  BY DEF _to_admin_schema
<1> HIDE DEF u, tokens, r
<1>6. ASSUME NEW f \in Columns PROVE r[f] \in Int \cup {None}
  BY <1>2, <1>4, <1>5, <1>6 DEF Columns
<1> QED
  BY <1>1, <1>5, <1>6 DEF r

LEMMA ListedRows ==
  ASSUME IsFiniteSet(Account), TypeInv, NEW month \in Nat
  PROVE  AccountRows(list_admin_accounts(month))
<1> DEFINE f == [a \in bound |-> _to_admin_schema(a, month)]
           rows == list_admin_accounts(month)
<1>1. IsFiniteSet(bound)
  BY FS_Subset DEF TypeInv, AccountsIn
<1>2. DOMAIN f = bound /\ rows = {f[a] : a \in bound}
  BY DEF list_admin_accounts
<1>3. \A a \in bound : f[a].id = a /\ f[a].id \in Nat /\ \A c \in Columns : f[a][c] \in Int \cup {None}
  BY ListedRow
<1> HIDE DEF f, rows
<1>4. IsFiniteSet(rows)
  BY <1>1, <1>2, FiniteImage
<1>5. \A r, q \in rows : r.id = q.id => r = q
  BY <1>2, <1>3
<1>6. \A r \in rows : r.id \in Nat /\ \A c \in Columns : r[c] \in Int \cup {None}
  BY <1>2, <1>3
<1> QED
  BY <1>4, <1>5, <1>6 DEF AccountRows, rows

LEMMA PagesCover == IsFiniteSet(Account) /\ TypeInv => PagesCoverAll
<1> SUFFICES ASSUME IsFiniteSet(Account), TypeInv, NEW f \in Columns, NEW reverse \in BOOLEAN
             PROVE  LET rows == list_admin_accounts(Month(today))
                        sorted == _sort_admin_accounts(rows, f, reverse)
                        shown == FlattenSeq([i \in 1..Cardinality(rows) |-> PageOf(sorted, i, 1)])
                    IN  /\ Len(shown) = Cardinality(rows) /\ ToSet(shown) = rows
                        /\ \A i \in 2..Len(shown) : shown[i][f] # None => shown[i - 1][f] # None
  BY DEF PagesCoverAll, Columns
<1> DEFINE rows == list_admin_accounts(Month(today))
           V == Valued(rows, f)
           W == rows \ V
           sorted == _sort_admin_accounts(rows, f, reverse)
           shown == FlattenSeq([i \in 1..Cardinality(rows) |-> PageOf(sorted, i, 1)])
<1>1. AccountRows(rows)
  <2>1. Month(today) \in Nat
    BY MonthIn DEF TypeInv, WorldIn
  <2> QED
    BY <2>1, ListedRows
<1> HIDE DEF rows
<1>2. PICK v, w : Lists(v, V) /\ Lists(w, W) /\ sorted = v \o w
  BY <1>1, ListInOrder
<1>3. Cardinality(rows) = Len(v) + Len(w)
  <2>1. IsFiniteSet(rows) /\ IsFiniteSet(V) /\ IsFiniteSet(W)
    BY <1>1, FS_Subset DEF AccountRows, Valued
  <2>2. V \cup W = rows /\ V \cap W = {}
    BY DEF Valued
  <2>3. Cardinality(V) \in Nat /\ Cardinality(W) \in Nat
    BY <2>1, FS_CardinalityType
  <2> HIDE DEF V, W
  <2>8. IsFiniteSet(V) /\ IsFiniteSet(W)
    BY <2>1
  <2>4. Cardinality(V \cup W) = Cardinality(V) + Cardinality(W) - Cardinality(V \cap W)
    BY ONLY <2>8, FS_Union
  <2>5. Cardinality(V \cap W) = 0
    BY <2>2, FS_EmptySet
  <2>6. Cardinality(V \cup W) = Cardinality(V) + Cardinality(W)
    BY <2>3, <2>4, <2>5
  <2>7. Len(v) = Cardinality(V) /\ Len(w) = Cardinality(W)
    BY <1>2 DEF Lists
  <2> QED
    BY <2>2, <2>6, <2>7
<1>4. v \in Seq(rows) /\ w \in Seq(rows) /\ Len(v) \in Nat /\ Len(w) \in Nat
  <2>1. V \subseteq rows /\ W \subseteq rows
    BY DEF Valued
  <2> HIDE DEF V, W
  <2> QED
    BY <1>2, <2>1 DEF Lists
<1>5. /\ sorted \in Seq(rows) /\ Len(sorted) = Len(v) + Len(w)
      /\ \A i \in 1..Len(v) + Len(w) : sorted[i] = IF i <= Len(v) THEN v[i] ELSE w[i - Len(v)]
  <2> HIDE DEF sorted
  <2> QED
    BY <1>2, <1>4, ConcatProperties
<1>6. shown = sorted
  <2> HIDE DEF sorted
  <2> QED
    BY <1>3, <1>5, PagesAreRows
<1> HIDE DEF sorted, shown
<1>7. \A i \in 1..Len(v) : v[i] \in V
  <2> HIDE DEF V
  <2> QED
    BY <1>2 DEF Lists
<1>8. \A i \in 1..Len(w) : w[i] \in W
  <2> HIDE DEF W
  <2> QED
    BY <1>2 DEF Lists
<1>9. ToSet(sorted) = rows
  <2> HIDE DEF V, W
  <2>1. ToSet(sorted) = ToSet(v) \cup ToSet(w)
    <3>1. DOMAIN sorted = 1..Len(v) + Len(w) /\ DOMAIN v = 1..Len(v) /\ DOMAIN w = 1..Len(w)
      BY <1>4, <1>5
    <3>2. ASSUME NEW i \in DOMAIN sorted PROVE sorted[i] \in ToSet(v) \cup ToSet(w)
      <4>1. CASE i <= Len(v)
        BY <1>4, <1>5, <3>1, <4>1 DEF ToSet
      <4>2. CASE ~(i <= Len(v))
        <5>1. i - Len(v) \in 1..Len(w) /\ sorted[i] = w[i - Len(v)]
          BY <1>4, <1>5, <3>1, <4>2
        <5> QED
          BY <3>1, <5>1 DEF ToSet
      <4> QED
        BY <4>1, <4>2
    <3>3. ASSUME NEW i \in DOMAIN v PROVE v[i] \in ToSet(sorted)
      <4>1. i \in DOMAIN sorted /\ sorted[i] = v[i]
        BY <1>4, <1>5, <3>1
      <4> QED
        BY <4>1 DEF ToSet
    <3>4. ASSUME NEW i \in DOMAIN w PROVE w[i] \in ToSet(sorted)
      <4> DEFINE k == i + Len(v)
      <4>1. k \in DOMAIN sorted /\ sorted[k] = w[i]
        <5>1. k \in 1..Len(v) + Len(w) /\ ~(k <= Len(v)) /\ k - Len(v) = i
          BY <1>4, <3>1
        <5> HIDE DEF k
        <5> QED
          BY <1>5, <3>1, <5>1
      <4> QED
        BY <4>1 DEF ToSet
    <3>5. ToSet(v) = {v[i] : i \in DOMAIN v} /\ ToSet(w) = {w[i] : i \in DOMAIN w}
          /\ ToSet(sorted) = {sorted[i] : i \in DOMAIN sorted}
      BY DEF ToSet
    <3> QED
      BY <3>2, <3>3, <3>4, <3>5
  <2>2. V \cup W = rows
    BY DEF V, W, Valued
  <2> QED
    BY <1>2, <2>1, <2>2 DEF Lists
<1>10. ASSUME NEW i \in 2..Len(sorted), sorted[i][f] # None
       PROVE  sorted[i - 1][f] # None
  <2>1. i \in 1..Len(v) + Len(w) /\ i - 1 \in 1..Len(v) + Len(w)
    BY <1>4, <1>5, <1>10
  <2>2. i <= Len(v)
    <3>1. SUFFICES ASSUME ~(i <= Len(v)) PROVE FALSE
      OBVIOUS
    <3>2. i - Len(v) \in 1..Len(w) /\ sorted[i] = w[i - Len(v)]
      BY <1>4, <1>5, <2>1, <3>1
    <3>3. w[i - Len(v)] \in W
      BY <1>8, <3>2
    <3> QED
      BY <1>10, <3>2, <3>3 DEF Valued
  <2>3. i - 1 \in 1..Len(v) /\ sorted[i - 1] = v[i - 1]
    <3>1. i - 1 \in 1..Len(v) /\ i - 1 <= Len(v)
      BY <1>4, <2>1, <2>2
    <3> QED
      BY <1>5, <2>1, <3>1
  <2> QED
    BY <1>7, <2>3 DEF Valued
<1> QED
  BY <1>3, <1>5, <1>6, <1>9, <1>10 DEF rows, sorted, shown

-----------------------------------------------------------------------------
\* No calendar row is missing: a month without one, of those the calendar still
\* keeps, has nothing booked in the log.
Covered(m) == Counts(m) /\ m > Month(today) - KeptMonths
NoGap(a) ==
    ~overlap[a] => \A m \in Nat \ DOMAIN calendar[a] :
                      Covered(m) => DeltaSum(InMonth(logs[a], m)) = 0
GapInv == \A a \in Account : NoGap(a)

LEMMA CoveredBefore ==
  ASSUME today \in Nat, today' \in Nat, today <= today', NEW m \in Nat, Covered(m)'
  PROVE  Covered(m)
<1>1. Month(today) \in Int /\ Month(today)' \in Int /\ Month(today) <= Month(today)'
  <2>1. Month(today') \in Nat /\ Month(today) \in Nat /\ Month(today) <= Month(today')
    BY MonthLater
  <2> QED
    BY <2>1 DEF Month
<1>2. LogDays \in Int /\ KeptMonths \in Int /\ MonthStart(m) \in Int
  BY LedgerAssumption, MetricsAssumption DEF MonthStart
<1>3. m # Month(Created) /\ MonthStart(m) >= today' - LogDays /\ m > Month(today)' - KeptMonths
  BY DEF Covered, Counts, Whole, MonthStart, Month
<1>4. MonthStart(m) >= today - LogDays
  BY <1>2, <1>3, LaterCutoff
<1>5. m > Month(today) - KeptMonths
  BY <1>1, <1>2, <1>3
<1> QED
  BY <1>3, <1>4, <1>5 DEF Covered, Counts, Whole

LEMMA GapStays ==
  ASSUME TimeShape, TimeShape', NEW a \in Account, BooksStay(a), NoGap(a)
  PROVE  NoGap(a)'
<1> SUFFICES ASSUME ~overlap'[a], NEW m \in Nat, m \notin DOMAIN calendar'[a], Covered(m)'
             PROVE  DeltaSum(InMonth(logs'[a], m)) = 0
  BY DEF NoGap, InMonth
<1>1. Covered(m)
  BY CoveredBefore DEF TimeShape, BooksStay
<1> QED
  BY <1>1 DEF NoGap, BooksStay

LEMMA GapCommit ==
  ASSUME BooksInv, SealInv, AgreeInv, GapInv, TimeShape', NEW p \in Proc, SyncCommit(p)
  PROVE  GapInv'
<1>1. UNCHANGED today /\ UNCHANGED overlap
  BY DEF SyncCommit
<1>2. TableShape /\ TableShape'
  BY CommitShape DEF AgreeInv
<1>3. today \in Int /\ today <= today' /\ today' \in Int
  <2>1. today \in Int
    BY TimeType DEF BooksInv
  <2> QED
    BY <1>1, <2>1
<1>4. CASE UNCHANGED <<logs, daily, calendar, counted>>
  BY <1>1, <1>3, <1>4, GapStays DEF BooksStay, GapInv, BooksInv, BookShape
<1>5. CASE ~(UNCHANGED <<logs, daily, calendar, counted>>)
  <2>1. PICK a \in Account, delta \in Nat : \E r, own :
           /\ r = sync[p] /\ r.pc = "commit" /\ r.acct = a /\ r.delta = delta
           /\ r.day \in Nat /\ r.day \in Day /\ r.at \in Int /\ Sound(r) /\ Shape(r)
           /\ own = Entry(r, delta)
           /\ logs' = [logs EXCEPT ![a] = logs[a] \cup {own}]
           /\ counted' = [counted EXCEPT ![a] = counted[a] + delta]
           /\ daily' = IF delta = 0 THEN daily
                       ELSE [daily EXCEPT ![a] = Put(daily[a], r.day, Booked(r, delta))]
           /\ calendar' = IF r.month = 0 THEN calendar
                          ELSE [calendar EXCEPT ![a] = Put(calendar[a], Month(r.day), r.month)]
    BY <1>2, <1>5, CommitWrites
  <2>2. PICK r, own :
           /\ r = sync[p] /\ r.pc = "commit" /\ r.acct = a /\ r.delta = delta
           /\ r.day \in Nat /\ r.day \in Day /\ r.at \in Int /\ Sound(r) /\ Shape(r)
           /\ own = Entry(r, delta)
           /\ logs' = [logs EXCEPT ![a] = logs[a] \cup {own}]
           /\ counted' = [counted EXCEPT ![a] = counted[a] + delta]
           /\ daily' = IF delta = 0 THEN daily
                       ELSE [daily EXCEPT ![a] = Put(daily[a], r.day, Booked(r, delta))]
           /\ calendar' = IF r.month = 0 THEN calendar
                          ELSE [calendar EXCEPT ![a] = Put(calendar[a], Month(r.day), r.month)]
    BY <2>1
  <2>3. ASSUME NEW b \in Account, b # a PROVE NoGap(b)'
    <3>1. logs'[b] = logs[b] /\ daily'[b] = daily[b] /\ calendar'[b] = calendar[b]
      BY <2>2, <2>3
    <3>2. counted'[b] = counted[b]
      BY <2>2, <2>3
    <3>3. BooksStay(b)
      BY <1>1, <1>3, <3>1, <3>2 DEF BooksStay
    <3> QED
      BY <3>3, GapStays DEF GapInv, BooksInv, BookShape
  <2>4. ASSUME ~overlap[a], NEW m \in Nat, m \notin DOMAIN calendar'[a], Covered(m)
        PROVE  DeltaSum(InMonth(logs'[a], m)) = 0
    <3>1. RightToWrite(r, a) /\ LogOrder(a)
      BY <2>2, <2>4 DEF AgreeInv, Agrees, Closing, BooksInv, Balanced
    <3>2. own \notin logs[a] /\ own.day = r.day /\ own.delta = delta
      <4>1. own.at = r.at /\ own.day = r.day /\ own.delta = delta
        BY <2>2 DEF Entry
      <4>2. \A l \in logs[a] : l.at < r.at /\ l.at \in Int
        BY <2>2, <3>1 DEF LogOrder, Stamped, Timed, BooksInv, BookShape, LogShape, Row
      <4> QED
        BY <2>2, <4>1, <4>2
    <3>3. IsFiniteSet(logs[a]) /\ \A l \in logs[a] : l.delta \in Nat
      BY <1>2 DEF TableShape
    <3>4. logs'[a] = logs[a] \cup {own}
      BY <2>2 DEF BooksInv, BookShape, LogShape
    <3>5. DeltaSum(InMonth(logs[a] \cup {own}, m))
            = IF Month(own.day) = m THEN DeltaSum(InMonth(logs[a], m)) + own.delta
              ELSE DeltaSum(InMonth(logs[a], m))
      <4>1. own.delta \in Nat /\ own.day \in Int
        BY <2>2, <3>2
      <4>2. \A k : DeltaSum(InMonth(logs[a] \cup {own}, k))
                     = IF Month(own.day) = k THEN DeltaSum(InMonth(logs[a], k)) + own.delta
                       ELSE DeltaSum(InMonth(logs[a], k))
        BY <3>2, <3>3, <4>1, PartGrows
      <4> QED
        BY <4>2
    <3>6. DeltaSum(InMonth(logs[a], m)) \in Nat
      <4>1. InMonth(logs[a], m) \in SUBSET logs[a]
        BY DEF InMonth
      <4> QED
        BY <3>3, <4>1, PartSum
    <3>7. m \notin DOMAIN calendar[a] /\ (Month(r.day) = m => r.month = 0)
      <4>1. CASE r.month = 0
        <5>1. calendar' = calendar
          BY <2>2, <4>1
        <5> QED
          BY <2>4, <4>1, <5>1
      <4>2. CASE r.month # 0
        <5>1. calendar'[a] = Put(calendar[a], Month(r.day), r.month)
          BY <1>2, <2>2, <4>2 DEF TableShape
        <5>2. DOMAIN calendar'[a] = DOMAIN calendar[a] \cup {Month(r.day)}
          BY <5>1, PutShape
        <5> QED
          BY <2>4, <5>2
      <4> QED
        BY <4>1, <4>2
    <3>8. DeltaSum(InMonth(logs[a], m)) = 0
      BY <2>4, <3>7 DEF GapInv, NoGap
    <3>9. Month(r.day) = m => delta = 0
      <4>1. Month(r.day) = m => r.month = DeltaSum(InMonth(logs[a], m)) + r.delta
        BY <2>4, <3>1 DEF RightToWrite, Covered
      <4> QED
        BY <2>2, <3>7, <3>8, <4>1
    <3>10. CASE Month(own.day) = m
      <4>1. own.delta = 0
        BY <2>2, <3>2, <3>9, <3>10
      <4>2. DeltaSum(InMonth(logs[a] \cup {own}, m)) = 0 + 0
        BY <3>5, <3>8, <3>10, <4>1
      <4> QED
        BY <3>4, <4>2
    <3>11. CASE Month(own.day) # m
      BY <3>4, <3>5, <3>8, <3>11
    <3> QED
      BY <3>10, <3>11
  <2>5. NoGap(a)'
    BY <1>1, <2>4 DEF NoGap, Covered, Counts, Whole, Month, MonthStart, InMonth
  <2> QED
    BY <2>3, <2>5 DEF GapInv
<1> QED
  BY <1>4, <1>5

LEMMA GapStand ==
  ASSUME TimeShape, TimeShape', GapInv, TablesStand
  PROVE  GapInv'
<1>1. ASSUME NEW a \in Account PROVE NoGap(a)'
  <2>1. BooksStay(a)
    BY DEF TablesStand, BooksStay
  <2> QED
    BY <2>1, GapStays DEF GapInv
<1> QED
  BY <1>1 DEF GapInv

LEMMA GapRepair ==
  ASSUME BooksInv, SealInv, AgreeInv, GapInv, TimeShape', NEW a \in Account,
         repair_calendar_token_deltas(a)
  PROVE  GapInv'
<1>1. /\ UNCHANGED <<today, counted>>
      /\ overlap' = [overlap EXCEPT ![a] = @ \/ \E p \in Proc : a \in Under(p)]
  BY DEF repair_calendar_token_deltas
<1>2. today \in Int /\ today <= today' /\ today' \in Int
  <2>1. today \in Int
    BY TimeType DEF BooksInv
  <2> QED
    BY <1>1, <2>1
<1>3. PICK rows : \E months, booked, total :
           /\ rows = {Anew(logs[a])[l] : l \in logs[a]}
           /\ \A l \in rows : /\ l.day \in Nat /\ l.day \in Day /\ l.delta \in Nat
                             /\ IsFunction(l) /\ "delta" \in DOMAIN l
           /\ IsFiniteSet(rows)
           /\ months = {Month(l.day) : l \in rows} /\ months \subseteq Nat
           /\ booked = {l.day : l \in {k \in rows : k.delta > 0}} /\ booked \subseteq Day
           /\ \A m \in Int : m # Month(Created) => total[m] = DeltaSum(InMonth(rows, m))
           /\ logs' = [logs EXCEPT ![a] = rows]
           /\ calendar' = [calendar EXCEPT ![a] =
                  [m \in DOMAIN calendar[a] \cup {n \in months : total[n] > 0} |->
                      IF m \in months THEN total[m] ELSE calendar[a][m]]]
           /\ daily' = [daily EXCEPT ![a] =
                  [d \in DOMAIN daily[a] \cup booked |-> DeltaSum(OnDay(rows, d))]]
  BY RepairWrites DEF AgreeInv
<1>4. PICK months, booked, total :
           /\ rows = {Anew(logs[a])[l] : l \in logs[a]}
           /\ \A l \in rows : /\ l.day \in Nat /\ l.day \in Day /\ l.delta \in Nat
                             /\ IsFunction(l) /\ "delta" \in DOMAIN l
           /\ IsFiniteSet(rows)
           /\ months = {Month(l.day) : l \in rows} /\ months \subseteq Nat
           /\ booked = {l.day : l \in {k \in rows : k.delta > 0}} /\ booked \subseteq Day
           /\ \A m \in Int : m # Month(Created) => total[m] = DeltaSum(InMonth(rows, m))
           /\ logs' = [logs EXCEPT ![a] = rows]
           /\ calendar' = [calendar EXCEPT ![a] =
                  [m \in DOMAIN calendar[a] \cup {n \in months : total[n] > 0} |->
                      IF m \in months THEN total[m] ELSE calendar[a][m]]]
           /\ daily' = [daily EXCEPT ![a] =
                  [d \in DOMAIN daily[a] \cup booked |-> DeltaSum(OnDay(rows, d))]]
  BY <1>3
<1>5. ASSUME NEW b \in Account, b # a PROVE NoGap(b)'
  <2>1. /\ logs'[b] = logs[b] /\ calendar'[b] = calendar[b] /\ counted'[b] = counted[b]
        /\ overlap[b] => overlap'[b]
    BY <1>1, <1>4, <1>5
  <2>2. daily'[b] = daily[b]
    BY <1>3, <1>5
  <2>3. BooksStay(b)
    BY <1>2, <2>1, <2>2 DEF BooksStay
  <2> QED
    BY <2>3, GapStays DEF GapInv, BooksInv, BookShape
<1>6. ASSUME NEW m \in Nat, m \notin DOMAIN calendar'[a], Covered(m)
      PROVE  DeltaSum(InMonth(logs'[a], m)) = 0
  <2>1. logs'[a] = rows
    BY <1>4 DEF BooksInv, BookShape, LogShape
  <2>2. DOMAIN calendar'[a] = DOMAIN calendar[a] \cup {n \in months : total[n] > 0}
    BY <1>4 DEF AgreeInv, TableShape
  <2>3. DeltaSum(InMonth(rows, m)) \in Nat
    <3>1. InMonth(rows, m) \in SUBSET rows
      BY DEF InMonth
    <3> QED
      BY <1>4, <3>1, PartSum
  <2>4. CASE m \in months
    <3>1. ~(total[m] > 0)
      BY <1>6, <2>2, <2>4
    <3>2. total[m] = DeltaSum(InMonth(rows, m))
      BY <1>4, <1>6 DEF Covered, Counts
    <3> QED
      BY <2>1, <2>3, <3>1, <3>2
  <2>5. CASE m \notin months
    <3>1. InMonth(rows, m) = {}
      BY <1>4, <2>5 DEF InMonth
    <3>2. DeltaSum({}) = 0
      BY FS_EmptySet, DeltaZero
    <3> QED
      BY <2>1, <3>1, <3>2
  <2> QED
    BY <2>4, <2>5
<1>7. NoGap(a)'
  BY <1>1, <1>6 DEF NoGap, Covered, Counts, Whole, Month, MonthStart, InMonth
<1> QED
  BY <1>5, <1>7 DEF GapInv

LEMMA GapCleanup ==
  ASSUME BooksInv, AgreeInv, GapInv, cleanup_cursor_usage_history
  PROVE  GapInv'
<1>1. /\ UNCHANGED <<today, overlap>>
      /\ logs' = [a \in Account |-> {l \in logs[a] : l.day >= today - LogDays}]
      /\ calendar' = [a \in Account |->
            Keep(calendar[a], {m \in 0..MaxDay : m >= Month(today) - (KeptMonths - 1)})]
  BY DEF cleanup_cursor_usage_history, ghosts
<1>2. today \in Nat /\ Month(today) \in Nat /\ KeptMonths \in Nat /\ MaxDay \in Nat /\ today <= MaxDay
  BY LedgerAssumption, MonthLater DEF BooksInv, BookShape, TimeShape
<1>3. ASSUME NEW a \in Account, ~overlap[a], NEW m \in Nat, m \notin DOMAIN calendar'[a], Covered(m)
      PROVE  DeltaSum(InMonth(logs'[a], m)) = 0
  <2>1. logs'[a] \subseteq logs[a] /\ IsFiniteSet(logs[a]) /\ \A l \in logs[a] : l.delta \in Nat
    BY <1>1 DEF AgreeInv, TableShape
  <2>2. \A l \in logs[a] : l.day \in Nat /\ l.day <= MaxDay
    <3>1. \A l \in logs[a] : l.day \in Nat /\ l.day <= today
      BY DEF BooksInv, BookShape, LogShape, Row
    <3> QED
      BY <1>2, <3>1
  <2>3. CASE m \in 0..MaxDay
    <3>1. m >= Month(today) - (KeptMonths - 1)
      BY <1>2, <1>3 DEF Covered
    <3>2. m \notin DOMAIN calendar[a]
      <4>1. PICK f, g, K : /\ f = calendar[a] /\ g = calendar'[a] /\ g = Keep(f, K) /\ m \in K
        BY <1>1, <2>3, <3>1
      <4>2. DOMAIN g = DOMAIN f \cap K
        BY <4>1, KeepShape
      <4> QED
        BY <1>3, <4>1, <4>2
    <3>3. DeltaSum(InMonth(logs[a], m)) = 0
      BY <1>3, <3>2 DEF GapInv, NoGap
    <3>4. InMonth(logs[a], m) \in SUBSET logs[a]
      BY DEF InMonth
    <3>5. IsFiniteSet(InMonth(logs[a], m)) /\ \A l \in InMonth(logs[a], m) : l.delta <= 0
      BY <2>1, <3>3, <3>4, PartSum
    <3>6. \A l \in InMonth(logs[a], m) : l.delta = 0
      BY <2>1, <3>4, <3>5
    <3>7. InMonth(logs'[a], m) \subseteq InMonth(logs[a], m)
      BY <2>1 DEF InMonth
    <3> QED
      BY <3>5, <3>6, <3>7, FS_Subset, DeltaZero
  <2>4. CASE m \notin 0..MaxDay
    <3>1. InMonth(logs'[a], m) = {}
      <4>1. SUFFICES ASSUME NEW l \in logs'[a], Month(l.day) = m PROVE FALSE
        BY DEF InMonth
      <4>2. l.day \in Nat /\ l.day <= MaxDay
        BY <2>1, <2>2
      <4>3. m <= l.day
        BY <4>1, <4>2, MonthLater
      <4> QED
        BY <1>2, <2>4, <4>2, <4>3
    <3>2. DeltaSum({}) = 0
      BY FS_EmptySet, DeltaZero
    <3> QED
      BY <3>1, <3>2
  <2> QED
    BY <2>3, <2>4
<1>4. ASSUME NEW a \in Account PROVE NoGap(a)'
  BY <1>1, <1>3 DEF NoGap, Covered, Counts, Whole, Month, MonthStart, InMonth
<1> QED
  BY <1>4 DEF GapInv

LEMMA InitGap == Init => GapInv
<1> SUFFICES ASSUME Init, NEW a \in Account, NEW m \in Nat
             PROVE  DeltaSum(InMonth(logs[a], m)) = 0
  BY DEF GapInv, NoGap
<1>1. InMonth(logs[a], m) = {}
  BY DEF Init, InMonth
<1> QED
  BY <1>1, FS_EmptySet, DeltaZero

LEMMA StepGap ==
  BooksInv /\ SealInv /\ AgreeInv /\ GapInv /\ [Next]_vars /\ BooksInv' => GapInv'
<1> SUFFICES ASSUME BooksInv, SealInv, AgreeInv, GapInv, [Next]_vars, BooksInv' PROVE GapInv'
  OBVIOUS
<1>1. TimeShape /\ TimeShape'
  BY DEF BooksInv, BookShape
<1>2. ASSUME NEW p \in Proc, SyncRecord(p) PROVE GapInv'
  <2>1. UNCHANGED <<today, logs, daily, calendar, counted>> /\ UNCHANGED overlap
    BY <1>2 DEF SyncRecord, tables, ghosts
  <2> QED
    BY <1>1, <2>1, TablesSame, GapStand
<1>3. ASSUME NEW p \in Proc, SyncCommit(p) PROVE GapInv'
  BY <1>1, <1>3, GapCommit
<1>4. ASSUME NEW a \in Account, repair_calendar_token_deltas(a) PROVE GapInv'
  BY <1>1, <1>4, GapRepair
<1>5. CASE cleanup_cursor_usage_history
  BY <1>5, GapCleanup
<1>6. CASE ~Books
  BY <1>1, <1>6, OthersStand, GapStand
<1> QED
  BY <1>2, <1>3, <1>4, <1>5, <1>6 DEF Books

-----------------------------------------------------------------------------
\* The daily rows of the accounts, and what sets of them amount to.
DayRow(a, d) == [account_id |-> a, usage_date |-> d, total_tokens |-> daily[a][d]]
Amounts(R) == [r \in R |-> r.total_tokens]

\* Daily rows hold natural numbers, for finitely many accounts.
DailyShape ==
    /\ IsFiniteSet(bound) /\ bound \subseteq Account /\ Account \subseteq Nat
    /\ \A a \in bound : /\ DOMAIN daily[a] \subseteq Nat
                        /\ \A d \in DOMAIN daily[a] : daily[a][d] \in Nat

LEMMA FetchedRows ==
  \A r : r \in _fetch_daily_usage_rows <=>
            \E a \in bound : \E d \in DOMAIN daily[a] : r = DayRow(a, d)
  BY DEF _fetch_daily_usage_rows, DayRow

LEMMA RowFields ==
  \A a, d : /\ DayRow(a, d).account_id = a /\ DayRow(a, d).usage_date = d
            /\ DayRow(a, d).total_tokens = daily[a][d]
  BY DEF DayRow

\* The rows of one day, and those of one account in some days.
RowsOn(d) == {r \in _fetch_daily_usage_rows : r.usage_date = d}
RowsOver(from, to) == {r \in _fetch_daily_usage_rows : r.usage_date >= from /\ r.usage_date <= to}
RowsOf(R, a) == {r \in R : r.account_id = a}

LEMMA DaySum ==
  ASSUME DailyShape, NEW d
  PROVE  TotalOver(Amounts(RowsOn(d))) = SumOf(bound, [a \in bound |-> At(daily[a], d)])
<1> DEFINE A == {a \in bound : d \in DOMAIN daily[a]}
           h == [a \in A |-> DayRow(a, d)]
           f == Amounts(RowsOn(d))
           g == [a \in bound |-> At(daily[a], d)]
<1>1. \A a \in bound : g[a] \in Nat /\ (a \notin A => g[a] = 0)
  BY DEF DailyShape, At
<1>2. \A a \in A : h[a] = DayRow(a, d) /\ g[a] = daily[a][d]
  BY DEF At
<1>3. RowsOn(d) = Image(h, A)
  <2>1. ASSUME NEW r \in RowsOn(d) PROVE r \in Image(h, A)
    <3>1. PICK a \in bound, e \in Nat : e \in DOMAIN daily[a] /\ r = DayRow(a, e)
      BY <2>1, FetchedRows DEF RowsOn, DailyShape
    <3>2. e = d
      BY <2>1, <3>1, RowFields DEF RowsOn
    <3> QED
      BY <3>1, <3>2 DEF Image
  <2>2. ASSUME NEW r \in Image(h, A) PROVE r \in RowsOn(d)
    <3>1. PICK a \in A : r = DayRow(a, d)
      BY <2>2 DEF Image
    <3> QED
      BY <3>1, FetchedRows, RowFields DEF RowsOn
  <2> QED
    BY <2>1, <2>2
<1>0. \A r \in RowsOn(d) : f[r] = r.total_tokens
  BY DEF Amounts
<1>4. \A a \in A : f[h[a]] = g[a] /\ g[a] \in Int
  <2> HIDE DEF f, g, h
  <2>1. ASSUME NEW a \in A PROVE f[h[a]] = g[a]
    <3>1. h[a] \in RowsOn(d)
      BY <1>3 DEF Image
    <3>2. h[a].total_tokens = daily[a][d]
      BY <1>2, RowFields
    <3> QED
      BY <1>0, <1>2, <3>1, <3>2
  <2>2. \A a \in A : g[a] \in Int
    BY <1>1
  <2> QED
    BY <2>1, <2>2
<1>5. \A a, b \in A : h[a] = h[b] => a = b
  BY <1>2, RowFields
<1>6. A \subseteq bound /\ IsFiniteSet(A) /\ IsFiniteSet(bound)
  BY FS_Subset DEF DailyShape
<1>7. TotalOver(f) = SumOf(RowsOn(d), f)
  BY TotalIsSum DEF Amounts
<1> HIDE DEF f, g, h, A
<1>8. SumOf(Image(h, A), f) = SumOf(A, g)
  BY <1>4, <1>5, <1>6, SumImage
<1>9. SumOf(A, g) = SumOf(bound, g)
  <2>1. \A a \in bound : g[a] \in Int
    BY <1>1
  <2>2. \A a \in bound \ A : g[a] = 0
    BY <1>1
  <2> QED
    BY <1>6, <2>1, <2>2, SumSupport
<1>10. TotalOver(f) = SumOf(bound, g)
  BY <1>3, <1>7, <1>8, <1>9
<1> QED
  BY <1>10 DEF f, g

LEMMA UserSum ==
  ASSUME DailyShape, NEW a \in bound, NEW from \in Int, NEW to \in Int
  PROVE  TotalOver(Amounts(RowsOf(RowsOver(from, to), a)))
            = SumOf(from..to, [d \in from..to |-> At(daily[a], d)])
<1> DEFINE D == {d \in DOMAIN daily[a] : from <= d /\ d <= to}
           h == [d \in D |-> DayRow(a, d)]
           R == RowsOf(RowsOver(from, to), a)
           f == Amounts(R)
           g == [d \in from..to |-> At(daily[a], d)]
<1>1. DOMAIN daily[a] \subseteq Nat /\ D \subseteq from..to
  BY DEF DailyShape
<1>2. \A d \in from..to : g[d] \in Nat /\ (d \notin D => g[d] = 0)
  BY DEF DailyShape, At
<1>3. \A d \in D : h[d] = DayRow(a, d) /\ g[d] = daily[a][d]
  BY <1>1 DEF At
<1>4. R = Image(h, D)
  <2>1. ASSUME NEW r \in R PROVE r \in Image(h, D)
    <3>1. r \in _fetch_daily_usage_rows /\ r.usage_date >= from /\ r.usage_date <= to /\ r.account_id = a
      BY <2>1 DEF RowsOf, RowsOver
    <3>2. PICK b \in bound, d \in Nat : d \in DOMAIN daily[b] /\ r = DayRow(b, d)
      BY <3>1, FetchedRows DEF DailyShape
    <3>3. b = a /\ from <= d /\ d <= to
      BY <3>1, <3>2, RowFields
    <3> QED
      BY <3>2, <3>3 DEF Image
  <2>2. ASSUME NEW r \in Image(h, D) PROVE r \in R
    <3>1. PICK d \in D : r = DayRow(a, d)
      BY <2>2 DEF Image
    <3>2. r \in _fetch_daily_usage_rows
      BY <3>1, FetchedRows
    <3>3. r.usage_date = d /\ r.account_id = a
      BY <3>1, RowFields
    <3> QED
      BY <1>1, <3>2, <3>3 DEF RowsOf, RowsOver
  <2> QED
    BY <2>1, <2>2
<1>0. \A r \in R : f[r] = r.total_tokens
  BY DEF Amounts
<1>5. \A d \in D : f[h[d]] = g[d] /\ g[d] \in Int
  <2>2. \A d \in D : g[d] \in Int
    BY <1>1, <1>2
  <2> HIDE DEF f, g, h, R
  <2>1. ASSUME NEW d \in D PROVE f[h[d]] = g[d]
    <3>1. h[d] \in R
      BY <1>4 DEF Image
    <3>2. h[d].total_tokens = daily[a][d]
      BY <1>3, RowFields
    <3> QED
      BY <1>0, <1>3, <3>1, <3>2
  <2> QED
    BY <2>1, <2>2
<1>6. \A d, e \in D : h[d] = h[e] => d = e
  BY <1>3, RowFields
<1>7. IsFiniteSet(from..to) /\ IsFiniteSet(D)
  BY <1>1, FS_Interval, FS_Subset
<1>8. TotalOver(f) = SumOf(R, f)
  BY TotalIsSum DEF Amounts
<1> HIDE DEF f, g, h, D, R
<1>9. SumOf(Image(h, D), f) = SumOf(D, g)
  BY <1>5, <1>6, <1>7, SumImage
<1>10. SumOf(D, g) = SumOf(from..to, g)
  <2>1. \A d \in from..to : g[d] \in Int
    BY <1>2
  <2>2. \A d \in (from..to) \ D : g[d] = 0
    BY <1>2
  <2> QED
    BY <1>1, <1>7, <2>1, <2>2, SumSupport
<1>11. TotalOver(f) = SumOf(from..to, g)
  BY <1>4, <1>8, <1>9, <1>10
<1> QED
  BY <1>11 DEF f, g, R

-----------------------------------------------------------------------------
\* The team's trend, and the span of days of a month.
Trend(month) == get_admin_dashboard(month).daily.daily_team_trend
FromDay(m) == MonthStart(m)
ToDay(m) == IF m = Month(today) THEN today ELSE MonthStart(m + 1) - 1
Booking(a, m) == DeltaSum(InMonth(logs[a], m))

LEMMA TrendShown ==
  \A month : Trend(month) = [d \in TrendSpan(month).from..TrendSpan(month).to |->
                                TotalOver(Amounts(RowsOn(d)))]
  BY DEF Trend, get_admin_dashboard, build_daily_dashboard_stats, RowsOn, Amounts

LEMMA MonthSpan ==
  ASSUME NEW m \in Nat
  PROVE  TrendSpan(m).from = FromDay(m) /\ TrendSpan(m).to = ToDay(m)
<1>1. m # None
  BY NoneAssumption
<1> QED
  BY <1>1 DEF TrendSpan, FromDay, ToDay

LEMMA SpanOfMonth ==
  ASSUME today \in Nat, NEW m \in Nat, m <= Month(today)
  PROVE  /\ FromDay(m) \in Nat /\ ToDay(m) \in Int /\ ToDay(m) <= today
         /\ \A d \in Nat : d <= today => (d \in FromDay(m)..ToDay(m) <=> Month(d) = m)
<1>1. MonthDays \in Nat /\ MonthDays > 0 /\ Month(today) \in Nat
  BY MetricsAssumption, MonthLater
<1>2. MonthStart(m) \in Nat /\ MonthStart(m + 1) \in Nat /\ MonthStart(m + 1) = MonthStart(m) + MonthDays
  BY <1>1 DEF MonthStart
<1>3. \A d \in Nat : Month(d) \in Nat /\ MonthStart(Month(d)) <= d /\ d < MonthStart(Month(d)) + MonthDays
  BY <1>1 DEF MonthStart, Month
<1>4. \A x, y \in Nat : x < y => MonthStart(x) + MonthDays <= MonthStart(y)
  <2>1. ASSUME NEW x \in Nat, NEW y \in Nat, x < y PROVE (x + 1) * MonthDays <= y * MonthDays
    BY <1>1, <2>1
  <2>2. \A x \in Nat : (x + 1) * MonthDays = x * MonthDays + MonthDays
    BY <1>1
  <2> QED
    BY <2>1, <2>2 DEF MonthStart
<1>5. ToDay(m) \in Int /\ ToDay(m) <= today
  <2>1. CASE m = Month(today)
    BY <2>1 DEF ToDay
  <2>2. CASE m # Month(today)
    <3>1. MonthStart(m) + MonthDays <= MonthStart(Month(today))
      BY <1>1, <1>4, <2>2
    <3>2. MonthStart(Month(today)) <= today /\ MonthStart(Month(today)) \in Nat
      BY <1>1, <1>3 DEF MonthStart
    <3> QED
      BY <1>2, <2>2, <3>1, <3>2 DEF ToDay
  <2> QED
    BY <2>1, <2>2
<1>6. ASSUME NEW d \in Nat, d <= today, Month(d) = m PROVE d \in FromDay(m)..ToDay(m)
  BY <1>2, <1>3, <1>6 DEF FromDay, ToDay
<1>7. ASSUME NEW d \in Nat, d <= today, d \in FromDay(m)..ToDay(m) PROVE Month(d) = m
  <2>1. d >= MonthStart(m) /\ d < MonthStart(m) + MonthDays
    <3>1. CASE m = Month(today)
      <4>1. today < MonthStart(m) + MonthDays
        BY <1>3, <3>1
      <4> QED
        BY <1>2, <1>1, <1>7, <4>1 DEF FromDay
    <3>2. CASE m # Month(today)
      BY <1>2, <1>7, <3>2 DEF FromDay, ToDay
    <3> QED
      BY <3>1, <3>2
  <2>2. Month(d) \in Nat /\ MonthStart(Month(d)) <= d /\ d < MonthStart(Month(d)) + MonthDays
        /\ MonthStart(Month(d)) \in Nat
    BY <1>1, <1>3 DEF MonthStart
  <2>3. ~(Month(d) < m)
    <3>1. SUFFICES ASSUME Month(d) < m PROVE FALSE
      OBVIOUS
    <3>2. MonthStart(Month(d)) + MonthDays <= MonthStart(m)
      BY <1>4, <2>2, <3>1
    <3> QED
      BY <1>1, <1>2, <2>1, <2>2, <3>2
  <2>4. ~(m < Month(d))
    <3>1. SUFFICES ASSUME m < Month(d) PROVE FALSE
      OBVIOUS
    <3>2. MonthStart(m) + MonthDays <= MonthStart(Month(d))
      BY <1>4, <2>2, <3>1
    <3> QED
      BY <1>1, <1>2, <2>1, <2>2, <3>2
  <2> QED
    BY <2>2, <2>3, <2>4
<1> QED
  BY <1>2, <1>5, <1>6, <1>7 DEF FromDay

-----------------------------------------------------------------------------
\* The daily rows of an account add up to what its log has of the month.
LEMMA AccountMonth ==
  ASSUME BooksInv, AgreeInv, NEW a \in Account, ~overlap[a],
         NEW m \in Nat, m <= Month(today), Whole(MonthStart(m))
  PROVE  SumOf(FromDay(m)..ToDay(m), [d \in FromDay(m)..ToDay(m) |-> At(daily[a], d)]) = Booking(a, m)
<1> DEFINE D == FromDay(m)..ToDay(m)
           f == [d \in D |-> At(daily[a], d)]
           rows == logs[a]
<1>1. today \in Nat /\ today <= MaxDay /\ MaxDay \in Nat
  BY LedgerAssumption DEF BooksInv, BookShape, TimeShape
<1>2. /\ FromDay(m) \in Nat /\ ToDay(m) \in Int /\ ToDay(m) <= today
      /\ \A d \in Nat : d <= today => (d \in D <=> Month(d) = m)
  BY <1>1, SpanOfMonth
<1>3. IsFiniteSet(D)
  BY <1>2, FS_Interval
<1>4. \A d \in D : d \in Nat /\ d <= today /\ d >= FromDay(m)
  BY <1>1, <1>2
<1>5. IsFiniteSet(rows) /\ \A l \in rows : l.delta \in Int
  BY DEF AgreeInv, TableShape
<1>6. \A l \in rows : l.day \in Nat /\ l.day <= today
  BY DEF BooksInv, BookShape, LogShape, Row
<1>7. \A d \in D : f[d] = At(daily[a], d)
  OBVIOUS
<1> HIDE DEF D, f
<1>8. ASSUME NEW d \in D PROVE f[d] = DeltaSum(OfDays(rows, {d}))
  <2>1. d \in Day
    BY <1>1, <1>4, LedgerAssumption DEF Day
  <2>2. Whole(d)
    <3>1. d >= MonthStart(m) /\ MonthStart(m) >= today - LogDays /\ LogDays \in Int /\ d \in Int /\ MonthStart(m) \in Int
      BY <1>2, <1>4, LedgerAssumption DEF Whole, FromDay
    <3> QED
      BY <1>1, <3>1 DEF Whole
  <2>3. At(daily[a], d) = DeltaSum(OnDay(rows, d))
    BY <2>1, <2>2 DEF AgreeInv, Agrees, DayRight
  <2>4. OnDay(rows, d) = OfDays(rows, {d})
    BY DEF OnDay, OfDays
  <2> QED
    BY <1>7, <2>3, <2>4
<1>9. SumOf(D, f) = DeltaSum(OfDays(rows, D))
  BY <1>3, <1>5, <1>8, DaysAddUp
<1>10. OfDays(rows, D) = InMonth(rows, m)
  BY <1>2, <1>6 DEF OfDays, InMonth
<1> QED
  BY <1>9, <1>10 DEF D, f, Booking

\* The team's trend of a month adds up to what the logs have of the month.
LEMMA TeamMonth ==
  ASSUME BooksInv, AgreeInv, DailyShape, \A a \in Account : ~overlap[a],
         NEW m \in Nat, m <= Month(today), Whole(MonthStart(m))
  PROVE  TotalOver(Trend(m)) = SumOf(bound, [a \in bound |-> Booking(a, m)])
<1> DEFINE D == FromDay(m)..ToDay(m)
           f == [a \in bound |-> [d \in D |-> At(daily[a], d)]]
           k == [d \in D |-> [a \in bound |-> At(daily[a], d)]]
           g == [a \in bound |-> Booking(a, m)]
           h == Trend(m)
<1>1. today \in Nat
  BY DEF BooksInv, BookShape, TimeShape
<1>2. FromDay(m) \in Nat /\ ToDay(m) \in Int
  BY <1>1, SpanOfMonth
<1>3. IsFiniteSet(D) /\ IsFiniteSet(bound) /\ bound \subseteq Account
  BY <1>2, FS_Interval DEF DailyShape
<1>4. DOMAIN h = D /\ \A d \in D : h[d] = TotalOver(Amounts(RowsOn(d)))
  BY TrendShown, MonthSpan
<1>5. LineSums(h, k, D, bound)
  <2>1. ASSUME NEW d \in D PROVE h[d] = SumOf(bound, k[d])
    <3>1. k[d] = [a \in bound |-> At(daily[a], d)]
      OBVIOUS
    <3> QED
      BY <1>4, <3>1, DaySum
  <2> QED
    BY <2>1 DEF LineSums
<1>6. LineSums(g, f, bound, D)
  <2>1. ASSUME NEW a \in bound PROVE g[a] = SumOf(D, f[a])
    <3>1. f[a] = [d \in D |-> At(daily[a], d)] /\ g[a] = Booking(a, m)
      OBVIOUS
    <3>2. SumOf(D, [d \in D |-> At(daily[a], d)]) = Booking(a, m)
      BY <1>3, AccountMonth
    <3> QED
      BY <3>1, <3>2
  <2> QED
    BY <2>1 DEF LineSums
<1>7. Transposed(f, k, bound, D)
  <2>1. \A a \in bound, d \in D : At(daily[a], d) \in Int
    BY DEF DailyShape, At
  <2> QED
    BY <2>1 DEF Transposed
<1>8. TotalOver(h) = SumOf(D, h)
  BY <1>4, TotalIsSum
<1> HIDE DEF D, f, k, g, h
<1>9. SumOf(bound, g) = SumOf(D, h)
  BY <1>3, <1>5, <1>6, <1>7, SumSwap
<1> QED
  BY <1>8, <1>9 DEF g, h

\* Day by day the team's trend is the sum of the accounts' own pages.
LEMMA TrendOfPages ==
  ASSUME DailyShape
  PROVE  LET trend == get_admin_dashboard(None).daily.daily_team_trend
             of == [a \in bound |-> build_account_daily_usage(a, TrendDays)]
         IN  \A d \in DOMAIN trend : trend[d] = TotalOver([a \in bound |-> of[a][d]])
<1> DEFINE D == (today - TrendDays + 1)..today
           of == [a \in bound |-> build_account_daily_usage(a, TrendDays)]
<1>1. DOMAIN Trend(None) = D /\ \A d \in D : Trend(None)[d] = TotalOver(Amounts(RowsOn(d)))
  BY TrendShown DEF TrendSpan
<1>2. ASSUME NEW d \in D PROVE Trend(None)[d] = TotalOver([a \in bound |-> of[a][d]])
  <2> DEFINE f == [a \in bound |-> of[a][d]]
             g == [a \in bound |-> At(daily[a], d)]
  <2>1. \A a \in bound : f[a] = g[a]
    BY DEF build_account_daily_usage, At
  <2>2. TotalOver(f) = SumOf(bound, f)
    BY TotalIsSum
  <2>3. Trend(None)[d] = SumOf(bound, g)
    BY <1>1, DaySum
  <2> HIDE DEF f, g
  <2>4. SumOf(bound, f) = SumOf(bound, g)
    BY <2>1, SumSame DEF DailyShape
  <2>5. Trend(None)[d] = TotalOver(f)
    BY <2>2, <2>3, <2>4
  <2> QED
    BY <2>5 DEF f
<1> HIDE DEF of
<1>3. \A d \in DOMAIN Trend(None) : Trend(None)[d] = TotalOver([a \in bound |-> of[a][d]])
  BY <1>1, <1>2
<1> QED
  BY <1>3 DEF Trend, of

-----------------------------------------------------------------------------
\* The calendar rows hold what the logs have of the month.
LEMMA CalendarMonth ==
  ASSUME AgreeInv, GapInv, DailyShape, \A a \in Account : ~overlap[a],
         NEW m \in Nat, m # Month(Created), Retained(m)
  PROVE  TotalOver([a \in bound |-> CalendarOf(a, m)]) = SumOf(bound, [a \in bound |-> Booking(a, m)])
<1> DEFINE f == [a \in bound |-> CalendarOf(a, m)]
           g == [a \in bound |-> Booking(a, m)]
<1>1. Counts(m) /\ Covered(m)
  BY DEF Counts, Covered, Whole, Retained
<1>2. ASSUME NEW a \in bound PROVE CalendarOf(a, m) = Booking(a, m)
  <2>1. a \in Account /\ ~overlap[a]
    BY DEF DailyShape
  <2>2. CASE m \in DOMAIN calendar[a]
    BY <1>1, <2>1, <2>2 DEF AgreeInv, Agrees, MonthRight, CalendarOf, Booking
  <2>3. CASE m \notin DOMAIN calendar[a]
    BY <1>1, <2>1, <2>3 DEF GapInv, NoGap, CalendarOf, Booking
  <2> QED
    BY <2>2, <2>3
<1>3. \A a \in bound : f[a] = g[a]
  BY <1>2
<1>4. TotalOver(f) = SumOf(bound, f)
  BY TotalIsSum
<1> HIDE DEF f, g
<1>5. SumOf(bound, f) = SumOf(bound, g)
  BY <1>3, SumSame DEF DailyShape
<1> QED
  BY <1>4, <1>5 DEF f, g

\* The figure of the account list.
LEMMA ListedMonth ==
  ASSUME NEW m \in Nat, m # Month(Created), NEW a, Booking(a, m) \in Int
  PROVE  /\ _to_admin_schema(a, m).id = a
         /\ _to_admin_schema(a, m).calendar_total_tokens =
                IF Booking(a, m) = 0 THEN None ELSE Booking(a, m)
<1>1. resolve_calendar_month(usage[a], m, logs[a], Created, today) = Booking(a, m)
  BY DEF resolve_calendar_month, _incremental_month_tokens, Booking, InMonth
<1> QED
  BY <1>1 DEF _to_admin_schema

\* The summary of a month adds up the increments in the logs.
LEMMA SummaryMonth ==
  ASSUME AgreeInv, DailyShape, NEW m \in Nat, m # Month(Created)
  PROVE  get_admin_dashboard(m).board.total_calendar_tokens
            = SumOf(bound, [a \in bound |-> Booking(a, m)])
<1> DEFINE A == {a \in bound : Booking(a, m) # 0}
           h == [a \in A |-> _to_admin_schema(a, m)]
           R == {q \in list_admin_accounts(m) : q.calendar_total_tokens # None}
           f == [r \in R |-> r.calendar_total_tokens]
           g == [a \in bound |-> Booking(a, m)]
<1>1. get_admin_dashboard(m).board.total_calendar_tokens = TotalOver(f)
  <2>1. m # None
    BY NoneAssumption
  <2>2. get_admin_dashboard(m).board = build_admin_dashboard(list_admin_accounts(m))
    BY <2>1 DEF get_admin_dashboard
  <2> QED
    BY <2>2 DEF build_admin_dashboard
<1>2. ASSUME NEW a \in bound PROVE Booking(a, m) \in Int
  <2>1. /\ IsFiniteSet(logs[a]) /\ \A l \in logs[a] : l.delta \in Nat
        /\ InMonth(logs[a], m) \in SUBSET logs[a]
    BY DEF AgreeInv, TableShape, DailyShape, InMonth
  <2>2. DeltaSum(InMonth(logs[a], m)) \in Nat
    BY <2>1, PartSum
  <2> QED
    BY <2>2 DEF Booking
<1>3. ASSUME NEW a \in bound
      PROVE  /\ _to_admin_schema(a, m).id = a
             /\ _to_admin_schema(a, m).calendar_total_tokens =
                    IF Booking(a, m) = 0 THEN None ELSE Booking(a, m)
  BY <1>2, ListedMonth
<1>4. \A r : r \in list_admin_accounts(m) <=> \E a \in bound : r = _to_admin_schema(a, m)
  BY DEF list_admin_accounts
<1>5. \A x \in Int : x # None
  BY NoneAssumption
<1>6. \A a \in A : h[a] = _to_admin_schema(a, m) /\ a \in bound /\ Booking(a, m) # 0
  OBVIOUS
<1>7. R = Image(h, A)
  <2>1. ASSUME NEW r \in R PROVE r \in Image(h, A)
    <3>1. PICK a \in bound : r = _to_admin_schema(a, m)
      BY <1>4, <2>1
    <3>2. Booking(a, m) # 0
      BY <1>3, <2>1, <3>1
    <3> QED
      BY <3>1, <3>2 DEF Image
  <2>2. ASSUME NEW r \in Image(h, A) PROVE r \in R
    <3>1. PICK a \in A : r = _to_admin_schema(a, m)
      BY <2>2 DEF Image
    <3>2. r.calendar_total_tokens # None
      BY <1>2, <1>3, <1>5, <1>6, <3>1
    <3> QED
      BY <1>4, <3>1, <3>2
  <2> QED
    BY <2>1, <2>2
<1>8. \A r \in R : f[r] = r.calendar_total_tokens
  OBVIOUS
<1>9. A \subseteq bound /\ IsFiniteSet(A) /\ IsFiniteSet(bound)
  BY FS_Subset DEF DailyShape
<1>10. /\ \A a \in bound : g[a] \in Int /\ g[a] = Booking(a, m)
       /\ \A a \in bound \ A : g[a] = 0
  BY <1>2
<1>11. TotalOver(f) = SumOf(R, f)
  BY TotalIsSum
<1> HIDE DEF A, h, R, f, g
<1>12. \A a \in A : g[a] \in Int /\ f[h[a]] = g[a]
  <2>1. ASSUME NEW a \in A PROVE f[h[a]] = g[a]
    <3>1. h[a] \in R
      BY <1>7 DEF Image
    <3> QED
      BY <1>3, <1>6, <1>8, <1>10, <3>1
  <2> QED
    BY <1>9, <1>10, <2>1
<1>13. \A a, b \in A : h[a] = h[b] => a = b
  BY <1>3, <1>6
<1>14. SumOf(Image(h, A), f) = SumOf(A, g)
  BY <1>9, <1>12, <1>13, SumImage
<1>15. SumOf(A, g) = SumOf(bound, g)
  BY <1>9, <1>10, SumSupport
<1>16. TotalOver(f) = SumOf(bound, g)
  BY <1>7, <1>11, <1>14, <1>15
<1> QED
  BY <1>1, <1>16 DEF f, g, R

-----------------------------------------------------------------------------
\* Rankings by tokens.  Rows of users: each user once, with a natural number.
UserRows(S) ==
    /\ IsFiniteSet(S)
    /\ \A r \in S : r.id \in Nat /\ r.total_tokens \in Nat
    /\ \A r, q \in S : r.id = q.id => r = q

More(x, y) == x.total_tokens > y.total_tokens \/ (x.total_tokens = y.total_tokens /\ x.id < y.id)

LEMMA MoreIsOrder ==
  ASSUME NEW S, UserRows(S)
  PROVE  /\ \A x \in S : ~More(x, x)
         /\ \A x, y \in S : x # y => More(x, y) \/ More(y, x)
         /\ \A x, y, z \in S : More(x, y) /\ More(y, z) => More(x, z)
<1>1. \A x \in S : x.total_tokens \in Int /\ x.id \in Int
  BY DEF UserRows
<1>2. ASSUME NEW x \in S PROVE ~More(x, x)
  BY <1>1 DEF More
<1>3. ASSUME NEW x \in S, NEW y \in S, x # y PROVE More(x, y) \/ More(y, x)
  <2>1. x.id # y.id
    BY <1>3 DEF UserRows
  <2> QED
    BY <1>1, <2>1 DEF More
<1>4. ASSUME NEW x \in S, NEW y \in S, NEW z \in S, More(x, y), More(y, z) PROVE More(x, z)
  BY <1>1, <1>4 DEF More
<1> QED
  BY <1>2, <1>3, <1>4

LEMMA SortedByMore ==
  ASSUME NEW S, UserRows(S),
         NEW o, o = CHOOSE s \in [1..Cardinality(S) -> S] :
                      \A i, j \in 1..Cardinality(S) : i < j => More(s[i], s[j])
  PROVE  Lists(o, S)
<1> DEFINE D == 1..Cardinality(S)
           R == {p \in S \X S : More(p[1], p[2])}
           InTurn(s) == \A i, j \in D : i < j => More(s[i], s[j])
           Chosen(s) == \A i, j \in D : i < j => <<s[i], s[j]>> \in R
<1>1. \A x, y \in S : <<x, y>> \in R <=> More(x, y)
  OBVIOUS
<1> HIDE DEF R
<1>2. Orders(R, S)
  BY <1>1, MoreIsOrder DEF Orders
<1>3. \A s \in [D -> S] : InTurn(s) <=> Chosen(s)
  BY <1>1
<1>4. (\E s \in [D -> S] : Chosen(s)) => o \in [D -> S] /\ Chosen(o)
  <2>1. (\E s \in [D -> S] : InTurn(s)) => o \in [D -> S] /\ InTurn(o)
    <3>1. o = CHOOSE s \in [D -> S] : InTurn(s)
      OBVIOUS
    <3> HIDE DEF D, InTurn
    <3> QED
      BY <3>1
  <2> HIDE DEF D, InTurn, Chosen
  <2> QED
    BY <1>3, <2>1
<1>5. o \in Seq(S) /\ ToSet(o) = S /\ Len(o) = Cardinality(S)
  BY <1>2, <1>4, ChosenInOrder DEF UserRows
<1> QED
  BY <1>5 DEF Lists

LEMMA RankedRows ==
  ASSUME NEW S, UserRows(S)
  PROVE  \E o : Lists(o, S) /\ Ranking(S, "total_tokens") = SubSeq(o, 1, Min({Top, Len(o)}))
<1> DEFINE o == CHOOSE s \in [1..Cardinality(S) -> S] :
                  \A i, j \in 1..Cardinality(S) : i < j => More(s[i], s[j])
<1>1. {r \in S : r["total_tokens"] # None} = S
  BY NoneAssumption DEF UserRows
<1>2. Ranking(S, "total_tokens") = SubSeq(o, 1, Min({Top, Len(o)}))
  BY <1>1 DEF Ranking, SortedBy, More
<1>3. Lists(o, S)
  BY SortedByMore
<1> HIDE DEF o
<1> QED
  BY <1>2, <1>3

\* What is shown of a list of rows never has more tokens than all of them, and
\* has them all where the whole list is shown.
LEMMA ShownSum ==
  ASSUME NEW S, UserRows(S), NEW o, Lists(o, S), NEW n \in Nat, n <= Len(o),
         NEW shown, shown = SubSeq(o, 1, n)
  PROVE  LET users == TotalOver([i \in DOMAIN shown |-> shown[i].total_tokens])
             all == SumOf(S, Amounts(S))
         IN  users <= all /\ (n = Len(o) => users = all)
<1> DEFINE g == [i \in DOMAIN shown |-> shown[i].total_tokens]
           f == Amounts(S)
           D == 1..n
<1>1. o \in Seq(S) /\ ToSet(o) = S /\ Len(o) = Cardinality(S) /\ Len(o) \in Nat
  BY DEF Lists
<1>2. DOMAIN shown = D /\ \A i \in D : shown[i] = o[i] /\ o[i] \in S
  <2>1. \A i \in 1..n : o[i] \in S
    BY <1>1
  <2>2. /\ Len(shown) = IF 1 <= n THEN n - 1 + 1 ELSE 0
        /\ \A i \in 1..n - 1 + 1 : shown[i] = o[1 + i - 1]
        /\ shown \in Seq(S)
    BY <2>1, SubSeqProperties
  <2>3. n - 1 + 1 = n /\ \A i \in 1..n : 1 + i - 1 = i
    OBVIOUS
  <2>4. Len(shown) = n /\ DOMAIN shown = 1..n
    BY <2>2
  <2>5. ASSUME NEW i \in 1..n PROVE shown[i] = o[i]
    <3>1. i \in 1..n - 1 + 1
      BY <2>3
    <3>2. shown[i] = o[1 + i - 1]
      BY <2>2, <3>1
    <3> QED
      BY <2>3, <3>2
  <2> QED
    BY <2>1, <2>4, <2>5
<1>3. \A i, j \in 1..Len(o) : o[i] = o[j] => i = j
  <2> DEFINE E == 1..Len(o)
  <2>1. IsFiniteSet(E) /\ Cardinality(E) = Cardinality(S)
    BY <1>1, FS_Interval
  <2>2. o \in Surjection(E, S)
    BY <1>1 DEF Surjection, ToSet
  <2>3. o \in Injection(E, S)
    BY <2>1, <2>2, FS_SurjSameCardinalityImpliesInj
  <2> QED
    BY <2>3 DEF Injection, IsInjective
<1>4. \A r \in S : f[r] \in Nat /\ f[r] = r.total_tokens
  BY DEF Amounts, UserRows
<1>5. \A i \in D : g[i] = o[i].total_tokens
  BY <1>2
<1>6. TotalOver(g) = SumOf(D, g)
  BY <1>2, TotalIsSum
<1>7. IsFiniteSet(D) /\ D \subseteq 1..Len(o)
  BY <1>1, FS_Interval
<1> HIDE DEF f, g, D
<1>8. \A i \in D : g[i] \in Int /\ f[o[i]] = g[i]
  BY <1>2, <1>4, <1>5
<1>9. \A i, j \in D : o[i] = o[j] => i = j
  BY <1>3, <1>7
<1>10. IsFiniteSet(Image(o, D)) /\ SumOf(Image(o, D), f) = SumOf(D, g)
  <2>1. PICK h, E : h = o /\ E = D
    OBVIOUS
  <2>2. /\ IsFiniteSet(E) /\ \A x, y \in E : h[x] = h[y] => x = y
        /\ \A x \in E : g[x] \in Int /\ f[h[x]] = g[x]
    BY <1>7, <1>8, <1>9, <2>1
  <2>3. IsFiniteSet(Image(h, E)) /\ SumOf(Image(h, E), f) = SumOf(E, g)
    BY <2>2, SumImage
  <2> QED
    BY <2>1, <2>3
<1>11. Image(o, D) \subseteq S
  BY <1>2 DEF Image
<1>12. SumOf(Image(o, D), f) <= SumOf(S, f)
  BY <1>4, <1>11, SumPart DEF UserRows
<1>13. n = Len(o) => Image(o, D) = S
  <2>1. ASSUME n = Len(o), NEW r \in S PROVE r \in Image(o, D)
    <3>1. PICK i \in 1..Len(o) : o[i] = r
      BY <1>1 DEF ToSet
    <3> QED
      BY <2>1, <3>1 DEF Image, D
  <2> QED
    BY <1>11, <2>1
<1>14. TotalOver(g) <= SumOf(S, f) /\ (n = Len(o) => TotalOver(g) = SumOf(S, f))
  BY <1>6, <1>10, <1>12, <1>13
<1> QED
  BY <1>14 DEF f, g

-----------------------------------------------------------------------------
\* The users of some daily rows, and what each of them spent.
UsersOf(R) == {r.account_id : r \in {q \in R : q.total_tokens > 0}}
UserRow(R, a) == [id |-> a, total_tokens |-> TotalOver(Amounts(RowsOf(R, a)))]
UserTotals(R) == {UserRow(R, a) : a \in UsersOf(R)}

LEMMA UserTrendsShown ==
  ASSUME NEW m \in Nat
  PROVE  get_admin_dashboard(m).daily.daily_user_trends
            = Ranking(UserTotals(RowsOver(FromDay(m), ToDay(m))), "total_tokens")
<1>1. get_admin_dashboard(m).daily = build_daily_dashboard_stats(_fetch_daily_usage_rows, m)
  BY DEF get_admin_dashboard
<1>2. build_daily_dashboard_stats(_fetch_daily_usage_rows, m).daily_user_trends
        = Ranking(UserTotals(RowsOver(TrendSpan(m).from, TrendSpan(m).to)), "total_tokens")
  BY DEF build_daily_dashboard_stats, UserTotals, UserRow, UsersOf, RowsOf, RowsOver, Amounts
<1> QED
  BY <1>1, <1>2, MonthSpan

\* The users of a month are among the accounts; what they spent adds up to what
\* the logs of all accounts have of the month.
LEMMA UsersMonth ==
  ASSUME BooksInv, AgreeInv, DailyShape, \A a \in Account : ~overlap[a],
         NEW m \in Nat, m <= Month(today), Whole(MonthStart(m))
  PROVE  LET S == UserTotals(RowsOver(FromDay(m), ToDay(m)))
         IN  /\ UserRows(S) /\ Cardinality(S) <= Cardinality(bound)
             /\ SumOf(S, Amounts(S)) = SumOf(bound, [a \in bound |-> Booking(a, m)])
<1> DEFINE R == RowsOver(FromDay(m), ToDay(m))
           U == UsersOf(R)
           S == UserTotals(R)
           h == [a \in U |-> UserRow(R, a)]
           g == [a \in bound |-> Booking(a, m)]
           f == Amounts(S)
           D == FromDay(m)..ToDay(m)
<1>1. FromDay(m) \in Int /\ ToDay(m) \in Int /\ IsFiniteSet(bound) /\ bound \subseteq Account
  <2>1. today \in Nat
    BY DEF BooksInv, BookShape, TimeShape
  <2> QED
    BY <2>1, SpanOfMonth DEF DailyShape
<1>2. \A r \in R : \E a \in bound : \E d \in DOMAIN daily[a] :
           r = DayRow(a, d) /\ FromDay(m) <= d /\ d <= ToDay(m)
  <2>1. ASSUME NEW r \in R
        PROVE  \E a \in bound : \E d \in DOMAIN daily[a] :
                  r = DayRow(a, d) /\ FromDay(m) <= d /\ d <= ToDay(m)
    <3>1. r \in _fetch_daily_usage_rows /\ r.usage_date >= FromDay(m) /\ r.usage_date <= ToDay(m)
      BY DEF RowsOver
    <3>2. PICK a \in bound, d \in Nat : d \in DOMAIN daily[a] /\ r = DayRow(a, d)
      BY <3>1, FetchedRows DEF DailyShape
    <3>3. FromDay(m) <= d /\ d <= ToDay(m)
      BY <1>1, <3>1, <3>2, RowFields
    <3> QED
      BY <3>2, <3>3
  <2> QED
    BY <2>1
<1>3. U \subseteq bound
  <2>1. ASSUME NEW a \in U PROVE a \in bound
    <3>1. PICK r \in R : r.account_id = a
      BY DEF UsersOf
    <3> QED
      BY <1>2, <3>1, RowFields
  <2> QED
    BY <2>1
<1>4. ASSUME NEW a \in bound
      PROVE  /\ Booking(a, m) \in Nat
             /\ UserRow(R, a).total_tokens = Booking(a, m) /\ UserRow(R, a).id = a
  <2>1. /\ IsFiniteSet(logs[a]) /\ \A l \in logs[a] : l.delta \in Nat
        /\ InMonth(logs[a], m) \in SUBSET logs[a]
    BY <1>1 DEF AgreeInv, TableShape, InMonth
  <2>2. DeltaSum(InMonth(logs[a], m)) \in Nat
    BY <2>1, PartSum
  <2>3. TotalOver(Amounts(RowsOf(R, a))) = SumOf(D, [d \in D |-> At(daily[a], d)])
    BY <1>1, UserSum
  <2>4. SumOf(D, [d \in D |-> At(daily[a], d)]) = Booking(a, m)
    BY <1>1, AccountMonth
  <2> QED
    BY <2>2, <2>3, <2>4 DEF Booking, UserRow
<1>5. ASSUME NEW a \in bound, a \notin U PROVE Booking(a, m) = 0
  <2> DEFINE k == [d \in D |-> At(daily[a], d)]
  <2>1. ASSUME NEW d \in D PROVE k[d] = 0
    <3>1. CASE d \in DOMAIN daily[a]
      <4>1. daily[a][d] \in Nat
        BY <3>1 DEF DailyShape
      <4>2. DayRow(a, d) \in R
        <5>1. DayRow(a, d) \in _fetch_daily_usage_rows
          BY <3>1, FetchedRows
        <5>2. DayRow(a, d).usage_date = d
          BY RowFields
        <5> QED
          BY <1>1, <2>1, <5>1, <5>2 DEF RowsOver
      <4>3. DayRow(a, d).account_id = a /\ DayRow(a, d).total_tokens = daily[a][d]
        BY RowFields
      <4>4. ~(daily[a][d] > 0)
        BY <1>5, <4>2, <4>3 DEF UsersOf
      <4> QED
        BY <3>1, <4>1, <4>4 DEF At
    <3>2. CASE d \notin DOMAIN daily[a]
      BY <3>2 DEF At
    <3> QED
      BY <3>1, <3>2
  <2>2. IsFiniteSet(D)
    BY <1>1, FS_Interval
  <2>3. SumOf(D, k) = Booking(a, m)
    BY <1>1, AccountMonth
  <2> HIDE DEF k
  <2>4. SumOf(D, k) = 0
    BY <2>1, <2>2, SumZero
  <2> QED
    BY <2>3, <2>4
<1>6. \A a \in U : h[a] = UserRow(R, a) /\ h[a].id = a /\ h[a].total_tokens = g[a]
  BY <1>3, <1>4
<1>7. /\ \A a \in bound : g[a] \in Nat
      /\ \A a \in bound \ U : g[a] = 0
  BY <1>4, <1>5
<1>8. S = Image(h, U)
  BY DEF UserTotals, Image
<1>9. \A r \in S : f[r] = r.total_tokens
  BY DEF Amounts
<1>10. IsFiniteSet(U) /\ Cardinality(U) <= Cardinality(bound) /\ Cardinality(U) \in Nat
       /\ Cardinality(bound) \in Nat
  BY <1>1, <1>3, FS_Subset, FS_CardinalityType
<1>11. h \in Surjection(U, S)
  BY <1>8 DEF Surjection, Image
<1>12. IsFiniteSet(S) /\ Cardinality(S) <= Cardinality(U)
  BY <1>10, <1>11, FS_Surjection
<1> HIDE DEF R, U, S, h, g, f, D
<1>13. UserRows(S)
  <2>1. \A r \in S : \E a \in U : r = h[a]
    BY <1>8 DEF Image
  <2>2. \A a \in U : h[a].id \in Nat /\ h[a].total_tokens \in Nat
    BY <1>1, <1>3, <1>6, <1>7, ReportAssumption
  <2>3. \A r \in S : r.id \in Nat /\ r.total_tokens \in Nat
    BY <2>1, <2>2
  <2>4. ASSUME NEW r \in S, NEW q \in S, r.id = q.id PROVE r = q
    BY <1>6, <2>1, <2>4
  <2> QED
    BY <1>12, <2>3, <2>4 DEF UserRows
<1>14. SumOf(S, f) = SumOf(U, g)
  <2>1. \A a \in U : g[a] \in Int /\ f[h[a]] = g[a]
    <3>1. ASSUME NEW a \in U PROVE f[h[a]] = g[a]
      <4>1. h[a] \in S
        BY <1>8 DEF Image
      <4> QED
        BY <1>6, <1>9, <4>1
    <3> QED
      BY <1>3, <1>7, <3>1
  <2>2. \A a, b \in U : h[a] = h[b] => a = b
    BY <1>6
  <2>3. SumOf(Image(h, U), f) = SumOf(U, g)
    BY <1>10, <2>1, <2>2, SumImage
  <2> QED
    BY <1>8, <2>3
<1>15. SumOf(U, g) = SumOf(bound, g)
  <2>1. \A a \in bound : g[a] \in Int
    BY <1>7
  <2> QED
    BY <1>1, <1>3, <1>7, <2>1, SumSupport
<1>16. Cardinality(S) <= Cardinality(bound)
  <2>1. Cardinality(S) \in Nat
    BY <1>12, FS_CardinalityType
  <2> QED
    BY <1>10, <1>12, <2>1
<1>17. UserRows(S) /\ Cardinality(S) <= Cardinality(bound) /\ SumOf(S, f) = SumOf(bound, g)
  BY <1>13, <1>14, <1>15, <1>16
<1> QED
  BY <1>17 DEF S, R, f, g

-----------------------------------------------------------------------------
\* The pages of a month, put together.
LEMMA DailyTypes ==
  ASSUME IsFiniteSet(Account), AccountsIn, RowsIn
  PROVE  DailyShape
<1>1. IsFiniteSet(bound) /\ bound \subseteq Account
  BY FS_Subset DEF AccountsIn
<1>2. Day \subseteq Nat
  BY LedgerAssumption DEF Day
<1>3. \A a \in bound : /\ DOMAIN daily[a] \subseteq Nat
                       /\ \A d \in DOMAIN daily[a] : daily[a][d] \in Nat
  BY <1>1, <1>2 DEF RowsIn, IsRows
<1> QED
  BY <1>1, <1>3, ReportAssumption DEF DailyShape

\* What the trends of the users shown add up to.
LEMMA UsersShown ==
  ASSUME BooksInv, AgreeInv, DailyShape, \A a \in Account : ~overlap[a],
         NEW m \in Nat, m <= Month(today), Whole(MonthStart(m)),
         NEW shown, shown = get_admin_dashboard(m).daily.daily_user_trends
  PROVE  LET users == TotalOver([i \in DOMAIN shown |-> shown[i].total_tokens])
             all == SumOf(bound, [a \in bound |-> Booking(a, m)])
         IN  users <= all /\ (Cardinality(bound) <= Top => users = all)
<1> DEFINE users == TotalOver([i \in DOMAIN shown |-> shown[i].total_tokens])
           all == SumOf(bound, [a \in bound |-> Booking(a, m)])
<1>1. PICK S : S = UserTotals(RowsOver(FromDay(m), ToDay(m)))
  OBVIOUS
<1>2. /\ UserRows(S) /\ Cardinality(S) <= Cardinality(bound)
      /\ SumOf(S, Amounts(S)) = all
  BY <1>1, UsersMonth
<1>3. shown = Ranking(S, "total_tokens")
  BY <1>1, UserTrendsShown
<1>4. PICK o : Lists(o, S) /\ Ranking(S, "total_tokens") = SubSeq(o, 1, Min({Top, Len(o)}))
  BY <1>2, RankedRows
<1>5. PICK n : n = Min({Top, Len(o)})
  OBVIOUS
<1>6. /\ Len(o) = Cardinality(S) /\ Len(o) \in Nat /\ Top \in Nat /\ Cardinality(bound) \in Nat
  <2>1. IsFiniteSet(S) /\ IsFiniteSet(bound)
    BY <1>2 DEF UserRows, DailyShape
  <2> QED
    BY <1>4, <2>1, FS_CardinalityType, ReportAssumption DEF Lists
<1>7. n \in {Top, Len(o)} /\ n <= Top /\ n <= Len(o)
  <2>1. Top \in Int /\ Len(o) \in Int
    BY <1>6
  <2> QED
    BY <1>5, <2>1, MinOfTwo
<1>8. n \in Nat /\ (Cardinality(bound) <= Top => n = Len(o))
  BY <1>2, <1>6, <1>7
<1>9. shown = SubSeq(o, 1, n)
  BY <1>3, <1>4, <1>5
<1>10. /\ users <= SumOf(S, Amounts(S))
       /\ n = Len(o) => users = SumOf(S, Amounts(S))
  BY <1>2, <1>4, <1>7, <1>8, <1>9, ShownSum
<1> HIDE DEF users, all
<1>11. users <= all /\ (Cardinality(bound) <= Top => users = all)
  BY <1>2, <1>8, <1>10
<1> QED
  BY <1>11 DEF users, all

LEMMA TrendAddsUp ==
  ASSUME BooksInv, AgreeInv, GapInv, DailyShape
  PROVE  TeamTrendAddsUp
<1>1. LET trend == get_admin_dashboard(None).daily.daily_team_trend
          of == [a \in bound |-> build_account_daily_usage(a, TrendDays)]
      IN  \A d \in DOMAIN trend : trend[d] = TotalOver([a \in bound |-> of[a][d]])
  BY TrendOfPages
<1>2. ASSUME AllSerial, NEW m \in (0..Month(today)) \ {Month(Created)}, Retained(m)
      PROVE  LET page == get_admin_dashboard(m)
                 shown == page.daily.daily_user_trends
                 team == TotalOver(page.daily.daily_team_trend)
                 users == TotalOver([i \in DOMAIN shown |-> shown[i].total_tokens])
             IN  /\ team = TotalOver([a \in bound |-> CalendarOf(a, m)])
                 /\ team = page.board.total_calendar_tokens
                 /\ users <= team
                 /\ Cardinality(bound) <= Top => users = team
  <2>1. \A a \in Account : ~overlap[a]
    BY <1>2 DEF AllSerial, Serial
  <2>2. today \in Nat /\ Month(today) \in Nat
    BY MonthLater, MetricsAssumption DEF BooksInv, BookShape, TimeShape
  <2>3. m \in Nat /\ m <= Month(today) /\ m # Month(Created) /\ Whole(MonthStart(m))
    BY <1>2, <2>2 DEF Retained, Whole
  <2>4. PICK all : all = SumOf(bound, [a \in bound |-> Booking(a, m)])
    OBVIOUS
  <2>5. PICK shown : shown = get_admin_dashboard(m).daily.daily_user_trends
    OBVIOUS
  <2>6. TotalOver(get_admin_dashboard(m).daily.daily_team_trend) = all
    BY <2>1, <2>3, <2>4, TeamMonth DEF Trend
  <2>7. TotalOver([a \in bound |-> CalendarOf(a, m)]) = all
    BY <1>2, <2>1, <2>3, <2>4, CalendarMonth
  <2>8. get_admin_dashboard(m).board.total_calendar_tokens = all
    BY <2>3, <2>4, SummaryMonth
  <2>9. LET users == TotalOver([i \in DOMAIN shown |-> shown[i].total_tokens])
        IN  users <= all /\ (Cardinality(bound) <= Top => users = all)
    BY <2>1, <2>3, <2>4, <2>5, UsersShown
  <2> QED
    BY <2>5, <2>6, <2>7, <2>8, <2>9
<1> QED
  BY <1>1, <1>2 DEF TeamTrendAddsUp

-----------------------------------------------------------------------------
\* For every number of accounts and syncs: every billing cycle in an account's
\* history, and its current one, is ranked once in the month in which it ends,
\* the current one with the figures of the account row.
THEOREM CyclesEndOnce ==
  ASSUME IsFiniteSet(Account), IsFiniteSet(Proc)
  PROVE  Spec => []MonthEndOnce
<1>1. Finite
  BY DEF Finite
<1>2. Init => TypeInv
  BY <1>1, InitTypes
<1>3. TypeInv /\ [Next]_vars => TypeInv'
  BY <1>1, StepTypes
<1>4. TypeInv => MonthEndOnce
  BY EachEndOnce DEF TypeInv
<1> QED
  BY <1>2, <1>3, <1>4, PTL DEF Spec

\* For every number of accounts: page after page, by every column and in both
\* directions, the account list shows each account once, those without a figure
\* last.
THEOREM PagesShowAll ==
  ASSUME IsFiniteSet(Account), IsFiniteSet(Proc)
  PROVE  Spec => []PagesCoverAll
<1>1. Finite
  BY DEF Finite
<1>2. Init => TypeInv
  BY <1>1, InitTypes
<1>3. TypeInv /\ [Next]_vars => TypeInv'
  BY <1>1, StepTypes
<1>4. TypeInv => PagesCoverAll
  BY PagesCover
<1> QED
  BY <1>2, <1>3, <1>4, PTL DEF Spec

\* For any accounts, processes, disturbances and lengths of a month: on the
\* dashboard of a month the daily trend of the team adds up to the total of the
\* summary and to the calendar rows of the accounts, and the users shown to no
\* more, or to the same where there is room for all of them, unless syncs of an
\* account have overlapped, for every month that log and calendar still hold but
\* that of the binding; and day by day the latest trend is the sum of the pages
\* of the accounts.
THEOREM TrendsAddUp ==
  ASSUME IsFiniteSet(Account), IsFiniteSet(Proc)
  PROVE  Spec => []TeamTrendAddsUp
<1>1. Finite
  BY DEF Finite
<1> DEFINE Ledgers == SealInv /\ BooksInv /\ AgreeInv
<1>2. Init => TypeInv
  BY <1>1, InitTypes
<1>3. TypeInv /\ [Next]_vars => TypeInv'
  BY <1>1, StepTypes
<1>4. Init => Ledgers
  BY InitSeal, InitBooks, InitAgree
<1>5. Ledgers /\ [Next]_vars => Ledgers'
  BY StepGood, StepBooks, StepAgree DEF AllGood, Good, SealInv, AllBalanced, BooksInv, AllAgree,
     AgreeInv
<1>6. Init => GapInv
  BY InitGap
<1>7. Ledgers /\ Ledgers' /\ GapInv /\ [Next]_vars => GapInv'
  BY StepGap
<1>8. TypeInv /\ Ledgers /\ GapInv => TeamTrendAddsUp
  <2>1. TypeInv => DailyShape
    BY DailyTypes DEF TypeInv
  <2> QED
    BY <2>1, TrendAddsUp
<1> HIDE DEF Ledgers
<1> QED
  BY <1>2, <1>3, <1>4, <1>5, <1>6, <1>7, <1>8, PTL DEF Spec

=============================================================================
