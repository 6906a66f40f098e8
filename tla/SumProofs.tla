----------------------------- MODULE SumProofs -----------------------------
(***************************************************************************)
(* Sums over finite sets, as UsageMetrics takes them: lemmas for the       *)
(* proofs about the ledgers.  A fact about every finite set is proved by   *)
(* looking at a smallest set that would refute it (LeastSet).              *)
(***************************************************************************)
EXTENDS UsageMetrics, FiniteSetTheorems, WellFoundedInduction, TLAPS

SumOf(S, f) == TotalOf(S, LAMBDA x : f[x])

\* The element a fold takes first.
Some(s) == CHOOSE x \in s : TRUE

\* g gives the sum of f over every subset of S.
IsSum(g, S, f) ==
    g = [s \in SUBSET S |-> IF s = {} THEN 0 ELSE f[Some(s)] + g[s \ {Some(s)}]]

LEMMA SumChosen == \A S, f : SumOf(S, f) = (CHOOSE g : IsSum(g, S, f))[S]
  BY DEF SumOf, TotalOf, MapThenSumSet, MapThenFoldSet, IsSum, Some

LEMMA LeastSet ==
  ASSUME NEW S, IsFiniteSet(S), NEW T, T \subseteq SUBSET S, T # {}
  PROVE  \E s \in T : \A t \in T : t \subseteq s => t = s
<1>1. IsWellFoundedOn(StrictSubsetOrdering(S), SUBSET S)
  BY FS_StrictSubsetOrderingWellFounded, FS_FiniteSubsetsOfFinite
<1>2. \E s \in T : \A t \in T : ~(<<t, s>> \in StrictSubsetOrdering(S))
  BY <1>1, WFMin
<1> QED
  BY <1>2 DEF StrictSubsetOrdering

LEMMA SomeIn == \A s : s # {} => Some(s) \in s /\ s \ {Some(s)} \subseteq s /\ s \ {Some(s)} # s
  BY DEF Some

\* Two such functions agree where both are defined.
LEMMA SumsAgree ==
  ASSUME NEW S, IsFiniteSet(S), NEW U, NEW f, NEW g, NEW h, IsSum(g, S, f), IsSum(h, U, f),
         NEW r \in SUBSET S, r \subseteq U
  PROVE  g[r] = h[r]
<1> DEFINE T == {s \in SUBSET S : s \subseteq U /\ g[s] # h[s]}
<1>1. SUFFICES ASSUME T # {} PROVE FALSE
  OBVIOUS
<1>2. PICK s \in T : \A t \in T : t \subseteq s => t = s
  <2>1. T \subseteq SUBSET S
    OBVIOUS
  <2> HIDE DEF T
  <2> QED
    BY <1>1, <2>1, LeastSet
<1>3. /\ g[s] = IF s = {} THEN 0 ELSE f[Some(s)] + g[s \ {Some(s)}]
      /\ h[s] = IF s = {} THEN 0 ELSE f[Some(s)] + h[s \ {Some(s)}]
  BY DEF IsSum
<1>4. s # {}
  BY <1>3
<1>5. s \ {Some(s)} \notin T
  BY <1>2, <1>4, SomeIn
<1>6. g[s \ {Some(s)}] = h[s \ {Some(s)}]
  BY <1>5
<1> QED
  BY <1>3, <1>6

\* There is one for every finite set.
LEMMA SumExists ==
  ASSUME NEW S, IsFiniteSet(S), NEW f
  PROVE  \E g : IsSum(g, S, f)
<1> DEFINE T == {s \in SUBSET S : ~ \E g : IsSum(g, s, f)}
<1>1. SUFFICES ASSUME T # {} PROVE FALSE
  OBVIOUS
<1>2. PICK s \in T : \A t \in T : t \subseteq s => t = s
  <2>1. T \subseteq SUBSET S
    OBVIOUS
  <2> HIDE DEF T
  <2> QED
    BY <1>1, <2>1, LeastSet
<1> DEFINE G(t) == CHOOSE g : IsSum(g, t, f)
<1>3. ASSUME NEW t \in SUBSET s, t # s
      PROVE  IsSum(G(t), t, f)
  BY <1>2, <1>3
<1> DEFINE value(t) == IF t = {} THEN 0 ELSE f[Some(t)] + G(t \ {Some(t)})[t \ {Some(t)}]
           h == [t \in SUBSET s |-> value(t)]
<1> HIDE DEF G
<1>4. ASSUME NEW t \in SUBSET s, t # s
      PROVE  G(t)[t] = value(t)
  <2>1. IsSum(G(t), t, f)
    BY <1>3, <1>4
  <2>2. CASE t = {}
    BY <2>1, <2>2 DEF IsSum
  <2>3. CASE t # {}
    <3> DEFINE u == t \ {Some(t)}
    <3>1. u \in SUBSET t /\ u # t /\ u \in SUBSET s /\ u # s
      BY <1>4, <2>3, SomeIn
    <3>2. IsSum(G(u), u, f)
      BY <1>3, <3>1
    <3>3. IsFiniteSet(u)
      BY <3>1, FS_Subset
    <3>4. G(u)[u] = G(t)[u]
      BY <2>1, <3>1, <3>2, <3>3, SumsAgree
    <3>5. G(t)[t] = f[Some(t)] + G(t)[u]
      BY <2>1, <2>3 DEF IsSum
    <3> QED
      BY <2>3, <3>4, <3>5
  <2> QED
    BY <2>2, <2>3
<1>5. ASSUME NEW t \in SUBSET s, t # {}
      PROVE  G(t \ {Some(t)})[t \ {Some(t)}] = h[t \ {Some(t)}]
  <2>1. t \ {Some(t)} \in SUBSET s /\ t \ {Some(t)} # s
    BY <1>5, SomeIn
  <2> QED
    BY <2>1, <1>4
<1>6. IsSum(h, s, f)
  BY <1>5 DEF IsSum
<1> QED
  BY <1>6, <1>2

\* The equation of the fold.
LEMMA SumUnfolds ==
  ASSUME NEW S, IsFiniteSet(S), NEW f
  PROVE  SumOf(S, f) = IF S = {} THEN 0 ELSE f[Some(S)] + SumOf(S \ {Some(S)}, f)
<1> DEFINE g == CHOOSE h : IsSum(h, S, f)
           r == S \ {Some(S)}
           gr == CHOOSE h : IsSum(h, r, f)
<1>1. IsSum(g, S, f)
  BY SumExists
<1>2. IsFiniteSet(r)
  BY FS_Subset
<1>3. IsSum(gr, r, f)
  BY <1>2, SumExists
<1>4. SumOf(S, f) = g[S] /\ SumOf(r, f) = gr[r]
  BY SumChosen
<1> HIDE DEF g, gr
<1>5. gr[r] = g[r]
  BY <1>1, <1>2, <1>3, SumsAgree
<1> QED
  BY <1>1, <1>4, <1>5 DEF IsSum

LEMMA SumEmpty == \A f : SumOf({}, f) = 0
  BY SumUnfolds, FS_EmptySet

LEMMA SumType ==
  ASSUME NEW S, IsFiniteSet(S), NEW f, \A x \in S : f[x] \in Int
  PROVE  SumOf(S, f) \in Int
<1> DEFINE T == {s \in SUBSET S : SumOf(s, f) \notin Int}
<1>1. SUFFICES ASSUME T # {} PROVE FALSE
  OBVIOUS
<1>2. PICK s \in T : \A t \in T : t \subseteq s => t = s
  <2>1. T \subseteq SUBSET S
    OBVIOUS
  <2> HIDE DEF T
  <2> QED
    BY <1>1, <2>1, LeastSet
<1>3. IsFiniteSet(s)
  BY FS_Subset
<1>4. s # {}
  BY SumEmpty
<1>5. SumOf(s \ {Some(s)}, f) \in Int
  BY <1>2, <1>4, SomeIn
<1>6. f[Some(s)] \in Int
  BY <1>4, SomeIn
<1>7. SumOf(s, f) \notin Int
  OBVIOUS
<1>8. SumOf(s, f) = f[Some(s)] + SumOf(s \ {Some(s)}, f)
  BY <1>3, <1>4, SumUnfolds
<1> QED
  BY <1>5, <1>6, <1>7, <1>8

\* Any element may be taken out of a sum.
LEMMA SumRemove ==
  ASSUME NEW S, IsFiniteSet(S), NEW f, \A x \in S : f[x] \in Int, NEW e \in S
  PROVE  SumOf(S, f) = f[e] + SumOf(S \ {e}, f)
<1> DEFINE Refutes(s) == \E x \in s : SumOf(s, f) # f[x] + SumOf(s \ {x}, f)
           T == {s \in SUBSET S : Refutes(s)}
<1>1. SUFFICES ASSUME T # {} PROVE FALSE
  <2>1. S \notin T => ~ Refutes(S)
    <3> HIDE DEF Refutes
    <3> QED
      OBVIOUS
  <2> QED
    BY <2>1
<1>2. PICK s \in T : \A t \in T : t \subseteq s => t = s
  <2>1. T \subseteq SUBSET S
    OBVIOUS
  <2> HIDE DEF T
  <2> QED
    BY <1>1, <2>1, LeastSet
<1>3. PICK x \in s : SumOf(s, f) # f[x] + SumOf(s \ {x}, f)
  OBVIOUS
<1> DEFINE y == Some(s)
           r == s \ {x, y}
<1>4. IsFiniteSet(s) /\ IsFiniteSet(s \ {y}) /\ IsFiniteSet(r)
  BY FS_Subset
<1>5. SumOf(s, f) = f[y] + SumOf(s \ {y}, f) /\ y \in s
  BY <1>4, SumUnfolds, SomeIn
<1>6. x # y
  BY <1>3, <1>5
<1>7. s \ {x} \notin T /\ s \ {y} \notin T
  <2>1. s \ {x} \subseteq s /\ s \ {x} # s /\ s \ {y} \subseteq s /\ s \ {y} # s
    BY <1>5
  <2> HIDE DEF T, y
  <2> QED
    BY <1>2, <2>1
<1>8. SumOf(s \ {y}, f) = f[x] + SumOf(r, f)
  <2>1. x \in s \ {y} /\ (s \ {y}) \ {x} = r
    BY <1>6
  <2>2. ~ Refutes(s \ {y})
    BY <1>7
  <2> HIDE DEF y, r
  <2> QED
    BY <2>1, <2>2
<1>9. SumOf(s \ {x}, f) = f[y] + SumOf(r, f)
  <2>1. y \in s \ {x} /\ (s \ {x}) \ {y} = r
    BY <1>5, <1>6
  <2>2. ~ Refutes(s \ {x})
    BY <1>7
  <2> HIDE DEF y, r
  <2> QED
    BY <2>1, <2>2
<1>10. f[x] \in Int /\ f[y] \in Int /\ SumOf(r, f) \in Int
  BY <1>4, <1>5, SumType
<1> HIDE DEF y, r
<1> QED
  BY <1>3, <1>5, <1>8, <1>9, <1>10

LEMMA SumAdd ==
  ASSUME NEW S, IsFiniteSet(S), NEW e, e \notin S, NEW f, \A x \in S \cup {e} : f[x] \in Int
  PROVE  SumOf(S \cup {e}, f) = f[e] + SumOf(S, f)
<1>1. IsFiniteSet(S \cup {e}) /\ (S \cup {e}) \ {e} = S
  BY FS_AddElement
<1> QED
  BY <1>1, SumRemove

\* The sum depends on the summands only.
LEMMA SumSame ==
  ASSUME NEW S, IsFiniteSet(S), NEW f, NEW g, \A x \in S : f[x] = g[x]
  PROVE  SumOf(S, f) = SumOf(S, g)
<1> DEFINE T == {s \in SUBSET S : SumOf(s, f) # SumOf(s, g)}
<1>1. SUFFICES ASSUME T # {} PROVE FALSE
  OBVIOUS
<1>2. PICK s \in T : \A t \in T : t \subseteq s => t = s
  <2>1. T \subseteq SUBSET S
    OBVIOUS
  <2> HIDE DEF T
  <2> QED
    BY <1>1, <2>1, LeastSet
<1>3. IsFiniteSet(s)
  BY FS_Subset
<1>4. s # {}
  BY SumEmpty
<1>5. SumOf(s \ {Some(s)}, f) = SumOf(s \ {Some(s)}, g)
  BY <1>2, <1>4, SomeIn
<1>6. f[Some(s)] = g[Some(s)]
  BY <1>4, SomeIn
<1>7. SumOf(s, f) # SumOf(s, g)
  OBVIOUS
<1> QED
  BY <1>3, <1>4, <1>5, <1>6, <1>7, SumUnfolds

\* One summand changes.
LEMMA SumChange ==
  ASSUME NEW S, IsFiniteSet(S), NEW f, NEW g, NEW e \in S, g[e] \in Int,
         \A x \in S : f[x] \in Int, \A x \in S \ {e} : g[x] = f[x]
  PROVE  SumOf(S, g) = SumOf(S, f) + g[e] - f[e]
<1>1. IsFiniteSet(S \ {e})
  BY FS_Subset
<1>2. SumOf(S \ {e}, f) = SumOf(S \ {e}, g) /\ SumOf(S \ {e}, f) \in Int
  BY <1>1, SumSame, SumType
<1>3. SumOf(S, f) = f[e] + SumOf(S \ {e}, f) /\ SumOf(S, g) = g[e] + SumOf(S \ {e}, g)
  BY SumRemove
<1> QED
  BY <1>2, <1>3

\* Where there is nothing to add the sum is nothing.
LEMMA SumZero ==
  ASSUME NEW S, IsFiniteSet(S), NEW f, \A x \in S : f[x] = 0
  PROVE  SumOf(S, f) = 0
<1> DEFINE T == {s \in SUBSET S : SumOf(s, f) # 0}
<1>1. SUFFICES ASSUME T # {} PROVE FALSE
  OBVIOUS
<1>2. PICK s \in T : \A t \in T : t \subseteq s => t = s
  <2>1. T \subseteq SUBSET S
    OBVIOUS
  <2> HIDE DEF T
  <2> QED
    BY <1>1, <2>1, LeastSet
<1>3. IsFiniteSet(s)
  BY FS_Subset
<1>4. s # {}
  BY SumEmpty
<1>5. SumOf(s \ {Some(s)}, f) = 0
  BY <1>2, <1>4, SomeIn
<1>6. f[Some(s)] = 0
  BY <1>4, SomeIn
<1>7. SumOf(s, f) # 0
  OBVIOUS
<1> QED
  BY <1>3, <1>4, <1>5, <1>6, <1>7, SumUnfolds

\* No summand of natural numbers is more than their sum.
LEMMA SumNat ==
  ASSUME NEW S, IsFiniteSet(S), NEW f, \A x \in S : f[x] \in Nat
  PROVE  SumOf(S, f) \in Nat /\ \A x \in S : f[x] <= SumOf(S, f)
<1> DEFINE T == {s \in SUBSET S : SumOf(s, f) \notin Nat}
<1>1. T = {}
  <2>1. SUFFICES ASSUME T # {} PROVE FALSE
    OBVIOUS
  <2>2. PICK s \in T : \A t \in T : t \subseteq s => t = s
    <3>1. T \subseteq SUBSET S
      OBVIOUS
    <3> HIDE DEF T
    <3> QED
      BY <2>1, <3>1, LeastSet
  <2>3. IsFiniteSet(s)
    BY FS_Subset
  <2>4. s # {}
    BY SumEmpty
  <2>5. SumOf(s \ {Some(s)}, f) \in Nat
    BY <2>2, <2>4, SomeIn
  <2>6. f[Some(s)] \in Nat
    BY <2>4, SomeIn
  <2>7. SumOf(s, f) \notin Nat
    OBVIOUS
  <2>8. SumOf(s, f) = f[Some(s)] + SumOf(s \ {Some(s)}, f)
    BY <2>3, <2>4, SumUnfolds
  <2> QED
    BY <2>5, <2>6, <2>7, <2>8
<1>2. ASSUME NEW x \in S PROVE f[x] <= SumOf(S, f)
  <2>1. SumOf(S \ {x}, f) \in Nat
    BY <1>1
  <2>2. SumOf(S, f) = f[x] + SumOf(S \ {x}, f)
    BY SumRemove
  <2>3. f[x] \in Nat
    OBVIOUS
  <2> QED
    BY <2>1, <2>2, <2>3
<1> QED
  BY <1>1, <1>2

-----------------------------------------------------------------------------
\* The increments of a log as a sum.
Deltas(S) == [l \in S |-> l.delta]

IsDeltaSum(g, S) ==
    g = [s \in SUBSET S |-> IF s = {} THEN 0 ELSE Some(s).delta + g[s \ {Some(s)}]]

LEMMA DeltaChosen == \A S : DeltaSum(S) = (CHOOSE g : IsDeltaSum(g, S))[S]
  BY DEF DeltaSum, TotalOf, MapThenSumSet, MapThenFoldSet, IsDeltaSum, Some

LEMMA DeltaIsSum ==
  ASSUME NEW S, IsFiniteSet(S)
  PROVE  DeltaSum(S) = SumOf(S, Deltas(S))
<1>1. \A s \in SUBSET S : s # {} => Deltas(S)[Some(s)] = Some(s).delta
  BY SomeIn DEF Deltas
<1>2. \A g : IsDeltaSum(g, S) <=> IsSum(g, S, Deltas(S))
  BY <1>1 DEF IsDeltaSum, IsSum
<1> DEFINE g == CHOOSE f : IsDeltaSum(f, S)
           h == CHOOSE f : IsSum(f, S, Deltas(S))
<1>3. \E f : IsSum(f, S, Deltas(S))
  BY SumExists
<1>4. IsDeltaSum(g, S)
  BY <1>2, <1>3
<1>5. IsSum(h, S, Deltas(S))
  BY <1>3
<1>6. DeltaSum(S) = g[S] /\ SumOf(S, Deltas(S)) = h[S]
  BY DeltaChosen, SumChosen
<1> HIDE DEF g, h
<1>7. IsSum(g, S, Deltas(S))
  BY <1>2, <1>4
<1> QED
  BY <1>5, <1>6, <1>7, SumsAgree

LEMMA DeltaType ==
  ASSUME NEW S, IsFiniteSet(S), \A l \in S : l.delta \in Int
  PROVE  DeltaSum(S) \in Int
  BY DeltaIsSum, SumType DEF Deltas

\* A row is added to the log.
LEMMA DeltaAdd ==
  ASSUME NEW S, IsFiniteSet(S), NEW e, e \notin S, \A l \in S \cup {e} : l.delta \in Int
  PROVE  DeltaSum(S \cup {e}) = DeltaSum(S) + e.delta
<1> DEFINE f == Deltas(S \cup {e})
<1>1. IsFiniteSet(S \cup {e})
  BY FS_AddElement
<1>2. \A l \in S \cup {e} : f[l] = l.delta
  BY DEF Deltas
<1>3. \A l \in S : f[l] = Deltas(S)[l]
  BY DEF Deltas
<1>4. DeltaSum(S \cup {e}) = SumOf(S \cup {e}, f) /\ DeltaSum(S) = SumOf(S, Deltas(S))
  BY <1>1, DeltaIsSum
<1>5. DeltaSum(S) \in Int
  BY DeltaType
<1> HIDE DEF f
<1>6. SumOf(S, f) = SumOf(S, Deltas(S))
  BY <1>3, SumSame
<1>7. SumOf(S \cup {e}, f) = f[e] + SumOf(S, f)
  BY <1>2, SumAdd
<1> QED
  BY <1>2, <1>4, <1>5, <1>6, <1>7

\* Increments are never negative: no sum of them is, and a sum of none is 0.
LEMMA DeltaNat ==
  ASSUME NEW S, IsFiniteSet(S), \A l \in S : l.delta \in Nat
  PROVE  /\ DeltaSum(S) \in Nat
         /\ \A l \in S : l.delta <= DeltaSum(S)
<1> DEFINE T == {s \in SUBSET S : DeltaSum(s) \notin Nat}
<1>1. T = {}
  <2>1. SUFFICES ASSUME T # {} PROVE FALSE
    OBVIOUS
  <2>2. PICK s \in T : \A t \in T : t \subseteq s => t = s
    <3>1. T \subseteq SUBSET S
      OBVIOUS
    <3> HIDE DEF T
    <3> QED
      BY <2>1, <3>1, LeastSet
  <2>3. IsFiniteSet(s) /\ IsFiniteSet({})
    BY FS_Subset, FS_EmptySet
  <2>4. s # {}
    BY <2>3, DeltaIsSum, SumEmpty
  <2> DEFINE r == s \ {Some(s)}
  <2>5. Some(s) \in s /\ r \subseteq s /\ r # s /\ s = r \cup {Some(s)}
    BY <2>4, SomeIn
  <2>6. DeltaSum(r) \in Nat
    BY <2>2, <2>5
  <2>7. IsFiniteSet(r) /\ Some(s).delta \in Nat /\ \A l \in s : l.delta \in Int
    BY <2>3, <2>5, FS_Subset
  <2>8. DeltaSum(s) = DeltaSum(r) + Some(s).delta
    BY <2>5, <2>7, DeltaAdd
  <2>9. DeltaSum(s) \notin Nat
    OBVIOUS
  <2> QED
    BY <2>6, <2>7, <2>8, <2>9
<1>2. DeltaSum(S) \in Nat
  BY <1>1
<1>3. ASSUME NEW l \in S PROVE l.delta <= DeltaSum(S)
  <2> DEFINE r == S \ {l}
  <2>1. DeltaSum(r) \in Nat
    BY <1>1
  <2>2. IsFiniteSet(r) /\ S = r \cup {l} /\ l \notin r
    BY FS_Subset
  <2>3. DeltaSum(S) = DeltaSum(r) + l.delta
    BY <2>2, DeltaAdd
  <2> QED
    BY <2>1, <2>3
<1> QED
  BY <1>2, <1>3

LEMMA DeltaZero ==
  ASSUME NEW S, IsFiniteSet(S), \A l \in S : l.delta = 0
  PROVE  DeltaSum(S) = 0
  BY DeltaIsSum, SumZero DEF Deltas

\* Of finitely many rows one is the newest.
LEMMA NewestExists ==
  ASSUME NEW S, IsFiniteSet(S), S # {}, \A l \in S : l.at \in Int
  PROVE  \E m \in S : \A k \in S : k.at <= m.at
<1> DEFINE Has(s) == \E m \in s : \A k \in s : k.at <= m.at
           T == {s \in SUBSET S : s # {} /\ ~Has(s)}
<1>1. SUFFICES ASSUME T # {} PROVE FALSE
  OBVIOUS
<1>2. PICK s \in T : \A t \in T : t \subseteq s => t = s
  <2>1. T \subseteq SUBSET S
    OBVIOUS
  <2> HIDE DEF T
  <2> QED
    BY <1>1, <2>1, LeastSet
<1> DEFINE x == Some(s)
           r == s \ {x}
<1>3. x \in s /\ r \subseteq s /\ r # s /\ s = r \cup {x}
  BY SomeIn
<1> HIDE DEF x, r
<1>4. CASE r = {}
  BY <1>3, <1>4
<1>5. CASE r # {}
  <2>1. r \notin T
    BY <1>2, <1>3
  <2>2. PICK m \in r : \A k \in r : k.at <= m.at
    BY <1>3, <1>5, <2>1
  <2>3. m.at \in Int /\ x.at \in Int /\ \A k \in r : k.at \in Int
    BY <1>3
  <2>4. CASE x.at <= m.at
    BY <1>3, <2>2, <2>3, <2>4
  <2>5. CASE ~(x.at <= m.at)
    <3>1. \A k \in s : k.at <= x.at
      BY <1>3, <2>2, <2>3, <2>5
    <3> QED
      BY <1>3, <3>1
  <2> QED
    BY <2>4, <2>5
<1> QED
  BY <1>4, <1>5

LEMMA NewestIn ==
  ASSUME NEW S, IsFiniteSet(S), S # {}, \A l \in S : l.at \in Int
  PROVE  Newest(S) \in S /\ \A k \in S : k.at <= Newest(S).at
  BY NewestExists DEF Newest

\* A month begins on or before each of its days.
LEMMA MonthBegins ==
  ASSUME NEW day \in Int
  PROVE  Month(day) \in Int /\ MonthStart(Month(day)) <= day
  BY MetricsAssumption DEF Month, MonthStart

-----------------------------------------------------------------------------
\* Sums of several sets, and of several functions.
LEMMA TotalIsSum == \A f : TotalOver(f) = SumOf(DOMAIN f, f)
  BY DEF TotalOver, SumOf

LEMMA SumJoin ==
  ASSUME NEW S, IsFiniteSet(S), NEW U, IsFiniteSet(U), S \cap U = {},
         NEW f, \A x \in S \cup U : f[x] \in Int
  PROVE  SumOf(S \cup U, f) = SumOf(S, f) + SumOf(U, f)
<1> DEFINE T == {s \in SUBSET U : SumOf(S \cup s, f) # SumOf(S, f) + SumOf(s, f)}
<1>1. SUFFICES ASSUME T # {} PROVE FALSE
  OBVIOUS
<1>2. PICK s \in T : \A t \in T : t \subseteq s => t = s
  <2>1. T \subseteq SUBSET U
    OBVIOUS
  <2> HIDE DEF T
  <2> QED
    BY <1>1, <2>1, LeastSet
<1>3. SumOf(S, f) \in Int
  BY SumType
<1>4. s # {}
  <2>1. SUFFICES ASSUME s = {} PROVE FALSE
    OBVIOUS
  <2>2. S \cup s = S /\ SumOf(s, f) = 0
    BY <2>1, SumEmpty
  <2>3. SumOf(S \cup s, f) = SumOf(S, f)
    BY <2>2
  <2>4. SumOf(S \cup s, f) # SumOf(S, f) + SumOf(s, f)
    OBVIOUS
  <2> QED
    BY <1>3, <2>2, <2>3, <2>4
<1> DEFINE e == Some(s)
           r == s \ {e}
<1>5. e \in s /\ r \subseteq s /\ r # s /\ e \notin r /\ s = r \cup {e}
  BY <1>4, SomeIn
<1> HIDE DEF e, r
<1>6. SumOf(S \cup r, f) = SumOf(S, f) + SumOf(r, f)
  BY <1>2, <1>5
<1>7. IsFiniteSet(r) /\ IsFiniteSet(S \cup r)
  BY <1>5, FS_Subset, FS_Union
<1>8. SumOf(s, f) = f[e] + SumOf(r, f)
  BY <1>5, <1>7, SumAdd
<1>9. SumOf(S \cup s, f) = f[e] + SumOf(S \cup r, f)
  <2>1. PICK u : u = S \cup r
    OBVIOUS
  <2>2. e \notin u /\ S \cup s = u \cup {e} /\ IsFiniteSet(u) /\ \A x \in u \cup {e} : f[x] \in Int
    BY <1>5, <1>7, <2>1
  <2>3. SumOf(u \cup {e}, f) = f[e] + SumOf(u, f)
    BY <2>2, SumAdd
  <2> QED
    BY <2>1, <2>2, <2>3
<1>10. f[e] \in Int /\ SumOf(r, f) \in Int
  BY <1>5, <1>7, SumType
<1>11. SumOf(S \cup s, f) # SumOf(S, f) + SumOf(s, f)
  OBVIOUS
<1> QED
  BY <1>3, <1>6, <1>8, <1>9, <1>10, <1>11

\* A part that holds all there is to add has the whole sum; of natural numbers
\* no part has more than the whole.
LEMMA SumSupport ==
  ASSUME NEW U, IsFiniteSet(U), NEW S, S \subseteq U, NEW f, \A x \in U : f[x] \in Int,
         \A x \in U \ S : f[x] = 0
  PROVE  SumOf(S, f) = SumOf(U, f)
<1>1. IsFiniteSet(S) /\ IsFiniteSet(U \ S) /\ S \cup (U \ S) = U
  BY FS_Subset
<1>2. SumOf(U, f) = SumOf(S, f) + SumOf(U \ S, f)
  BY <1>1, SumJoin
<1>3. SumOf(U \ S, f) = 0 /\ SumOf(S, f) \in Int
  BY <1>1, SumZero, SumType
<1> QED
  BY <1>2, <1>3

LEMMA SumPart ==
  ASSUME NEW U, IsFiniteSet(U), NEW S, S \subseteq U, NEW f, \A x \in U : f[x] \in Nat
  PROVE  SumOf(S, f) <= SumOf(U, f)
<1>1. IsFiniteSet(S) /\ IsFiniteSet(U \ S) /\ S \cup (U \ S) = U
  BY FS_Subset
<1>2. SumOf(U, f) = SumOf(S, f) + SumOf(U \ S, f)
  BY <1>1, SumJoin
<1>3. SumOf(U \ S, f) \in Nat /\ SumOf(S, f) \in Nat
  BY <1>1, SumNat
<1> QED
  BY <1>2, <1>3

LEMMA SumPlus ==
  ASSUME NEW S, IsFiniteSet(S), NEW f, NEW g, NEW h,
         \A x \in S : f[x] \in Int /\ g[x] \in Int /\ h[x] = f[x] + g[x]
  PROVE  SumOf(S, h) = SumOf(S, f) + SumOf(S, g)
<1> DEFINE T == {s \in SUBSET S : SumOf(s, h) # SumOf(s, f) + SumOf(s, g)}
<1>1. SUFFICES ASSUME T # {} PROVE FALSE
  OBVIOUS
<1>2. PICK s \in T : \A t \in T : t \subseteq s => t = s
  <2>1. T \subseteq SUBSET S
    OBVIOUS
  <2> HIDE DEF T
  <2> QED
    BY <1>1, <2>1, LeastSet
<1>3. s # {}
  BY SumEmpty
<1> DEFINE e == Some(s)
           r == s \ {e}
<1>4. e \in s /\ r \subseteq s /\ r # s /\ e \notin r /\ s = r \cup {e}
  BY <1>3, SomeIn
<1> HIDE DEF e, r
<1>5. SumOf(r, h) = SumOf(r, f) + SumOf(r, g)
  BY <1>2, <1>4
<1>6. IsFiniteSet(r)
  BY <1>4, FS_Subset
<1>7. \A x \in s : h[x] \in Int
  OBVIOUS
<1>8. SumOf(s, f) = f[e] + SumOf(r, f) /\ SumOf(s, g) = g[e] + SumOf(r, g)
  BY <1>4, <1>6, SumAdd
<1>9. SumOf(s, h) = h[e] + SumOf(r, h)
  BY <1>4, <1>6, <1>7, SumAdd
<1>10. h[e] = f[e] + g[e] /\ f[e] \in Int /\ g[e] \in Int
  BY <1>4
<1>11. SumOf(r, f) \in Int /\ SumOf(r, g) \in Int
  BY <1>4, <1>6, SumType
<1>12. SumOf(s, h) # SumOf(s, f) + SumOf(s, g)
  OBVIOUS
<1> QED
  BY <1>5, <1>8, <1>9, <1>10, <1>11, <1>12

\* What h makes of a set; no two of its members become one.
Image(h, S) == {h[x] : x \in S}

LEMMA SumImage ==
  ASSUME NEW S, IsFiniteSet(S), NEW h, \A x, y \in S : h[x] = h[y] => x = y,
         NEW f, NEW g, \A x \in S : g[x] \in Int /\ f[h[x]] = g[x]
  PROVE  IsFiniteSet(Image(h, S)) /\ SumOf(Image(h, S), f) = SumOf(S, g)
<1> DEFINE Holds(s) == IsFiniteSet(Image(h, s)) /\ SumOf(Image(h, s), f) = SumOf(s, g)
           T == {s \in SUBSET S : ~Holds(s)}
<1>1. SUFFICES ASSUME T # {} PROVE FALSE
  <2>1. S \notin T => Holds(S)
    <3> HIDE DEF Holds
    <3> QED
      OBVIOUS
  <2> QED
    BY <2>1
<1>2. PICK s \in T : \A t \in T : t \subseteq s => t = s
  <2>1. T \subseteq SUBSET S
    OBVIOUS
  <2> HIDE DEF T
  <2> QED
    BY <1>1, <2>1, LeastSet
<1>3. s # {}
  <2>1. Image(h, {}) = {}
    BY DEF Image
  <2>2. Holds({})
    BY <2>1, SumEmpty, FS_EmptySet
  <2> HIDE DEF Holds
  <2> QED
    BY <2>2
<1> DEFINE e == Some(s)
           r == s \ {e}
<1>4. e \in s /\ r \subseteq s /\ r # s /\ e \notin r /\ s = r \cup {e}
  BY <1>3, SomeIn
<1> HIDE DEF e, r
<1>5. Holds(r)
  <2> HIDE DEF Holds
  <2> QED
    BY <1>2, <1>4
<1>6. Image(h, s) = Image(h, r) \cup {h[e]} /\ h[e] \notin Image(h, r)
  BY <1>4 DEF Image
<1>7. \A x \in Image(h, r) \cup {h[e]} : f[x] \in Int
  BY <1>4 DEF Image
<1>8. SumOf(Image(h, s), f) = f[h[e]] + SumOf(Image(h, r), f)
  <2>1. PICK u, x : u = Image(h, r) /\ x = h[e]
    OBVIOUS
  <2>2. IsFiniteSet(u) /\ x \notin u /\ \A y \in u \cup {x} : f[y] \in Int
    BY <1>5, <1>6, <1>7, <2>1
  <2>3. SumOf(u \cup {x}, f) = f[x] + SumOf(u, f)
    BY <2>2, SumAdd
  <2> QED
    BY <1>6, <2>1, <2>3
<1>9. SumOf(s, g) = g[e] + SumOf(r, g)
  <2>1. IsFiniteSet(r)
    BY <1>4, FS_Subset
  <2> QED
    BY <1>4, <2>1, SumAdd
<1>10. IsFiniteSet(Image(h, s))
  BY <1>5, <1>6, FS_AddElement
<1>11. Holds(s)
  BY <1>4, <1>5, <1>8, <1>9, <1>10
<1> HIDE DEF Holds
<1> QED
  BY <1>11

\* A table f, its columns k, and what the lines of a table amount to: rows
\* first or columns first, the total is the same.
Transposed(f, k, S, U) == \A x \in S, y \in U : f[x][y] \in Int /\ k[y][x] = f[x][y]
LineSums(g, f, S, U) == \A x \in S : g[x] = SumOf(U, f[x])

LEMMA SumSwap ==
  ASSUME NEW S, IsFiniteSet(S), NEW U, IsFiniteSet(U), NEW f, NEW k, Transposed(f, k, S, U),
         NEW g, LineSums(g, f, S, U), NEW h, LineSums(h, k, U, S)
  PROVE  SumOf(S, g) = SumOf(U, h)
<1> DEFINE column(s) == [y \in U |-> SumOf(s, k[y])]
           Holds(s) == SumOf(s, g) = SumOf(U, column(s))
           T == {s \in SUBSET S : ~Holds(s)}
<1>1. SumOf(U, column(S)) = SumOf(U, h)
  <2>1. \A y \in U : column(S)[y] = h[y]
    BY DEF LineSums
  <2> HIDE DEF column
  <2> QED
    BY <2>1, SumSame
<1>2. SUFFICES ASSUME T # {} PROVE FALSE
  <2>1. S \notin T => Holds(S)
    <3> HIDE DEF Holds
    <3> QED
      OBVIOUS
  <2> QED
    BY <1>1, <2>1
<1>3. PICK s \in T : \A t \in T : t \subseteq s => t = s
  <2>1. T \subseteq SUBSET S
    OBVIOUS
  <2> HIDE DEF T
  <2> QED
    BY <1>2, <2>1, LeastSet
<1>4. s # {}
  <2>1. \A y \in U : column({})[y] = 0
    BY SumEmpty
  <2>2. SumOf(U, column({})) = 0
    <3> HIDE DEF column
    <3> QED
      BY <2>1, SumZero
  <2>3. Holds({})
    BY <2>2, SumEmpty
  <2> HIDE DEF Holds
  <2> QED
    BY <2>3
<1> DEFINE e == Some(s)
           r == s \ {e}
<1>5. e \in s /\ r \subseteq s /\ r # s /\ e \notin r /\ s = r \cup {e}
  BY <1>4, SomeIn
<1> HIDE DEF e, r
<1>6. Holds(r)
  <2> HIDE DEF Holds
  <2> QED
    BY <1>3, <1>5
<1>7. IsFiniteSet(r) /\ e \in S /\ r \subseteq S
  BY <1>5, FS_Subset
<1>8. ASSUME NEW y \in U
      PROVE  /\ column(s)[y] = f[e][y] + column(r)[y]
             /\ f[e][y] \in Int /\ column(r)[y] \in Int
  <2>1. \A x \in r \cup {e} : k[y][x] \in Int /\ k[y][x] = f[x][y]
    BY <1>7 DEF Transposed
  <2>2. SumOf(s, k[y]) = k[y][e] + SumOf(r, k[y])
    <3>1. PICK c : c = k[y]
      OBVIOUS
    <3>2. e \notin r /\ IsFiniteSet(r) /\ \A x \in r \cup {e} : c[x] \in Int
      BY <1>5, <1>7, <2>1, <3>1
    <3> HIDE DEF T
    <3>3. SumOf(r \cup {e}, c) = c[e] + SumOf(r, c)
      BY <3>2, SumAdd
    <3> QED
      BY <1>5, <3>1, <3>3
  <2>3. SumOf(r, k[y]) \in Int
    BY <1>7, <2>1, SumType
  <2> QED
    BY <2>1, <2>2, <2>3
<1>9. SumOf(U, column(s)) = SumOf(U, f[e]) + SumOf(U, column(r))
  <2> HIDE DEF column
  <2> QED
    BY <1>8, SumPlus
<1>10. ASSUME NEW x \in s PROVE g[x] \in Int
  <2>1. PICK c : c = f[x]
    OBVIOUS
  <2>2. \A y \in U : c[y] \in Int
    BY <2>1 DEF Transposed
  <2>3. SumOf(U, c) \in Int
    BY <2>2, SumType
  <2> QED
    BY <2>1, <2>3 DEF LineSums
<1>11. SumOf(s, g) = g[e] + SumOf(r, g)
  <2>1. e \notin r /\ IsFiniteSet(r) /\ \A x \in r \cup {e} : g[x] \in Int
    BY <1>5, <1>7, <1>10
  <2>2. SumOf(r \cup {e}, g) = g[e] + SumOf(r, g)
    <3> HIDE DEF T
    <3> QED
      BY <2>1, SumAdd
  <2> QED
    BY <1>5, <2>2
<1>12. Holds(s)
  BY <1>6, <1>7, <1>9, <1>11 DEF LineSums
<1> HIDE DEF Holds
<1> QED
  BY <1>12

-----------------------------------------------------------------------------
LEMMA DeltaJoin ==
  ASSUME NEW S, IsFiniteSet(S), NEW U, IsFiniteSet(U), S \cap U = {},
         \A l \in S \cup U : l.delta \in Int
  PROVE  DeltaSum(S \cup U) = DeltaSum(S) + DeltaSum(U)
<1> DEFINE f == Deltas(S \cup U)
<1>1. IsFiniteSet(S \cup U)
  BY FS_Union
<1>2. /\ \A l \in S \cup U : f[l] \in Int
      /\ \A l \in S : f[l] = Deltas(S)[l]
      /\ \A l \in U : f[l] = Deltas(U)[l]
  BY DEF Deltas
<1>3. DeltaSum(S \cup U) = SumOf(S \cup U, f)
  BY <1>1, DeltaIsSum
<1> HIDE DEF f
<1>4. SumOf(S, f) = DeltaSum(S) /\ SumOf(U, f) = DeltaSum(U)
  BY <1>2, DeltaIsSum, SumSame
<1> QED
  BY <1>2, <1>3, <1>4, SumJoin

\* The increments of some days are those of each of them.
OfDays(rows, D) == {l \in rows : l.day \in D}

LEMMA DaysAddUp ==
  ASSUME NEW rows, IsFiniteSet(rows), \A l \in rows : l.delta \in Int,
         NEW D, IsFiniteSet(D), NEW f, \A d \in D : f[d] = DeltaSum(OfDays(rows, {d}))
  PROVE  SumOf(D, f) = DeltaSum(OfDays(rows, D))
<1> DEFINE T == {s \in SUBSET D : SumOf(s, f) # DeltaSum(OfDays(rows, s))}
<1>1. SUFFICES ASSUME T # {} PROVE FALSE
  OBVIOUS
<1>2. PICK s \in T : \A t \in T : t \subseteq s => t = s
  <2>1. T \subseteq SUBSET D
    OBVIOUS
  <2> HIDE DEF T
  <2> QED
    BY <1>1, <2>1, LeastSet
<1>3. \A t : OfDays(rows, t) \subseteq rows /\ IsFiniteSet(OfDays(rows, t))
  BY FS_Subset DEF OfDays
<1>4. s # {}
  <2>1. OfDays(rows, {}) = {}
    BY DEF OfDays
  <2>2. DeltaSum({}) = 0
    BY FS_EmptySet, DeltaZero
  <2> QED
    BY <2>1, <2>2, SumEmpty
<1> DEFINE e == Some(s)
           r == s \ {e}
<1>5. e \in s /\ r \subseteq s /\ r # s /\ e \notin r /\ s = r \cup {e}
  BY <1>4, SomeIn
<1> HIDE DEF e, r
<1>6. SumOf(r, f) = DeltaSum(OfDays(rows, r))
  BY <1>2, <1>5
<1>7. OfDays(rows, s) = OfDays(rows, r) \cup OfDays(rows, {e})
      /\ OfDays(rows, r) \cap OfDays(rows, {e}) = {}
  BY <1>5 DEF OfDays
<1>8. DeltaSum(OfDays(rows, s)) = DeltaSum(OfDays(rows, r)) + DeltaSum(OfDays(rows, {e}))
  <2>1. \A l \in OfDays(rows, r) \cup OfDays(rows, {e}) : l.delta \in Int
    BY <1>3
  <2> QED
    BY <1>3, <1>7, <2>1, DeltaJoin
<1>9. \A x \in s : f[x] \in Int
  BY <1>3, DeltaType
<1>10. SumOf(s, f) = f[e] + SumOf(r, f)
  <2>1. IsFiniteSet(r)
    BY <1>5, FS_Subset
  <2> QED
    BY <1>5, <1>9, <2>1, SumAdd
<1>11. DeltaSum(OfDays(rows, r)) \in Int /\ DeltaSum(OfDays(rows, {e})) \in Int
  BY <1>3, DeltaType
<1>12. SumOf(s, f) # DeltaSum(OfDays(rows, s)) /\ f[e] = DeltaSum(OfDays(rows, {e}))
  BY <1>5
<1> QED
  BY <1>6, <1>8, <1>10, <1>11, <1>12

=============================================================================
