--------------------------- MODULE CapacityProofs ---------------------------
(***************************************************************************)
(* How far the number of renters of an account may exceed its tier's       *)
(* limit, and that the lease service implements LeaseContract, for every   *)
(* number of renters, accounts and handlers.                               *)
(*                                                                         *)
(* acquire checks the capacity and writes the lease later; renew, and      *)
(* acquire for an account its renter already holds, do not check at all,   *)
(* and the lease they read may expire before they write it again.  So an   *)
(* account is claimed by its holders and by everyone a handler may still   *)
(* write a lease for.  A lease that expires under a handler moves a holder *)
(* to the claims pending, a write moves him back; only a capacity check    *)
(* adds a claim, and it counts the holders when it does.                   *)
(*                                                                         *)
(* With one handler at a time nothing is exceeded, so that a renter finds  *)
(* room on the account he is already on; and where an account is for one   *)
(* renter, the token its sessions are revoked with works when it is needed *)
(* (TokenInv).                                                             *)
(***************************************************************************)
EXTENDS SessionProofs, FiniteSetTheorems

\* A handler at r may go on to write a lease of account a without another
\* check of its capacity.
MayWrite(r, a) ==
    \/ /\ r.pc \in {"aSelect", "aCount", "aSnap", "aRefresh", "aStore", "aFail",
                    "aResolve", "nCheck", "nLease"}
       /\ r.cur # None /\ r.cur.acct = a
    \/ r.pc \in {"aSnap", "aRefresh", "aStore", "aResolve", "aLease"} /\ r.acct = a

Pending(a) == {req[p].user : p \in {q \in Proc : MayWrite(req[q], a)}}
Claimants(a) == Holders(a) \cup Pending(a)

CapacityInv ==
    \A a \in Account :
        Limit[a] > 0 => Cardinality(Claimants(a)) < Limit[a] + Cardinality(Proc)

-----------------------------------------------------------------------------
LEMMA Finiteness ==
  ASSUME TypeOK, NEW a
  PROVE  /\ Claimants(a) \subseteq User
         /\ IsFiniteSet(Claimants(a)) /\ IsFiniteSet(Holders(a))
         /\ Cardinality(Claimants(a)) \in Nat /\ Cardinality(Holders(a)) \in Nat
         /\ Cardinality(Holders(a)) <= Cardinality(Claimants(a))
<1>1. ASSUME NEW q \in Proc, MayWrite(req[q], a) PROVE req[q].user \in User
  BY <1>1 DEF MayWrite, TypeOK, ServiceTypeOK, Request, Bound
<1>2. Claimants(a) \subseteq User /\ Holders(a) \subseteq Claimants(a)
  BY <1>1 DEF Claimants, Pending, Holders
<1>3. IsFiniteSet(Claimants(a))
  BY <1>2, FiniteUser, FS_Subset
<1> QED
  BY <1>2, <1>3, FS_Subset, FS_CardinalityType

LEMMA CapacityInvImplies == TypeOK /\ CapacityInv => CapacityBound
<1> SUFFICES ASSUME TypeOK, CapacityInv, NEW a \in Account, Limit[a] > 0
             PROVE  Cardinality(Holders(a)) < Limit[a] + Cardinality(Proc)
  BY DEF CapacityBound
<1>1. Cardinality(Proc) \in Nat /\ Limit[a] \in Nat
  BY ServiceAssumption, FS_CardinalityType
<1> QED
  BY <1>1, Finiteness DEF CapacityInv

\* The renters the other handlers may write for are fewer than the handlers.
LEMMA OthersPending ==
  ASSUME NEW p \in Proc
  PROVE  /\ IsFiniteSet({req[q].user : q \in Proc \ {p}})
         /\ Cardinality({req[q].user : q \in Proc \ {p}}) <= Cardinality(Proc) - 1
<1> DEFINE T == {req[q].user : q \in Proc \ {p}}
           f == [q \in Proc \ {p} |-> req[q].user]
<1>1. f \in Surjection(Proc \ {p}, T)
  BY DEF Surjection
<1>2. IsFiniteSet(Proc \ {p}) /\ Cardinality(Proc \ {p}) = Cardinality(Proc) - 1
  BY ServiceAssumption, FS_RemoveElement
<1>3. Cardinality(Proc) \in Nat
  BY ServiceAssumption, FS_CardinalityType
<1> HIDE DEF T, f
<1>4. IsFiniteSet(T) /\ Cardinality(T) <= Cardinality(Proc \ {p})
  BY <1>1, <1>2, FS_Surjection
<1>5. Cardinality(T) <= Cardinality(Proc) - 1
  BY <1>2, <1>4
<1> QED
  BY <1>4, <1>5 DEF T

-----------------------------------------------------------------------------
(* Every step but the capacity check leaves the claims or takes some away  *)

ClaimsShrink == \A a \in Account : Claimants(a)' \subseteq Claimants(a)

LEMMA ShrinkKeeps ==
  ASSUME TypeOK, TypeOK', CapacityInv, ClaimsShrink
  PROVE  CapacityInv'
<1> SUFFICES ASSUME NEW a \in Account, Limit[a] > 0
             PROVE  Cardinality(Claimants(a)') < Limit[a] + Cardinality(Proc)
  BY DEF CapacityInv
<1>1. Cardinality(Proc) \in Nat /\ Limit[a] \in Nat
  BY ServiceAssumption, FS_CardinalityType
<1>2. IsFiniteSet(Claimants(a)) /\ Cardinality(Claimants(a)) \in Nat
  BY Finiteness
<1>3. Claimants(a)' \in SUBSET Claimants(a)
  BY DEF ClaimsShrink
<1>4. /\ Cardinality(Claimants(a)') <= Cardinality(Claimants(a))
      /\ Cardinality(Claimants(a)') \in Nat
  BY <1>2, <1>3, FS_Subset, FS_CardinalityType
<1>5. Cardinality(Claimants(a)) < Limit[a] + Cardinality(Proc)
  BY DEF CapacityInv
<1> QED
  BY <1>1, <1>2, <1>4, <1>5

LEMMA ClaimOf ==
  ASSUME NEW p \in Proc, NEW a, MayWrite(req[p], a)
  PROVE  req[p].user \in Claimants(a)
  BY DEF Claimants, Pending

\* A handler that goes on as r claims nothing new when its renter has the
\* claim already.
LEMMA BecomeShrinks ==
  ASSUME TypeOK, NEW p \in Proc, NEW r, Become(p, r),
         NEW a, MayWrite(r, a) => r.user \in Claimants(a),
         Holders(a)' \subseteq Claimants(a)
  PROVE  Claimants(a)' \subseteq Claimants(a)
<1>1. req' = [req EXCEPT ![p] = r] /\ req \in [Proc -> Request]
  BY DEF Become, TypeOK, ServiceTypeOK
<1>2. ASSUME NEW q \in Proc, MayWrite(req'[q], a) PROVE req'[q].user \in Claimants(a)
  <2>1. CASE q = p
    BY <1>1, <1>2, <2>1
  <2>2. CASE q # p
    <3>1. req'[q] = req[q]
      BY <1>1, <2>2
    <3> QED
      BY <1>2, <3>1, ClaimOf
  <2> QED
    BY <2>1, <2>2
<1>3. Pending(a)' \subseteq Claimants(a)
  BY <1>2 DEF Pending, MayWrite
<1> QED
  BY <1>3 DEF Claimants

\* The lease keys a step may touch.
LEMMA HoldersKept ==
  ASSUME UNCHANGED lease, NEW a
  PROVE  Holders(a)' = Holders(a) /\ Holders(a)' \subseteq Claimants(a)
  BY DEF Holders, Claimants

LEMMA HoldersShrink ==
  ASSUME TypeOK, NEW u, DelLeaseKey(u) \/ UNCHANGED lease, NEW a
  PROVE  Holders(a)' \subseteq Holders(a) /\ Holders(a)' \subseteq Claimants(a)
<1>1. ASSUME NEW v \in User, lease'[v] # None PROVE lease'[v] = lease[v]
  BY <1>1 DEF DelLeaseKey, TypeOK, StoreTypeOK
<1> QED
  BY <1>1 DEF Holders, Claimants

LEMMA HoldersGrow ==
  ASSUME TypeOK, NEW u, NEW l, SetLeaseKey(u, l), NEW a, l.acct = a => u \in Claimants(a)
  PROVE  Holders(a)' \subseteq Claimants(a)
<1>1. ASSUME NEW v \in User, v # u PROVE lease'[v] = lease[v]
  BY <1>1 DEF SetLeaseKey, TypeOK, StoreTypeOK
<1>2. u \in User => lease'[u] = l
  BY DEF SetLeaseKey, TypeOK, StoreTypeOK
<1> QED
  BY <1>1, <1>2 DEF Holders, Claimants

\* The ways a handler goes on.
LEMMA FinishShrinks ==
  ASSUME TypeOK, NEW p \in Proc, Finish(p), NEW a, Holders(a)' \subseteq Claimants(a)
  PROVE  Claimants(a)' \subseteq Claimants(a)
<1>1. ~MayWrite(Idle, a)
  BY DEF MayWrite, Idle
<1> QED
  BY <1>1, BecomeShrinks DEF Finish

LEMMA ResumeShrinks ==
  ASSUME TypeOK, NEW p \in Proc, NEW r, r.ret \in Continuation, Resume(p, r),
         NEW a, Holders(a)' \subseteq Claimants(a)
  PROVE  Claimants(a)' \subseteq Claimants(a)
<1> DEFINE next == IF r.ret = "idle" THEN Idle
                   ELSE [Idle EXCEPT !.pc = r.ret, !.ret = r.ret, !.todo = r.todo,
                                     !.user = IF r.ret = "aRead" THEN r.user ELSE None,
                                     !.force = r.force, !.exclude = r.exclude]
<1>1. next.pc = r.ret
  BY DEF Idle
<1>2. Become(p, next)
  BY DEF Resume
<1> HIDE DEF next
<1>3. ~MayWrite(next, a)
  BY <1>1 DEF MayWrite, Continuation
<1> QED
  BY <1>2, <1>3, BecomeShrinks

LEMMA GotoShrinks ==
  ASSUME TypeOK, NEW p \in Proc, NEW l, Goto(p, l), NEW a, Holders(a)' \subseteq Claimants(a),
         MayWrite([req[p] EXCEPT !.pc = l], a) => MayWrite(req[p], a)
  PROVE  Claimants(a)' \subseteq Claimants(a)
<1>1. [req[p] EXCEPT !.pc = l].user = req[p].user
  BY DEF TypeOK, ServiceTypeOK, Request
<1> QED
  BY <1>1, ClaimOf, BecomeShrinks DEF Goto

LEMMA NextShrinks ==
  ASSUME TypeOK, NEW p \in Proc, NextCandidate(p, req[p]),
         req[p].pc \in {"aCount", "aFail", "aResolve"},
         NEW a, Holders(a)' \subseteq Claimants(a)
  PROVE  Claimants(a)' \subseteq Claimants(a)
<1> DEFINE r == req[p]
           next == [r EXCEPT !.pc = "aSelect", !.exclude = @ \cup {r.acct},
                             !.prefer = None, !.acct = None, !.over = FALSE,
                             !.before = {}, !.mint = None, !.sess = None]
<1>1. next.pc = "aSelect" /\ next.cur = r.cur /\ next.user = r.user
  BY DEF TypeOK, ServiceTypeOK, Request
<1>2. Become(p, next)
  BY DEF NextCandidate
<1> HIDE DEF next
<1>3. MayWrite(next, a) => MayWrite(r, a)
  BY <1>1 DEF MayWrite
<1> QED
  BY <1>1, <1>2, <1>3, ClaimOf, BecomeShrinks

-----------------------------------------------------------------------------
LEMMA AcquireShrinks ==
  ASSUME TypeOK, NEW p \in Proc, NEW a \in Account,
         \/ AcquireRead(p) \/ AcquireSelect(p) \/ AcquireSnapshot(p)
         \/ AcquireRefresh(p) \/ AcquireStore(p) \/ AcquireFail(p)
         \/ AcquireResolve(p) \/ AcquireSetLease(p) \/ AcquireSetMeta(p)
         \/ AcquireDone(p)
  PROVE  Claimants(a)' \subseteq Claimants(a)
<1> DEFINE r == req[p]
<1>1. r \in Request /\ Bound(r)
  BY DEF TypeOK, ServiceTypeOK
<1> USE <1>1
<1>2. CASE AcquireRead(p)
  <2> DEFINE cur == lease[r.user]
             stay == ~r.force /\ cur # None /\ cur.acct \notin r.exclude
             prefer == IF stay THEN cur.acct ELSE None
             next == [r EXCEPT !.pc = "aSelect", !.cur = cur, !.prefer = prefer]
  <2>1. Become(p, next) /\ UNCHANGED lease /\ r.user \in User
    BY <1>2 DEF AcquireRead, At, Bound, Request
  <2>2. next.pc = "aSelect" /\ next.cur = cur /\ next.user = r.user
    BY DEF Request
  <2>3. cur # None /\ cur.acct = a => r.user \in Holders(a)
    BY <2>1 DEF Holders
  <2> HIDE DEF next, cur
  <2>4. MayWrite(next, a) => next.user \in Claimants(a)
    BY <2>2, <2>3 DEF MayWrite, Claimants
  <2> QED
    BY <2>1, <2>4, HoldersKept, BecomeShrinks
<1>3. CASE AcquireSelect(p)
  <2>1. r.pc = "aSelect" /\ UNCHANGED lease
    BY <1>3 DEF AcquireSelect, At
  <2>2. Finish(p) \/ \E b : Become(p, [r EXCEPT !.pc = "aCount", !.acct = b])
    BY <1>3 DEF AcquireSelect
  <2>3. ASSUME NEW b, Become(p, [r EXCEPT !.pc = "aCount", !.acct = b])
        PROVE  Claimants(a)' \subseteq Claimants(a)
    <3> DEFINE next == [r EXCEPT !.pc = "aCount", !.acct = b]
    <3>1. next.pc = "aCount" /\ next.cur = r.cur /\ next.user = r.user
      BY DEF Request
    <3>2. Become(p, next)
      BY <2>3
    <3> HIDE DEF next
    <3>3. MayWrite(next, a) => MayWrite(r, a)
      BY <2>1, <3>1 DEF MayWrite
    <3> QED
      BY <2>1, <3>1, <3>2, <3>3, ClaimOf, HoldersKept, BecomeShrinks
  <2> QED
    BY <2>1, <2>2, <2>3, HoldersKept, FinishShrinks
<1>4. CASE AcquireSnapshot(p)
  <2>1. r.pc = "aSnap" /\ UNCHANGED lease
    BY <1>4 DEF AcquireSnapshot, At
  <2> DEFINE next == [r EXCEPT !.pc = "aRefresh", !.before = LiveOf(r.acct)]
  <2>2. Goto(p, "aFail") \/ Goto(p, "aRefresh") \/ Become(p, next)
    BY <1>4 DEF AcquireSnapshot
  <2>3. /\ MayWrite([r EXCEPT !.pc = "aFail"], a) => MayWrite(r, a)
        /\ MayWrite([r EXCEPT !.pc = "aRefresh"], a) => MayWrite(r, a)
        /\ MayWrite(next, a) => MayWrite(r, a)
        /\ next.user = r.user
    BY <2>1 DEF MayWrite, Request
  <2> HIDE DEF next
  <2> QED
    BY <2>1, <2>2, <2>3, ClaimOf, HoldersKept, GotoShrinks, BecomeShrinks
<1>5. CASE AcquireRefresh(p)
  <2>1. r.pc = "aRefresh" /\ UNCHANGED lease
    BY <1>5 DEF AcquireRefresh, At
  <2> DEFINE next == [r EXCEPT !.pc = "aStore", !.mint = NextSession(r.acct)]
  <2>2. Goto(p, "aFail") \/ Finish(p) \/ Become(p, next)
    BY <1>5 DEF AcquireRefresh
  <2>3. /\ MayWrite([r EXCEPT !.pc = "aFail"], a) => MayWrite(r, a)
        /\ MayWrite(next, a) => MayWrite(r, a)
        /\ next.user = r.user
    BY <2>1 DEF MayWrite, Request
  <2> HIDE DEF next
  <2> QED
    BY <2>1, <2>2, <2>3, ClaimOf, HoldersKept, GotoShrinks, FinishShrinks, BecomeShrinks
<1>6. CASE AcquireStore(p)
  <2>1. r.pc = "aStore" /\ UNCHANGED lease /\ (Goto(p, "aResolve") \/ Goto(p, "aFail"))
    BY <1>6 DEF AcquireStore, At
  <2>2. /\ MayWrite([r EXCEPT !.pc = "aFail"], a) => MayWrite(r, a)
        /\ MayWrite([r EXCEPT !.pc = "aResolve"], a) => MayWrite(r, a)
    BY <2>1 DEF MayWrite, Request
  <2> QED
    BY <2>1, <2>2, HoldersKept, GotoShrinks
<1>7. CASE AcquireFail(p)
  BY <1>7, HoldersKept, NextShrinks DEF AcquireFail, At
<1>8. CASE AcquireResolve(p)
  <2>1. r.pc = "aResolve" /\ UNCHANGED lease
    BY <1>8 DEF AcquireResolve, At
  <2> DEFINE next(s) == [r EXCEPT !.pc = "aLease", !.sess = s, !.before = {}]
  <2>2. NextCandidate(p, r) \/ \E s : Become(p, next(s))
    BY <1>8 DEF AcquireResolve
  <2>3. ASSUME NEW s PROVE (MayWrite(next(s), a) => MayWrite(r, a)) /\ next(s).user = r.user
    BY <2>1 DEF MayWrite, Request
  <2> HIDE DEF next
  <2> QED
    BY <2>1, <2>2, <2>3, ClaimOf, HoldersKept, NextShrinks, BecomeShrinks
<1>9. CASE AcquireSetLease(p)
  <2>1. r.pc = "aLease"
    BY <1>9 DEF AcquireSetLease, At
  <2>2. CASE Finish(p) /\ UNCHANGED lease
    BY <2>2, HoldersKept, FinishShrinks
  <2>3. CASE SetLeaseKey(r.user, Stamp(r.user, r.acct, r.sess)) /\ Goto(p, "aMeta")
    <3>1. Stamp(r.user, r.acct, r.sess).acct = r.acct
      BY DEF Stamp
    <3>2. r.acct = a => r.user \in Claimants(a)
      BY <2>1, ClaimOf DEF MayWrite
    <3>3. ~MayWrite([r EXCEPT !.pc = "aMeta"], a)
      BY DEF MayWrite, Request
    <3> QED
      BY <2>3, <3>1, <3>2, <3>3, HoldersGrow, GotoShrinks
  <2> QED
    BY <1>9, <2>2, <2>3 DEF AcquireSetLease
<1>10. CASE AcquireSetMeta(p)
  <2>1. ~MayWrite([r EXCEPT !.pc = "aDone"], a)
    BY DEF MayWrite, Request
  <2> QED
    BY <1>10, <2>1, HoldersKept, GotoShrinks DEF AcquireSetMeta, SetRevokeMeta
<1>11. CASE AcquireDone(p)
  BY <1>11, HoldersKept, FinishShrinks DEF AcquireDone
<1> QED
  BY <1>2, <1>3, <1>4, <1>5, <1>6, <1>7, <1>8, <1>9, <1>10, <1>11

\* Everything but acquire and renew goes on without a claim.
LEMMA OthersShrink ==
  ASSUME TypeOK, NEW p \in Proc, NEW a \in Account,
         \/ Start(p) \/ RemoveList(p)
         \/ StatusRead(p) \/ StatusMeta(p) \/ StatusCheck(p)
         \/ ReleaseGet(p) \/ ReleaseDel(p) \/ ReleaseMeta(p) \/ ReleasePop(p)
         \/ ReleaseCount(p) \/ ReleaseRevoke(p) \/ ReleaseRotate(p) \/ ReleaseStore(p)
         \/ SweepLease(p) \/ SweepCheck(p) \/ SweepOrphan(p) \/ RemoveNext(p)
  PROVE  Claimants(a)' \subseteq Claimants(a)
<1> DEFINE r == req[p]
           Free == {"aRead", "nRead", "sRead", "sMeta", "sCheck", "lGet", "lDel", "lMeta",
                    "lPop", "lCount", "lRevoke", "lRotate", "lStore", "wLease", "wCheck",
                    "wOrphan", "xList", "xNext"}
<1>1. r \in Request
  BY DEF TypeOK, ServiceTypeOK
<1>2. r.ret \in Continuation
  BY <1>1 DEF Request
<1>3. Holders(a)' \subseteq Claimants(a)
  <2>1. \/ UNCHANGED lease
        \/ DelLeaseKey(r.user)
    BY DEF Start, StartAcquire, StartRotate, StartRenew, StartStatus, StartRelease,
       StartRemove, StartSweep, RemoveList, StatusRead, StatusMeta, StatusCheck,
       ReleaseGet, ReleaseDel, ReleaseMeta, ReleasePop, ReleaseCount, ReleaseRevoke,
       ReleaseRotate, ReleaseStore, SweepLease, SweepCheck, SweepOrphan, RemoveNext,
       DelRevokeMeta
  <2> QED
    BY <2>1, HoldersShrink
<1>4. ASSUME NEW s, s.pc \in Free, Become(p, s) PROVE Claimants(a)' \subseteq Claimants(a)
  <2>1. ~MayWrite(s, a)
    BY <1>4 DEF MayWrite
  <2> QED
    BY <1>3, <1>4, <2>1, BecomeShrinks
<1>5. ASSUME NEW l \in Free, Goto(p, l) PROVE Claimants(a)' \subseteq Claimants(a)
  <2> DEFINE next == [r EXCEPT !.pc = l]
  <2>1. next.pc \in Free
    BY <1>1 DEF Request
  <2>2. Become(p, next)
    BY <1>5 DEF Goto
  <2> HIDE DEF next, Free
  <2> QED
    BY <1>4, <2>1, <2>2
<1>6. CASE Start(p) \/ RemoveList(p)
  <2>1. \E s : s.pc \in Free /\ Become(p, s)
    <3>1. ASSUME NEW l \in {"aRead", "nRead", "sRead", "lGet"}, NEW u
          PROVE  [Idle EXCEPT !.pc = l, !.user = u].pc \in Free
      BY DEF Idle
    <3>2. ASSUME NEW u
          PROVE  [Idle EXCEPT !.pc = "sRead", !.ret = "aRead", !.user = u,
                              !.force = TRUE].pc \in Free
      BY DEF Idle
    <3>3. ASSUME NEW b PROVE [Idle EXCEPT !.pc = "xList", !.acct = b].pc \in Free
      BY DEF Idle
    <3>4. ASSUME NEW l \in {"wLease", "xNext"}, NEW s
          PROVE  [Idle EXCEPT !.pc = l, !.ret = l, !.todo = s].pc \in Free
      BY DEF Idle
    <3> HIDE DEF Free
    <3> QED
      BY <1>6, <3>1, <3>2, <3>3, <3>4
      DEF Start, StartAcquire, StartRotate, StartRenew, StartStatus, StartRelease,
          StartRemove, StartSweep, RemoveList
  <2> QED
    BY <1>4, <2>1
<1>7. CASE StatusRead(p) \/ ReleaseGet(p)
  <2> DEFINE next(l) == [r EXCEPT !.pc = l, !.cur = lease[r.user]]
  <2>1. ASSUME NEW l \in Free PROVE next(l).pc \in Free
    BY <1>1 DEF Request
  <2>2. \E l \in {"sMeta", "sCheck", "lDel"} : Become(p, next(l))
    BY <1>7 DEF StatusRead, ReleaseGet
  <2>3. {"sMeta", "sCheck", "lDel"} \subseteq Free
    OBVIOUS
  <2> HIDE DEF next, Free
  <2> QED
    BY <1>4, <2>1, <2>2, <2>3
<1>8. CASE \/ StatusMeta(p) \/ StatusCheck(p) \/ ReleaseDel(p) \/ ReleasePop(p)
           \/ ReleaseRevoke(p) \/ ReleaseStore(p) \/ SweepCheck(p)
  <2> DEFINE more == [r EXCEPT !.exclude = @ \cup {r.cur.acct}]
  <2>1. more.ret \in Continuation
    BY <1>1, <1>2 DEF Request
  <2>2. \/ Finish(p) \/ Resume(p, r) \/ Resume(p, more)
        \/ Goto(p, "lGet") \/ Goto(p, "lMeta") \/ Goto(p, "lCount") \/ Goto(p, "lRotate")
    BY <1>8 DEF StatusMeta, StatusCheck, ReleaseDel, ReleasePop, ReleaseRevoke,
       ReleaseStore, SweepCheck
  <2> HIDE DEF more
  <2> QED
    BY <1>2, <1>3, <1>5, <2>1, <2>2, FinishShrinks, ResumeShrinks
<1>9. CASE ReleaseMeta(p) \/ ReleaseCount(p) \/ ReleaseRotate(p)
  <2> DEFINE target(m, l) == [r EXCEPT !.pc = l, !.acct = m.acct, !.sess = m.sess]
             counted(b) == [r EXCEPT !.pc = "lRevoke", !.last = b]
             minting(x) == [r EXCEPT !.pc = "lStore", !.mint = x]
  <2>1. /\ \A m : target(m, "lPop").pc \in Free /\ target(m, "lCount").pc \in Free
        /\ \A x : counted(x).pc \in Free /\ minting(x).pc \in Free
    BY <1>1 DEF Request
  <2>2. CASE ReleaseMeta(p)
    <3>1. \/ Resume(p, r)
          \/ \E m : Become(p, target(m, "lPop")) \/ Become(p, target(m, "lCount"))
      BY <2>2 DEF ReleaseMeta
    <3> HIDE DEF target, Free
    <3> QED
      BY <1>2, <1>3, <1>4, <2>1, <3>1, ResumeShrinks
  <2>3. CASE ReleaseCount(p) \/ ReleaseRotate(p)
    <3>1. \/ Resume(p, r)
          \/ \E x : Become(p, counted(x)) \/ Become(p, minting(x))
      BY <2>3 DEF ReleaseCount, ReleaseRotate
    <3> HIDE DEF counted, minting, Free
    <3> QED
      BY <1>2, <1>3, <1>4, <2>1, <3>1, ResumeShrinks
  <2> QED
    BY <1>9, <2>2, <2>3
<1>10. CASE SweepLease(p) \/ SweepOrphan(p) \/ RemoveNext(p)
  <2> DEFINE orphans == [Idle EXCEPT !.pc = "wOrphan", !.ret = "wOrphan",
                                     !.todo = OrphanUsers]
             skip(u) == [r EXCEPT !.todo = @ \ {u}]
             visit(u) == [r EXCEPT !.pc = "wCheck", !.todo = @ \ {u}, !.user = u,
                                   !.cur = lease[u]]
             take(u) == [r EXCEPT !.pc = "lGet", !.user = u, !.todo = @ \ {u}]
  <2>1. orphans.pc \in Free
    BY DEF Idle
  <2>2. ASSUME NEW u
        PROVE  /\ visit(u).pc \in Free /\ take(u).pc \in Free
               /\ r.pc = "wLease" => skip(u).pc \in Free
    BY <1>1 DEF Request
  <2>3. \/ Finish(p) \/ Become(p, orphans)
        \/ \E u : \/ Become(p, visit(u)) \/ Become(p, take(u))
                  \/ r.pc = "wLease" /\ Become(p, skip(u))
    BY <1>10 DEF SweepLease, SweepOrphan, RemoveNext, At
  <2> HIDE DEF orphans, skip, visit, take
  <2> QED
    BY <1>3, <1>4, <2>1, <2>2, <2>3, FinishShrinks
<1> QED
  BY <1>6, <1>7, <1>8, <1>9, <1>10

LEMMA RenewShrinks ==
  ASSUME TypeOK, NEW p \in Proc, NEW a \in Account,
         \/ RenewRead(p) \/ RenewMeta(p) \/ RenewCheck(p)
         \/ RenewSetLease(p) \/ RenewSetMeta(p)
  PROVE  Claimants(a)' \subseteq Claimants(a)
<1> DEFINE r == req[p]
<1>1. r \in Request /\ Bound(r)
  BY DEF TypeOK, ServiceTypeOK
<1> USE <1>1
<1>2. CASE RenewRead(p)
  <2> DEFINE cur == lease[r.user]
             label == IF cur = None THEN "nMeta" ELSE "nCheck"
             next == [r EXCEPT !.pc = label, !.cur = cur]
  <2>1. Become(p, next) /\ UNCHANGED lease /\ r.user \in User
    BY <1>2 DEF RenewRead, At, Bound, Request
  <2>2. next.pc \in {"nMeta", "nCheck"} /\ next.cur = cur /\ next.user = r.user
    BY DEF Request
  <2>3. cur # None /\ cur.acct = a => r.user \in Holders(a)
    BY <2>1 DEF Holders
  <2> HIDE DEF next, cur
  <2>4. MayWrite(next, a) => next.user \in Claimants(a)
    BY <2>2, <2>3 DEF MayWrite, Claimants
  <2> QED
    BY <2>1, <2>4, HoldersKept, BecomeShrinks
<1>3. CASE RenewMeta(p) \/ RenewCheck(p)
  <2>1. /\ UNCHANGED lease
        /\ Finish(p) \/ Goto(p, "lGet") \/ (r.pc = "nCheck" /\ Goto(p, "nLease"))
    BY <1>3 DEF RenewMeta, RenewCheck, At
  <2>2. /\ ~MayWrite([r EXCEPT !.pc = "lGet"], a)
        /\ r.pc = "nCheck" /\ MayWrite([r EXCEPT !.pc = "nLease"], a) => MayWrite(r, a)
    BY DEF MayWrite, Request
  <2> QED
    BY <2>1, <2>2, HoldersKept, FinishShrinks, GotoShrinks
<1>4. CASE RenewSetLease(p)
  <2>1. r.pc = "nLease" /\ r.cur # None
    BY <1>4 DEF RenewSetLease, At, Bound
  <2>2. CASE Finish(p) /\ UNCHANGED lease
    BY <2>2, HoldersKept, FinishShrinks
  <2>3. CASE SetLeaseKey(r.user, Stamp(r.user, r.cur.acct, r.cur.sess)) /\ Goto(p, "nSetMeta")
    <3>1. Stamp(r.user, r.cur.acct, r.cur.sess).acct = r.cur.acct
      BY DEF Stamp
    <3>2. r.cur.acct = a => r.user \in Claimants(a)
      BY <2>1, ClaimOf DEF MayWrite
    <3>3. ~MayWrite([r EXCEPT !.pc = "nSetMeta"], a)
      BY DEF MayWrite, Request
    <3> QED
      BY <2>3, <3>1, <3>2, <3>3, HoldersGrow, GotoShrinks
  <2> QED
    BY <1>4, <2>2, <2>3 DEF RenewSetLease
<1>5. CASE RenewSetMeta(p)
  <2> DEFINE next == [Idle EXCEPT !.pc = "sRead", !.user = r.user]
  <2>1. Become(p, next) /\ UNCHANGED lease
    BY <1>5 DEF RenewSetMeta, SetRevokeMeta
  <2>2. ~MayWrite(next, a)
    BY DEF MayWrite, Idle
  <2> QED
    BY <2>1, <2>2, HoldersKept, BecomeShrinks
<1> QED
  BY <1>2, <1>3, <1>4, <1>5

LEMMA EnvironmentShrinks ==
  ASSUME TypeOK, NEW a \in Account, Environment
  PROVE  Claimants(a)' \subseteq Claimants(a)
<1>1. ASSUME NEW p \in Proc, Crash(p) PROVE Claimants(a)' \subseteq Claimants(a)
  BY <1>1, HoldersKept, FinishShrinks DEF Crash
<1>2. ASSUME NEW u \in User, Expire(u) \/ ExpireMeta(u)
      PROVE  Claimants(a)' \subseteq Claimants(a)
  <2>1. UNCHANGED req /\ (DelLeaseKey(u) \/ UNCHANGED lease)
    BY <1>2 DEF Expire, ExpireMeta, DelRevokeMeta
  <2>2. Holders(a)' \subseteq Holders(a)
    BY <2>1, HoldersShrink
  <2> QED
    BY <2>1, <2>2 DEF Claimants, Pending, MayWrite
<1>3. ASSUME UNCHANGED <<lease, req>> PROVE Claimants(a)' \subseteq Claimants(a)
  BY <1>3 DEF Claimants, Pending, MayWrite, Holders
<1>4. ASSUME NEW b \in Account,
             \/ EndCycle(b) \/ RefreshCycle(b) \/ SyncToken(b) \/ Unbind(b)
             \/ SetEnabled(b) \/ AddMember(b) \/ CloseCircuit(b) \/ Rebind(b)
      PROVE  UNCHANGED <<lease, req>>
  BY <1>4 DEF EndCycle, RefreshCycle, SyncToken, Unbind, SetEnabled, AddMember,
     CloseCircuit, Rebind
<1> QED
  BY <1>1, <1>2, <1>3, <1>4 DEF Environment

-----------------------------------------------------------------------------
(* The capacity check                                                      *)

\* It adds its renter to the claims of one account, whose holders it has
\* counted; the claims beside them are those of other handlers.
LEMMA CheckKeeps ==
  ASSUME TypeOK, TypeOK', CapacityInv, NEW p \in Proc, AcquireCount(p)
  PROVE  CapacityInv'
<1> DEFINE r == req[p]
           b == r.acct
           next == [r EXCEPT !.pc = "aSnap", !.over = row[r.acct].ended]
<1>1. r \in Request /\ Bound(r) /\ r.pc = "aCount" /\ UNCHANGED lease
  BY DEF TypeOK, ServiceTypeOK, AcquireCount, At
<1>2. /\ next.pc = "aSnap" /\ next.cur = r.cur /\ next.acct = b /\ next.user = r.user
  BY <1>1 DEF Request
<1>3. CASE Finish(p)
  BY <1>1, <1>3, HoldersKept, FinishShrinks, ShrinkKeeps DEF ClaimsShrink
<1>4. CASE NextCandidate(p, r)
  BY <1>1, <1>4, HoldersKept, NextShrinks, ShrinkKeeps DEF ClaimsShrink
<1>5. CASE Become(p, next) /\ r.cur # None /\ r.cur.acct = b
  <2> HIDE DEF next
  <2>1. ASSUME NEW a \in Account PROVE MayWrite(next, a) => MayWrite(r, a)
    BY <1>1, <1>2, <1>5 DEF MayWrite
  <2>2. ASSUME NEW a \in Account PROVE Claimants(a)' \subseteq Claimants(a)
    BY <1>1, <1>2, <1>5, <2>1, ClaimOf, HoldersKept, BecomeShrinks
  <2> QED
    BY <2>2, ShrinkKeeps DEF ClaimsShrink
<1>6. CASE Become(p, next) /\ ~Full(b, r.user)
  <2> HIDE DEF next
  <2> SUFFICES ASSUME NEW a \in Account, Limit[a] > 0
               PROVE  Cardinality(Claimants(a)') < Limit[a] + Cardinality(Proc)
    BY DEF CapacityInv
  <2>1. Cardinality(Proc) \in Nat /\ Limit[a] \in Nat
    BY ServiceAssumption, FS_CardinalityType
  <2>2. CASE a # b
    <3>1. MayWrite(next, a) => MayWrite(r, a)
      BY <1>1, <1>2, <2>2 DEF MayWrite
    <3>2. Claimants(a)' \in SUBSET Claimants(a)
      BY <1>1, <1>2, <1>6, <3>1, ClaimOf, HoldersKept, BecomeShrinks
    <3>3. IsFiniteSet(Claimants(a)) /\ Cardinality(Claimants(a)) \in Nat
      BY Finiteness
    <3>4. /\ Cardinality(Claimants(a)') <= Cardinality(Claimants(a))
          /\ Cardinality(Claimants(a)') \in Nat
      BY <3>2, <3>3, FS_Subset, FS_CardinalityType
    <3> QED
      BY <2>1, <3>3, <3>4 DEF CapacityInv
  <2>3. CASE a = b
    <3> DEFINE H == Holders(a) \ {r.user}
               T == {req[q].user : q \in Proc \ {p}}
               C == (H \cup T) \cup {r.user}
    <3>1. IsFiniteSet(H) /\ Cardinality(H) \in Nat /\ Cardinality(H) < Limit[a]
      <4>1. IsFiniteSet(H) /\ Cardinality(H) \in Nat
        BY Finiteness, FS_RemoveElement, FS_CardinalityType
      <4>2. ~(Cardinality(H) >= Limit[a])
        BY <1>6, <2>3 DEF Full
      <4> QED
        BY <2>1, <4>1, <4>2
    <3>2. /\ IsFiniteSet(T) /\ Cardinality(T) <= Cardinality(Proc) - 1
          /\ Cardinality(T) \in Nat
      BY OthersPending, FS_CardinalityType
    <3>3. Claimants(a)' \in SUBSET C
      <4>1. req' = [req EXCEPT ![p] = next] /\ req \in [Proc -> Request]
        BY <1>6 DEF Become, TypeOK, ServiceTypeOK
      <4>2. ASSUME NEW q \in Proc PROVE req'[q].user \in C
        <5>1. CASE q = p
          BY <1>2, <4>1, <5>1
        <5>2. CASE q # p
          BY <4>1, <5>2
        <5> QED
          BY <5>1, <5>2
      <4>3. Holders(a)' \subseteq C
        BY <1>1, HoldersKept
      <4> HIDE DEF C
      <4> QED
        BY <4>2, <4>3 DEF Claimants, Pending
    <3> HIDE DEF H, T
    <3>4. /\ IsFiniteSet(H \cup T)
          /\ Cardinality(H \cup T) <= Cardinality(H) + Cardinality(T)
          /\ Cardinality(H \cup T) \in Nat
      <4>1. IsFiniteSet(H \cap T)
        BY <3>1, FS_Subset
      <4>2. Cardinality(H \cap T) \in Nat
        BY <4>1, FS_CardinalityType
      <4>3. /\ IsFiniteSet(H \cup T)
            /\ Cardinality(H \cup T) = Cardinality(H) + Cardinality(T) - Cardinality(H \cap T)
        BY <3>1, <3>2, FS_Union
      <4> QED
        BY <3>1, <3>2, <4>2, <4>3, FS_CardinalityType
    <3>5. /\ IsFiniteSet(C) /\ Cardinality(C) \in Nat
          /\ Cardinality(C) <= Cardinality(H \cup T) + 1
      <4>1. /\ IsFiniteSet(C)
            /\ Cardinality(C) = IF r.user \in H \cup T THEN Cardinality(H \cup T)
                                ELSE Cardinality(H \cup T) + 1
        BY <3>4, FS_AddElement
      <4> QED
        BY <3>4, <4>1, FS_CardinalityType
    <3>6. Cardinality(Claimants(a)') <= Cardinality(C) /\ Cardinality(Claimants(a)') \in Nat
      <4> HIDE DEF C
      <4> QED
        BY <3>3, <3>5, FS_Subset, FS_CardinalityType
    <3> QED
      BY <2>1, <3>1, <3>2, <3>4, <3>5, <3>6
  <2> QED
    BY <2>2, <2>3
<1> QED
  BY <1>3, <1>4, <1>5, <1>6 DEF AcquireCount

-----------------------------------------------------------------------------
LEMMA CapacityInvInit == Init => CapacityInv
<1> SUFFICES ASSUME Init, NEW a \in Account, Limit[a] > 0
             PROVE  Cardinality(Claimants(a)) < Limit[a] + Cardinality(Proc)
  BY DEF CapacityInv
<1>1. ~MayWrite(Idle, a)
  BY DEF MayWrite, Idle
<1>2. Claimants(a) = {}
  BY <1>1 DEF Init, StoreInit, Claimants, Holders, Pending
<1>3. Cardinality(Claimants(a)) = 0
  BY <1>2, FS_EmptySet
<1>4. Cardinality(Proc) \in Nat /\ Limit[a] \in Nat
  BY ServiceAssumption, FS_CardinalityType
<1> QED
  BY <1>3, <1>4

LEMMA CapacityInvStep == TypeOK /\ CapacityInv /\ [Next]_vars => CapacityInv'
<1> SUFFICES ASSUME TypeOK, CapacityInv, [Next]_vars PROVE CapacityInv'
  OBVIOUS
<1>1. TypeOK'
  BY StepTyped
<1>2. CASE UNCHANGED vars
  BY <1>1, <1>2, ShrinkKeeps
  DEF vars, ClaimsShrink, Claimants, Pending, MayWrite, Holders
<1>3. CASE Environment
  BY <1>1, <1>3, EnvironmentShrinks, ShrinkKeeps DEF ClaimsShrink
<1>4. ASSUME NEW p \in Proc, Start(p) PROVE CapacityInv'
  BY <1>1, <1>4, OthersShrink, ShrinkKeeps DEF ClaimsShrink
<1>5. ASSUME NEW p \in Proc, Continue(p) PROVE CapacityInv'
  <2>1. CASE AcquireCount(p)
    BY <1>1, <2>1, CheckKeeps
  <2>2. CASE ~AcquireCount(p)
    <3>1. ASSUME NEW a \in Account PROVE Claimants(a)' \subseteq Claimants(a)
      BY <1>5, <2>2, AcquireShrinks, RenewShrinks, OthersShrink DEF Continue
    <3> QED
      BY <1>1, <3>1, ShrinkKeeps DEF ClaimsShrink
  <2> QED
    BY <2>1, <2>2
<1> QED
  BY <1>2, <1>3, <1>4, <1>5 DEF Next

\* No account ever has more renters than its limit and one for every handler
\* but one, however the handlers interleave and whatever expires under them.
THEOREM CapacityIsBounded == Spec => []CapacityBound
<1>1. Init => TypeOK /\ CapacityInv
  BY InitTyped, CapacityInvInit
<1>2. TypeOK /\ CapacityInv /\ [Next]_vars => (TypeOK /\ CapacityInv)'
  BY StepTyped, CapacityInvStep
<1> QED
  BY <1>1, <1>2, CapacityInvImplies, PTL DEF Spec

-----------------------------------------------------------------------------
(* The refinement                                                          *)

LEMMA ContractInit == Init => Contract!Init
  BY DEF Init, StoreInit, Contract!Init

\* How the lease keys may change in a step: not at all, by the loss of a key,
\* or by a write for a renter who has a claim on the account.
LEMMA LeaseChanges ==
  ASSUME TypeOK, [Next]_vars
  PROVE  \/ UNCHANGED lease
         \/ \E u \in User : DelLeaseKey(u)
         \/ \E u \in User, a \in Account : \E l :
               SetLeaseKey(u, l) /\ l # None /\ l.acct = a /\ u \in Claimants(a)
<1> DEFINE Changes ==
      \/ UNCHANGED lease
      \/ \E u \in User : DelLeaseKey(u)
      \/ \E u \in User, a \in Account : \E l :
            SetLeaseKey(u, l) /\ l # None /\ l.acct = a /\ u \in Claimants(a)
<1>1. ASSUME NEW p \in Proc PROVE req[p] \in Request /\ Bound(req[p])
  BY DEF TypeOK, ServiceTypeOK
<1>2. ASSUME NEW p \in Proc, AcquireSetLease(p) PROVE Changes
  <2> DEFINE r == req[p]
             l == Stamp(r.user, r.acct, r.sess)
  <2>1. r.pc = "aLease" /\ r.user \in User /\ r.acct \in Account /\ r.sess \in MaybeSession
    BY <1>1, <1>2 DEF AcquireSetLease, At, Request, Bound
  <2>2. l \in Lease /\ l.acct = r.acct
    BY <2>1, StampSound DEF TypeOK, ServiceTypeOK, Stamp
  <2>3. r.user \in Claimants(r.acct)
    BY <2>1, ClaimOf DEF MayWrite
  <2>4. UNCHANGED lease \/ SetLeaseKey(r.user, l)
    BY <1>2 DEF AcquireSetLease
  <2> HIDE DEF l
  <2> QED
    BY <2>1, <2>2, <2>3, <2>4, NoneIsNoRecord
<1>3. ASSUME NEW p \in Proc, RenewSetLease(p) PROVE Changes
  <2> DEFINE r == req[p]
             l == Stamp(r.user, r.cur.acct, r.cur.sess)
  <2>1. r.pc = "nLease" /\ r.user \in User /\ r.cur # None /\ r.cur \in Lease
    BY <1>1, <1>3 DEF RenewSetLease, At, Request, Bound
  <2>2. r.cur.acct \in Account /\ r.cur.sess \in MaybeSession
    BY <2>1 DEF Lease
  <2>3. l \in Lease /\ l.acct = r.cur.acct
    BY <2>1, <2>2, StampSound DEF TypeOK, ServiceTypeOK, Stamp
  <2>4. r.user \in Claimants(r.cur.acct)
    BY <2>1, ClaimOf DEF MayWrite
  <2>5. UNCHANGED lease \/ SetLeaseKey(r.user, l)
    BY <1>3 DEF RenewSetLease
  <2> HIDE DEF l
  <2> QED
    BY <2>1, <2>2, <2>3, <2>4, <2>5, NoneIsNoRecord
<1>4. ASSUME NEW p \in Proc, ReleaseDel(p) PROVE Changes
  <2>1. req[p].user \in User
    BY <1>1, <1>4 DEF ReleaseDel, At, Request, Bound
  <2> QED
    BY <1>4, <2>1 DEF ReleaseDel
<1>5. ASSUME NEW p \in Proc, Start(p) PROVE Changes
  BY <1>5 DEF Start, StartAcquire, StartRotate, StartRenew, StartStatus, StartRelease,
     StartRemove, StartSweep
<1>6. ASSUME NEW p \in Proc, Continue(p),
             ~AcquireSetLease(p), ~RenewSetLease(p), ~ReleaseDel(p)
      PROVE  Changes
  BY <1>6 DEF Continue, AcquireRead, AcquireSelect, AcquireCount, AcquireSnapshot,
     AcquireRefresh, AcquireStore, AcquireFail, AcquireResolve, AcquireSetMeta,
     AcquireDone, RenewRead, RenewMeta, RenewCheck, RenewSetMeta, StatusRead,
     StatusMeta, StatusCheck, ReleaseGet, ReleaseMeta, ReleasePop, ReleaseCount,
     ReleaseRevoke, ReleaseRotate, ReleaseStore, SweepLease, SweepCheck, SweepOrphan,
     RemoveList, RemoveNext, SetRevokeMeta, DelRevokeMeta
<1>7. CASE Environment
  BY <1>7 DEF Environment, Expire, ExpireMeta, DelRevokeMeta, EndCycle, RefreshCycle,
     SyncToken, Unbind, SetEnabled, AddMember, CloseCircuit, Rebind, Crash
<1>8. CASE UNCHANGED vars
  BY <1>8 DEF vars
<1> QED
  BY <1>2, <1>3, <1>4, <1>5, <1>6, <1>7, <1>8 DEF Next

LEMMA ContractStep ==
  ASSUME TypeOK, CapacityInv, [Next]_vars
  PROVE  [Contract!Next]_([u \in User |-> IF lease[u] = None THEN None ELSE lease[u].acct])
<1> DEFINE held == [u \in User |-> IF lease[u] = None THEN None ELSE lease[u].acct]
<1>1. lease \in [User -> Lease \cup {None}]
  BY DEF TypeOK, StoreTypeOK
<1>2. CASE UNCHANGED lease
  BY <1>2
<1>3. ASSUME NEW u \in User, DelLeaseKey(u) PROVE Contract!End(u)
  <2>1. lease' = [lease EXCEPT ![u] = None]
    BY <1>3 DEF DelLeaseKey
  <2>2. held' = [held EXCEPT ![u] = None]
    BY <1>1, <2>1
  <2> QED
    BY <2>2 DEF Contract!End
<1>4. ASSUME NEW u \in User, NEW a \in Account, NEW l,
             SetLeaseKey(u, l), l # None, l.acct = a, u \in Claimants(a)
      PROVE  Contract!Grant(u, a)
  <2>1. lease' = [lease EXCEPT ![u] = l]
    BY <1>4 DEF SetLeaseKey
  <2>2. held' = [held EXCEPT ![u] = a]
    BY <1>1, <1>4, <2>1
  <2>3. Contract!Renters(a) = Holders(a)
    BY NoneAssumption DEF Contract!Renters, Holders
  <2>4. ASSUME Limit[a] > 0
        PROVE  Cardinality(Holders(a) \ {u}) < Limit[a] + (Cardinality(Proc) - 1)
    <3>1. Cardinality(Proc) \in Nat /\ Limit[a] \in Nat
      BY ServiceAssumption, FS_CardinalityType
    <3>2. IsFiniteSet(Claimants(a)) /\ Cardinality(Claimants(a)) \in Nat
      BY Finiteness
    <3>3. /\ IsFiniteSet(Claimants(a) \ {u})
          /\ Cardinality(Claimants(a) \ {u}) = Cardinality(Claimants(a)) - 1
      BY <1>4, <3>2, FS_RemoveElement
    <3>4. Holders(a) \ {u} \in SUBSET (Claimants(a) \ {u})
      BY DEF Claimants
    <3>5. /\ Cardinality(Holders(a) \ {u}) <= Cardinality(Claimants(a) \ {u})
          /\ Cardinality(Holders(a) \ {u}) \in Nat
      BY <3>3, <3>4, FS_Subset, FS_CardinalityType
    <3>6. Cardinality(Claimants(a)) < Limit[a] + Cardinality(Proc)
      BY <2>4 DEF CapacityInv
    <3> QED
      BY <3>1, <3>2, <3>3, <3>5, <3>6
  <2>5. Contract!Cardinality(Contract!Renters(a) \ {u})
          = Cardinality(Contract!Renters(a) \ {u})
    BY DEF Contract!Cardinality, Cardinality
  <2>6. Limit[a] > 0 => Contract!Cardinality(Contract!Renters(a) \ {u})
                          < Limit[a] + (Cardinality(Proc) - 1)
    BY <2>3, <2>4, <2>5
  <2> QED
    BY <2>2, <2>6 DEF Contract!Grant
<1>5. \/ UNCHANGED lease
      \/ \E u \in User : DelLeaseKey(u)
      \/ \E u \in User, a \in Account : \E l :
            SetLeaseKey(u, l) /\ l # None /\ l.acct = a /\ u \in Claimants(a)
  BY LeaseChanges
<1> QED
  BY <1>2, <1>3, <1>4, <1>5 DEF Contract!Next

\* The lease service implements the contract: every change of a lease key is a
\* grant the contract allows, or the end of one.
THEOREM ServiceImplementsContract == Spec => ImplementsContract
<1>1. Init => TypeOK /\ CapacityInv
  BY InitTyped, CapacityInvInit
<1>2. TypeOK /\ CapacityInv /\ [Next]_vars => (TypeOK /\ CapacityInv)'
  BY StepTyped, CapacityInvStep
<1>3. TypeOK /\ CapacityInv /\ [Next]_vars
        => [Contract!Next]_([u \in User |-> IF lease[u] = None THEN None ELSE lease[u].acct])
  BY ContractStep
<1> QED
  BY <1>1, <1>2, <1>3, ContractInit, PTL DEF Spec, ImplementsContract, Contract!Spec

-----------------------------------------------------------------------------
\* An acquire that means to stay on an account has read a lease of it and has
\* not given it up.
StaysOn(r) ==
    r.pc = "aSelect" /\ r.prefer # None
        => r.cur # None /\ r.cur.acct = r.prefer /\ r.prefer \notin r.exclude

StayInv == \A p \in Proc : StaysOn(req[p])

LEMMA ElsewhereStays ==
  ASSUME TypeOK, StayInv, NEW p \in Proc, NEW next, Become(p, next), StaysOn(next)
  PROVE  StayInv'
<1>1. \A q \in Proc : req'[q] = IF q = p THEN next ELSE req[q]
  BY DEF Become, TypeOK, ServiceTypeOK
<1> QED
  BY <1>1 DEF StayInv

LEMMA BecomeOf ==
  ASSUME NEW p \in Proc, Start(p) \/ Continue(p)
  PROVE  \E next : Become(p, next)
<1>1. /\ \A l : Goto(p, l) => \E next : Become(p, next)
      /\ Finish(p) => \E next : Become(p, next)
      /\ \A r : Resume(p, r) => \E next : Become(p, next)
      /\ \A r : NextCandidate(p, r) => \E next : Become(p, next)
  BY DEF Goto, Finish, Resume, NextCandidate
<1>2. Start(p) => \E next : Become(p, next)
  BY DEF Start, StartAcquire, StartRotate, StartRenew, StartStatus, StartRelease,
     StartRemove, StartSweep
<1>3. \/ AcquireRead(p) \/ AcquireSelect(p) \/ AcquireCount(p) \/ AcquireSnapshot(p)
      \/ AcquireRefresh(p) \/ AcquireStore(p) \/ AcquireFail(p) \/ AcquireResolve(p)
      \/ AcquireSetLease(p) \/ AcquireSetMeta(p) \/ AcquireDone(p)
      => \E next : Become(p, next)
  BY <1>1 DEF AcquireRead, AcquireSelect, AcquireCount, AcquireSnapshot, AcquireRefresh,
     AcquireStore, AcquireFail, AcquireResolve, AcquireSetLease, AcquireSetMeta, AcquireDone
<1>4. \/ RenewRead(p) \/ RenewMeta(p) \/ RenewCheck(p) \/ RenewSetLease(p) \/ RenewSetMeta(p)
      \/ StatusRead(p) \/ StatusMeta(p) \/ StatusCheck(p)
      \/ SweepLease(p) \/ SweepCheck(p) \/ SweepOrphan(p) \/ RemoveList(p) \/ RemoveNext(p)
      => \E next : Become(p, next)
  BY <1>1 DEF RenewRead, RenewMeta, RenewCheck, RenewSetLease, RenewSetMeta, StatusRead,
     StatusMeta, StatusCheck, SweepLease, SweepCheck, SweepOrphan, RemoveList, RemoveNext
<1>5. \/ ReleaseGet(p) \/ ReleaseDel(p) \/ ReleaseMeta(p) \/ ReleasePop(p)
      \/ ReleaseCount(p) \/ ReleaseRevoke(p) \/ ReleaseRotate(p) \/ ReleaseStore(p)
      => \E next : Become(p, next)
  BY <1>1 DEF ReleaseGet, ReleaseDel, ReleaseMeta, ReleasePop, ReleaseCount, ReleaseRevoke,
     ReleaseRotate, ReleaseStore
<1> QED
  BY <1>2, <1>3, <1>4, <1>5 DEF Continue

\* Only the reading of the lease, and the turn to the next candidate, lead to
\* the choice of a candidate.
LEMMA AwayFromSelect ==
  ASSUME TypeOK, NEW p \in Proc, Start(p) \/ Continue(p),
         ~AcquireRead(p), ~NextCandidate(p, req[p])
  PROVE  req'[p].pc # "aSelect"
<1> DEFINE r == req[p]
<1>1. r \in Request /\ r.ret \in Continuation
  BY Locals DEF Request
<1>2. CASE Start(p) \/ RemoveList(p)
  BY <1>2, Ahead
<1>3. CASE AcquireSelect(p) \/ AcquireCount(p) \/ AcquireSnapshot(p) \/ AcquireRefresh(p)
  <2>1. \/ Finish(p)
        \/ \E l \in {"aFail", "aRefresh"} : Goto(p, l)
        \/ \E a : Become(p, [r EXCEPT !.pc = "aCount", !.acct = a])
        \/ \E x : Become(p, [r EXCEPT !.pc = "aSnap", !.over = x])
        \/ \E s : Become(p, [r EXCEPT !.pc = "aRefresh", !.before = s])
        \/ \E m : Become(p, [r EXCEPT !.pc = "aStore", !.mint = m])
    BY <1>3 DEF AcquireSelect, AcquireCount, AcquireSnapshot, AcquireRefresh
  <2>2. ASSUME NEW a, Become(p, [r EXCEPT !.pc = "aCount", !.acct = a]) PROVE req'[p].pc # "aSelect"
    BY <1>1, <2>2, Turns DEF Request
  <2>3. ASSUME NEW x, Become(p, [r EXCEPT !.pc = "aSnap", !.over = x]) PROVE req'[p].pc # "aSelect"
    BY <1>1, <2>3, Turns DEF Request
  <2>4. ASSUME NEW s, Become(p, [r EXCEPT !.pc = "aRefresh", !.before = s])
        PROVE  req'[p].pc # "aSelect"
    BY <1>1, <2>4, Turns DEF Request
  <2>5. ASSUME NEW m, Become(p, [r EXCEPT !.pc = "aStore", !.mint = m]) PROVE req'[p].pc # "aSelect"
    BY <1>1, <2>5, Turns DEF Request
  <2> QED
    BY <2>1, <2>2, <2>3, <2>4, <2>5, FreeTurns
<1>4. CASE AcquireStore(p) \/ AcquireFail(p) \/ AcquireSetLease(p) \/ AcquireSetMeta(p) \/ AcquireDone(p)
  BY <1>4, FreeTurns DEF AcquireStore, AcquireFail, AcquireSetLease, AcquireSetMeta, AcquireDone
<1>5. CASE AcquireResolve(p)
  <2>1. PICK s : Become(p, [r EXCEPT !.pc = "aLease", !.sess = s, !.before = {}])
    BY <1>5 DEF AcquireResolve
  <2> QED
    BY <1>1, <2>1, Turns DEF Request
<1>6. CASE RenewRead(p) \/ RenewMeta(p) \/ RenewCheck(p)
  BY <1>6, Ahead
<1>7. CASE RenewSetLease(p)
  BY <1>7, FreeTurns DEF RenewSetLease
<1>8. CASE RenewSetMeta(p)
  <2>1. PICK next : next = [Idle EXCEPT !.pc = "sRead", !.user = r.user]
    OBVIOUS
  <2>2. next.pc = "sRead"
    BY <2>1 DEF Idle
  <2>3. req'[p] = next
    BY <1>8, <2>1, Turns DEF RenewSetMeta
  <2> QED
    BY <2>2, <2>3
<1>9. CASE \/ StatusRead(p) \/ StatusMeta(p) \/ StatusCheck(p) \/ ReleaseGet(p)
           \/ ReleaseCount(p) \/ ReleaseRevoke(p) \/ ReleaseRotate(p) \/ ReleaseStore(p)
           \/ SweepLease(p) \/ SweepCheck(p) \/ SweepOrphan(p) \/ RemoveNext(p)
  BY <1>9, Ahead DEF Continuation
<1>10. CASE ReleaseDel(p) \/ ReleasePop(p)
  BY <1>10, FreeTurns DEF ReleaseDel, ReleasePop
<1>11. CASE ReleaseMeta(p)
  <2>1. ASSUME NEW m, NEW l \in {"lCount", "lPop"},
               Become(p, [r EXCEPT !.pc = l, !.acct = m.acct, !.sess = m.sess])
        PROVE  req'[p].pc # "aSelect"
    BY <1>1, <2>1, Turns DEF Request
  <2> QED
    BY <1>1, <1>11, <2>1, FreeTurns DEF ReleaseMeta, Continuation
<1> QED
  BY <1>2, <1>3, <1>4, <1>5, <1>6, <1>7, <1>8, <1>9, <1>10, <1>11 DEF Continue

LEMMA StayStep == TypeOK /\ StayInv /\ [Next]_vars => StayInv'
<1> SUFFICES ASSUME TypeOK, StayInv, [Next]_vars PROVE StayInv'
  OBVIOUS
<1>1. ASSUME NEW p \in Proc, Start(p) \/ Continue(p) PROVE StayInv'
  <2> DEFINE r == req[p]
  <2>1. r \in Request
    BY Locals
  <2>2. PICK next : Become(p, next)
    BY <1>1, BecomeOf
  <2>3. req'[p] = next
    BY <2>2, Turns
  <2>4. CASE AcquireRead(p)
    <3>1. PICK cur, stay : /\ cur = lease[r.user]
                           /\ stay = (~r.force /\ cur # None /\ cur.acct \notin r.exclude)
      OBVIOUS
    <3>2. PICK x : x = [r EXCEPT !.pc = "aSelect", !.cur = cur,
                                 !.prefer = IF stay THEN cur.acct ELSE None]
      OBVIOUS
    <3>3. x.cur = cur /\ x.exclude = r.exclude /\ x.prefer = (IF stay THEN cur.acct ELSE None)
      BY <2>1, <3>2 DEF Request
    <3>4. Become(p, x)
      BY <2>4, <3>1, <3>2 DEF AcquireRead
    <3>5. StaysOn(x)
      BY <3>1, <3>3 DEF StaysOn
    <3> QED
      BY <3>4, <3>5, ElsewhereStays
  <2>5. CASE NextCandidate(p, r)
    <3>1. PICK x : x = [r EXCEPT !.pc = "aSelect", !.exclude = @ \cup {r.acct},
                                 !.prefer = None, !.acct = None, !.over = FALSE,
                                 !.before = {}, !.mint = None, !.sess = None]
      OBVIOUS
    <3>2. x.prefer = None
      BY <2>1, <3>1 DEF Request
    <3>3. Become(p, x)
      BY <2>5, <3>1 DEF NextCandidate
    <3> QED
      BY <3>2, <3>3, ElsewhereStays DEF StaysOn
  <2>6. CASE ~AcquireRead(p) /\ ~NextCandidate(p, r)
    <3>1. next.pc # "aSelect"
      BY <1>1, <2>3, <2>6, AwayFromSelect
    <3> QED
      BY <2>2, <3>1, ElsewhereStays DEF StaysOn
  <2> QED
    BY <2>4, <2>5, <2>6
<1>2. CASE req' = req
  BY <1>2 DEF StayInv
<1>3. ASSUME NEW p \in Proc, Crash(p) PROVE StayInv'
  <2>1. StaysOn(Idle) /\ Become(p, Idle)
    BY <1>3 DEF StaysOn, Idle, Crash, Finish
  <2> QED
    BY <2>1, ElsewhereStays
<1> QED
  BY <1>1, <1>2, <1>3 DEF Next, Environment, Expire, ExpireMeta, EndCycle, RefreshCycle, SyncToken,
     Unbind, SetEnabled, AddMember, CloseCircuit, Rebind, vars

\* While one handler runs at a time the others on an account leave room for
\* one who has a lease of it, even if his has run out meanwhile.
LEMMA RoomToStay ==
  ASSUME Alone, TypeOK, CapacityInv, StayInv, NEW p \in Proc, req[p].pc = "aSelect",
         req[p].prefer # None
  PROVE  req[p].prefer \in Account /\ ~Full(req[p].prefer, req[p].user)
<1> DEFINE r == req[p]
           a == r.prefer
           others == Holders(a) \ {r.user}
<1>1. a \in Account /\ r.user \in User /\ r.cur # None /\ r.cur.acct = a
  BY Locals DEF StayInv, StaysOn, Request
<1> SUFFICES ASSUME Limit[a] > 0 PROVE ~(Cardinality(others) >= Limit[a])
  BY <1>1 DEF Full
<1>2. Cardinality(Proc) = 1
  <2>1. Proc = {p}
    BY DEF Alone
  <2> QED
    BY <2>1, FS_Singleton
<1>3. r.user \in Claimants(a)
  BY <1>1 DEF Claimants, Pending, MayWrite
<1>4. IsFiniteSet(Claimants(a)) /\ Limit[a] \in Nat
  BY <1>1, Finiteness, ServiceAssumption
<1>5. Cardinality(Claimants(a)) < Limit[a] + 1
  BY <1>1, <1>2 DEF CapacityInv
<1>6. Cardinality(Claimants(a) \ {r.user}) = Cardinality(Claimants(a)) - 1
  BY <1>3, <1>4, FS_RemoveElement
<1>7. Cardinality(others) <= Cardinality(Claimants(a) \ {r.user}) /\ Cardinality(others) \in Nat
  <2>1. IsFiniteSet(Claimants(a) \ {r.user}) /\ others \subseteq Claimants(a) \ {r.user}
    BY <1>4, FS_Subset DEF Claimants
  <2> QED
    BY <2>1, FS_Subset, FS_CardinalityType
<1>8. Cardinality(Claimants(a)) \in Nat
  BY <1>4, FS_CardinalityType
<1> QED
  BY <1>4, <1>5, <1>6, <1>7, <1>8

LEMMA StaySelects ==
  ASSUME Alone, "crash" \notin Env, TypeOK, CapacityInv, StayInv, [Next]_vars,
         NEW p \in Proc, At(p, "aSelect"), Moved(p), req[p].prefer # None
  PROVE  LET a == req[p].prefer
         IN  \/ req'[p].acct = a
             \/ ~row[a].bound \/ ~row[a].ok
             \/ pool[a].state # "enabled" \/ pool[a].open
             \/ ExcludeSelf /\ Owner[a] = req[p].user
<1> DEFINE r == req[p]
           a == r.prefer
<1>1. AcquireSelect(p)
  <2>1. req' # req
    BY DEF Moved
  <2>2. PICK q \in Proc : Start(q) \/ Continue(q)
    BY <2>1 DEF Next, Environment, Expire, ExpireMeta, EndCycle, RefreshCycle, SyncToken, Unbind,
       SetEnabled, AddMember, CloseCircuit, Rebind, Crash, vars
  <2>3. q = p
    BY DEF Alone
  <2>4. ~Start(p)
    BY DEF Start, StartAcquire, StartRotate, StartRenew, StartStatus, StartRelease,
       StartRemove, StartSweep, Accepts, At
  <2> QED
    BY <2>2, <2>3, <2>4 DEF Continue, AcquireRead, AcquireCount, AcquireSnapshot, AcquireRefresh,
       AcquireStore, AcquireFail, AcquireResolve, AcquireSetLease, AcquireSetMeta, AcquireDone,
       RenewRead, RenewMeta, RenewCheck, RenewSetLease, RenewSetMeta, StatusRead, StatusMeta,
       StatusCheck, ReleaseGet, ReleaseDel, ReleaseMeta, ReleasePop, ReleaseCount, ReleaseRevoke,
       ReleaseRotate, ReleaseStore, SweepLease, SweepCheck, SweepOrphan, RemoveList, RemoveNext, At
<1>2. a \in Account /\ ~Full(a, r.user)
  BY RoomToStay DEF At
<1>3. a \notin r.exclude
  BY DEF StayInv, StaysOn, At
<1>4. CASE a \in Eligible(r.user, r.exclude)
  <2>1. Become(p, [r EXCEPT !.pc = "aCount", !.acct = a])
    BY <1>1, <1>4 DEF AcquireSelect
  <2>2. PICK next : next = [r EXCEPT !.pc = "aCount", !.acct = a]
    OBVIOUS
  <2>3. next.acct = a
    BY <2>2, Locals DEF Request
  <2>4. req'[p] = next
    BY <2>1, <2>2, Turns
  <2> QED
    BY <2>3, <2>4
<1>5. CASE a \notin Eligible(r.user, r.exclude)
  BY <1>2, <1>3, <1>5 DEF Eligible
<1> QED
  BY <1>4, <1>5

\* While one handler runs at a time and none dies, a renter who asks again
\* without rotating is not moved off an account that could go on serving him.
THEOREM RenterStays ==
  ASSUME Alone, "crash" \notin Env
  PROVE  Spec => RenterKeepsAccount
<1>1. Init => StayInv
  BY DEF Init, StayInv, StaysOn, Idle
<1>2. Spec => []StayInv
  BY <1>1, StayStep, TypeCorrect, PTL DEF Spec
<1>3. Spec => []CapacityInv
  BY CapacityInvInit, CapacityInvStep, TypeCorrect, PTL DEF Spec
<1>4. ASSUME TypeOK, CapacityInv, StayInv, [Next]_vars
      PROVE  [\A p \in Proc :
                At(p, "aSelect") /\ Moved(p) /\ req[p].prefer # None
                  => LET a == req[p].prefer
                     IN \/ req'[p].acct = a
                        \/ ~row[a].bound \/ ~row[a].ok
                        \/ pool[a].state # "enabled" \/ pool[a].open
                        \/ ExcludeSelf /\ Owner[a] = req[p].user]_vars
  BY <1>4, StaySelects
<1> QED
  BY <1>2, <1>3, <1>4, TypeCorrect, PTL DEF Spec, RenterKeepsAccount

-----------------------------------------------------------------------------
(* What a release can kill: the stored tokens of accounts for one renter   *)

\* The token stored for account a is of no session that is recorded for another
\* renter than u.
Apart(a, u) == \A w \in User \ {u} : ~Recorded(w, row[a].at)

\* Handler r is about to store a new token for account a.
Rotates(r, a) == r.acct = a /\ r.pc \in {"lRotate", "lStore"}

Secured(r) ==
    /\ r.pc \in {"aResolve", "aLease"} => Apart(r.acct, r.user)
    /\ r.pc \in {"nCheck", "nLease"} => Apart(r.cur.acct, r.user)
    /\ r.pc = "lRevoke" /\ ~r.last => r.sess # row[r.acct].at
    /\ r.pc = "lStore" =>
         /\ r.mint \in live /\ r.mint.acct = r.acct
         /\ \A w \in User : ~Recorded(w, r.mint)

TokenInv ==
    /\ \A a \in Account : row[a].bound /\ row[a].ok /\ row[a].at.acct = a
    /\ \A a \in Account, u \in User : u \in Holders(a) => Apart(a, u)
    /\ \A a \in Account :
          row[a].at \in live \/ ~CanMint(a) \/ \E p \in Proc : Rotates(req[p], a)
    /\ \A p \in Proc : Secured(req[p])

\* No handler but the one that resolves a session puts one on record.
LEMMA RecordsKept ==
  ASSUME Alone, TypeOK, NEW p \in Proc, Start(p) \/ Continue(p), ~AcquireResolve(p)
  PROVE  \A u \in User, s \in Session : Recorded(u, s)' => Recorded(u, s)
<1> DEFINE r == req[p]
           next == req'[p]
           OldOnly == \A u \in User, s \in Session : Recorded(u, s)' => Recorded(u, s)
<1>1. r \in Request /\ r.ret \in Continuation
  BY Locals DEF Request
<1>2. \E x : Become(p, x)
  BY DEF Start, StartAcquire, StartRotate, StartRenew, StartStatus, StartRelease, StartRemove,
     StartSweep, Continue, AcquireRead, AcquireSelect, AcquireCount, AcquireSnapshot,
     AcquireRefresh, AcquireStore, AcquireFail, AcquireResolve, AcquireSetLease,
     AcquireSetMeta, AcquireDone, RenewRead, RenewMeta, RenewCheck, RenewSetLease,
     RenewSetMeta, StatusRead, StatusMeta, StatusCheck, ReleaseGet, ReleaseDel,
     ReleaseMeta, ReleasePop, ReleaseCount, ReleaseRevoke, ReleaseRotate, ReleaseStore,
     SweepLease, SweepCheck, SweepOrphan, RemoveList, RemoveNext, Goto, Finish, Resume,
     NextCandidate
<1>3. PICK x : Become(p, x)
  BY <1>2
<1>4. req'[p] = x
  BY <1>3, Turns
<1>5. ASSUME UNCHANGED <<lease, meta>>,
             \A u \in User, s \in Session : next.user = u /\ Carries(next, s) => Recorded(u, s)
      PROVE  OldOnly
  <2>1. \A u \in User, s \in Session :
           Names(lease'[u], s) \/ Names(meta'[u], s) => Recorded(u, s)
    BY <1>5 DEF Recorded
  <2> QED
    BY <1>3, <1>4, <1>5, <2>1, RecordedBefore
<1>6. ASSUME UNCHANGED <<lease, meta>>,
             next.pc \notin {"aLease", "aMeta", "lPop", "lCount", "lRevoke", "nCheck", "nLease",
                             "nSetMeta", "lDel", "lMeta"}
      PROVE  OldOnly
  BY <1>5, <1>6 DEF Carries
<1>7. ASSUME NEW s \in Session, Carries(r, s), r.user \in User PROVE Recorded(r.user, s)
  BY <1>7 DEF Recorded
<1> HIDE DEF next, OldOnly
<1> SUFFICES OldOnly
  BY DEF OldOnly
<1>8. CASE Start(p) \/ RemoveList(p)
  BY <1>6, <1>8, Ahead, AsideSteps DEF Aside, next
<1>9. CASE AcquireRead(p) \/ AcquireSelect(p) \/ AcquireCount(p) \/ AcquireSnapshot(p)
  BY <1>6, <1>9, Ahead, AsideSteps DEF Aside, next
<1>10. CASE AcquireRefresh(p) \/ AcquireStore(p) \/ AcquireFail(p)
  BY <1>6, <1>10, Ahead, AsideSteps DEF Aside, next
<1>11. CASE AcquireDone(p)
  BY <1>6, <1>11, Turns DEF AcquireDone, next
<1>12. CASE SweepLease(p) \/ SweepCheck(p) \/ SweepOrphan(p) \/ RemoveNext(p)
  <2>1. next.pc \in {"wLease", "wCheck", "lGet"} \cup Continuation /\ UNCHANGED <<lease, meta>>
    BY <1>12, Ahead, AsideSteps DEF Aside, next
  <2> QED
    BY <1>6, <2>1 DEF Continuation
<1>13. CASE StatusRead(p) \/ StatusMeta(p) \/ StatusCheck(p)
  <2>1. CASE StatusRead(p)
    <3>1. PICK l : l = IF lease[r.user] = None THEN "sMeta" ELSE "sCheck"
      OBVIOUS
    <3>2. Become(p, [r EXCEPT !.pc = l, !.cur = lease[r.user]]) /\ UNCHANGED <<lease, meta>>
      BY <2>1, <3>1 DEF StatusRead
    <3>3. next.pc = l
      BY <1>1, <3>2, Turns DEF Request, next
    <3> QED
      BY <1>6, <3>1, <3>2, <3>3
  <2>2. CASE StatusMeta(p) \/ StatusCheck(p)
    <3>1. Goto(p, "lGet") \/ Finish(p) \/ Resume(p, r) \/ \E y : Resume(p, [r EXCEPT !.exclude = y])
      BY <2>2 DEF StatusMeta, StatusCheck
    <3>2. next.pc \in {"lGet", "idle", r.ret}
      BY <3>1, FreeTurns DEF next
    <3> QED
      BY <1>1, <1>6, <2>2, <3>2 DEF StatusMeta, StatusCheck, Continuation
  <2> QED
    BY <1>13, <2>1, <2>2
<1>14. CASE ReleaseRevoke(p) \/ ReleaseRotate(p) \/ ReleaseStore(p)
  <2>1. \/ Goto(p, "lRotate") \/ Finish(p) \/ Resume(p, r)
        \/ \E m : Become(p, [r EXCEPT !.pc = "lStore", !.mint = m])
    BY <1>14 DEF ReleaseRevoke, ReleaseRotate, ReleaseStore
  <2>2. ASSUME NEW m, Become(p, [r EXCEPT !.pc = "lStore", !.mint = m]) PROVE next.pc = "lStore"
    BY <1>1, <2>2, Turns DEF Request, next
  <2>3. next.pc \in {"lRotate", "idle", "lStore", r.ret}
    BY <2>1, <2>2, FreeTurns DEF next
  <2> QED
    BY <1>1, <1>6, <1>14, <2>3 DEF ReleaseRevoke, ReleaseRotate, ReleaseStore, Continuation
<1>15. CASE RenewRead(p) \/ ReleaseGet(p)
  <2>1. /\ r.user \in User /\ UNCHANGED <<lease, meta>>
        /\ \E l \in {"nMeta", "nCheck", "lDel"} :
              Become(p, [r EXCEPT !.pc = l, !.cur = lease[r.user]])
    BY <1>15, Locals DEF RenewRead, ReleaseGet, At
  <2>2. PICK l \in {"nMeta", "nCheck", "lDel"} : Become(p, [r EXCEPT !.pc = l, !.cur = lease[r.user]])
    BY <2>1
  <2>3. PICK y : y = [r EXCEPT !.pc = l, !.cur = lease[r.user]]
    OBVIOUS
  <2>4. y.pc = l /\ y.cur = lease[r.user] /\ y.user = r.user
    BY <1>1, <2>3 DEF Request
  <2>5. next = y
    BY <2>2, <2>3, Turns DEF next
  <2>6. ASSUME NEW u \in User, NEW s \in Session, next.user = u, Carries(next, s) PROVE Recorded(u, s)
    BY <2>4, <2>5, <2>6 DEF Carries, Recorded
  <2> QED
    BY <1>5, <2>1, <2>6
<1>16. CASE RenewMeta(p) \/ RenewCheck(p)
  <2>1. UNCHANGED <<lease, meta>> /\ r.user \in User
    BY <1>16, Locals DEF RenewMeta, RenewCheck, At
  <2>2. CASE Goto(p, "lGet") \/ Finish(p)
    BY <1>6, <2>1, <2>2, FreeTurns DEF next
  <2>3. CASE Goto(p, "nLease") /\ r.pc = "nCheck"
    <3>1. next.pc = "nLease" /\ next.cur = r.cur /\ next.user = r.user
      BY <2>3, FreeTurns DEF next
    <3>2. ASSUME NEW s \in Session, Carries(next, s) PROVE Carries(r, s)
      BY <2>3, <3>1, <3>2 DEF Carries
    <3> QED
      BY <1>5, <1>7, <2>1, <3>1, <3>2
  <2> QED
    BY <1>16, <2>2, <2>3 DEF RenewMeta, RenewCheck, At
<1>17. ASSUME NEW y, Become(p, y), y.user = r.user, r.user \in User,
              \A s \in Session : Carries(y, s) => Carries(r, s),
              \A u \in User : /\ lease'[u] = None \/ lease'[u] = lease[u]
                              /\ meta'[u] = None \/ meta'[u] = meta[u]
       PROVE  OldOnly
  <2>1. \A u \in User, s \in Session :
           Names(lease'[u], s) \/ Names(meta'[u], s) => Recorded(u, s)
    BY <1>17 DEF Recorded, Names
  <2> QED
    BY <1>7, <1>17, <2>1, RecordedBefore DEF OldOnly
<1>18. CASE ReleaseDel(p) \/ ReleasePop(p)
  <2>1. r.user \in User /\ r.pc \in {"lDel", "lPop"}
    BY <1>18, Locals DEF ReleaseDel, ReleasePop, At
  <2>2. \A u \in User : /\ lease'[u] = None \/ lease'[u] = lease[u]
                        /\ meta'[u] = None \/ meta'[u] = meta[u]
    BY <1>18 DEF ReleaseDel, ReleasePop, DelLeaseKey, DelRevokeMeta, TypeOK, StoreTypeOK
  <2>3. PICK l : /\ l \in {"lMeta", "lCount"} /\ Goto(p, l)
                 /\ r.pc = "lDel" <=> l = "lMeta"
    BY <1>18 DEF ReleaseDel, ReleasePop, At
  <2>4. PICK y : y = [r EXCEPT !.pc = l]
    OBVIOUS
  <2>5. y.pc = l /\ y.user = r.user /\ y.cur = r.cur /\ y.sess = r.sess /\ Become(p, y)
    BY <1>1, <2>3, <2>4 DEF Request, Goto
  <2>6. \A s \in Session : Carries(y, s) => Carries(r, s)
    BY <2>1, <2>3, <2>5 DEF Carries
  <2> QED
    BY <1>17, <2>1, <2>2, <2>5, <2>6
<1>19. CASE ReleaseMeta(p)
  <2>1. r.user \in User /\ r.pc = "lMeta"
    BY <1>19, Locals DEF ReleaseMeta, At
  <2>2. CASE r.cur # None /\ DelRevokeMeta(r.user)
             /\ Become(p, [r EXCEPT !.pc = "lCount", !.acct = r.cur.acct, !.sess = r.cur.sess])
    <3>1. PICK y : y = [r EXCEPT !.pc = "lCount", !.acct = r.cur.acct, !.sess = r.cur.sess]
      OBVIOUS
    <3>2. y.pc = "lCount" /\ y.user = r.user /\ y.sess = r.cur.sess /\ Become(p, y)
      BY <1>1, <2>2, <3>1 DEF Request
    <3>3. \A u \in User : /\ lease'[u] = None \/ lease'[u] = lease[u]
                          /\ meta'[u] = None \/ meta'[u] = meta[u]
      BY <2>2 DEF DelRevokeMeta, TypeOK, StoreTypeOK
    <3>4. \A s \in Session : Carries(y, s) => Carries(r, s)
      BY <2>1, <2>2, <3>2 DEF Carries, Names
    <3> QED
      BY <1>17, <2>1, <3>2, <3>3, <3>4
  <2>3. CASE meta[r.user] # None /\ UNCHANGED <<lease, meta>>
             /\ Become(p, [r EXCEPT !.pc = "lPop", !.acct = meta[r.user].acct,
                                    !.sess = meta[r.user].sess])
    <3>1. PICK y : y = [r EXCEPT !.pc = "lPop", !.acct = meta[r.user].acct,
                                 !.sess = meta[r.user].sess]
      OBVIOUS
    <3>2. y.pc = "lPop" /\ y.user = r.user /\ y.sess = meta[r.user].sess
      BY <1>1, <3>1 DEF Request
    <3>3. next = y
      BY <2>3, <3>1, Turns DEF next
    <3>4. ASSUME NEW u \in User, NEW s \in Session, next.user = u, Carries(next, s)
          PROVE  Recorded(u, s)
      BY <2>3, <3>2, <3>3, <3>4 DEF Carries, Recorded, Names
    <3> QED
      BY <1>5, <2>3, <3>4
  <2>4. CASE Resume(p, r) /\ UNCHANGED <<lease, meta>>
    BY <1>1, <1>6, <2>4, FreeTurns DEF next, Continuation
  <2> QED
    BY <1>19, <2>2, <2>3, <2>4 DEF ReleaseMeta
<1>20. CASE ReleaseCount(p)
  <2>1. r.user \in User /\ r.pc = "lCount" /\ UNCHANGED <<lease, meta>>
    BY <1>20, Locals DEF ReleaseCount, At
  <2>2. PICK z : Become(p, [r EXCEPT !.pc = "lRevoke", !.last = z])
    BY <1>20 DEF ReleaseCount
  <2>3. PICK y : y = [r EXCEPT !.pc = "lRevoke", !.last = z]
    OBVIOUS
  <2>4. y.pc = "lRevoke" /\ y.user = r.user /\ y.sess = r.sess /\ Become(p, y)
    BY <1>1, <2>2, <2>3 DEF Request
  <2>5. \A s \in Session : Carries(y, s) => Carries(r, s)
    BY <2>1, <2>4 DEF Carries
  <2> QED
    BY <1>17, <2>1, <2>4, <2>5
\* The two writes of set_lease: the handler carried what it writes.
<1>21. ASSUME NEW y, Become(p, y), r.user \in User,
              \A s \in Session : Carries(y, s) => Carries(r, s) /\ y.user = r.user,
              \A u \in User \ {r.user} : lease'[u] = lease[u] /\ meta'[u] = meta[u],
              \A s \in Session :
                 Names(lease'[r.user], s) \/ Names(meta'[r.user], s)
                   => Names(lease[r.user], s) \/ Names(meta[r.user], s) \/ Carries(r, s)
       PROVE  OldOnly
  <2>1. \A u \in User, s \in Session :
           Names(lease'[u], s) \/ Names(meta'[u], s) => Recorded(u, s)
    BY <1>21 DEF Recorded
  <2> QED
    BY <1>7, <1>21, <2>1, RecordedBefore DEF OldOnly
<1>22. CASE AcquireSetLease(p) \/ RenewSetLease(p)
  <2>1. r.user \in User /\ r.pc \in {"aLease", "nLease"} /\ (r.pc = "nLease" => r.cur # None)
    BY <1>22, Locals DEF AcquireSetLease, RenewSetLease, At
  <2>2. CASE Finish(p) /\ UNCHANGED <<lease, meta>>
    BY <1>6, <2>2, FreeTurns DEF next
  <2>3. ASSUME NEW l, NEW k, SetLeaseKey(r.user, l), Goto(p, k),
               \/ r.pc = "aLease" /\ l.sess = r.sess /\ k = "aMeta"
               \/ r.pc = "nLease" /\ l.sess = r.cur.sess /\ k = "nSetMeta"
        PROVE  OldOnly
    <3>1. PICK y : y = [r EXCEPT !.pc = k]
      OBVIOUS
    <3>2. y.pc = k /\ y.user = r.user /\ y.cur = r.cur /\ y.sess = r.sess /\ Become(p, y)
      BY <1>1, <2>3, <3>1 DEF Request, Goto
    <3>3. \A s \in Session : Carries(y, s) => Carries(r, s)
      BY <2>3, <3>2 DEF Carries
    <3>4. /\ \A u \in User \ {r.user} : lease'[u] = lease[u]
          /\ lease'[r.user] = l /\ meta' = meta
      BY <2>1, <2>3 DEF SetLeaseKey, TypeOK, StoreTypeOK
    <3>5. \A s \in Session : Names(lease'[r.user], s) => Carries(r, s)
      BY <2>1, <2>3, <3>4 DEF Names, Carries
    <3> QED
      BY <1>21, <2>1, <3>2, <3>3, <3>4, <3>5
  <2>4. ASSUME NEW u, NEW a, NEW s PROVE Stamp(u, a, s).sess = s
    BY DEF Stamp
  <2>5. CASE AcquireSetLease(p) /\ ~Finish(p)
    <3>1. PICK l : l = Stamp(r.user, r.acct, r.sess)
      OBVIOUS
    <3> QED
      BY <2>1, <2>3, <2>4, <2>5, <3>1 DEF AcquireSetLease, At
  <2>6. CASE RenewSetLease(p) /\ ~Finish(p)
    <3>1. PICK l : l = Stamp(r.user, r.cur.acct, r.cur.sess)
      OBVIOUS
    <3> QED
      BY <2>1, <2>3, <2>4, <2>6, <3>1 DEF RenewSetLease, At
  <2>7. CASE Finish(p)
    <3>1. UNCHANGED <<lease, meta>>
      <4>1. req'[p].pc = "idle"
        BY <2>7, FreeTurns
      <4>2. ~Goto(p, "aMeta") /\ ~Goto(p, "nSetMeta")
        BY <4>1, FreeTurns
      <4> QED
        BY <1>22, <4>2 DEF AcquireSetLease, RenewSetLease
    <3> QED
      BY <2>2, <2>7, <3>1
  <2> QED
    BY <1>22, <2>5, <2>6, <2>7
<1>23. CASE AcquireSetMeta(p)
  <2>1. r.user \in User /\ r.pc = "aMeta"
    BY <1>23, Locals DEF AcquireSetMeta, At
  <2>2. PICK m : m = [acct |-> r.acct, sess |-> r.sess]
    OBVIOUS
  <2>3. m.sess = r.sess /\ SetRevokeMeta(r.user, m) /\ Goto(p, "aDone")
    BY <1>23, <2>2 DEF AcquireSetMeta
  <2>4. PICK y : y = [r EXCEPT !.pc = "aDone"]
    OBVIOUS
  <2>5. y.pc = "aDone" /\ Become(p, y)
    BY <1>1, <2>3, <2>4 DEF Request, Goto
  <2>6. /\ \A u \in User \ {r.user} : meta'[u] = meta[u]
        /\ meta'[r.user] = m /\ lease' = lease
    BY <2>1, <2>3 DEF SetRevokeMeta, TypeOK, StoreTypeOK
  <2>7. /\ \A s \in Session : ~Carries(y, s)
        /\ \A s \in Session : Names(meta'[r.user], s) => Carries(r, s)
    BY <2>1, <2>3, <2>5, <2>6 DEF Names, Carries
  <2> QED
    BY <1>21, <2>1, <2>5, <2>6, <2>7
<1>24. CASE RenewSetMeta(p)
  <2>1. r.user \in User /\ r.pc = "nSetMeta" /\ r.cur # None
    BY <1>24, Locals DEF RenewSetMeta, At
  <2>2. PICK m : m = [acct |-> r.cur.acct, sess |-> r.cur.sess]
    OBVIOUS
  <2>3. PICK y : y = [Idle EXCEPT !.pc = "sRead", !.user = r.user]
    OBVIOUS
  <2>4. m.sess = r.cur.sess /\ SetRevokeMeta(r.user, m) /\ Become(p, y)
    BY <1>24, <2>2, <2>3 DEF RenewSetMeta
  <2>5. y.pc = "sRead"
    BY <2>3 DEF Idle
  <2>6. /\ \A u \in User \ {r.user} : meta'[u] = meta[u]
        /\ meta'[r.user] = m /\ lease' = lease
    BY <2>1, <2>4 DEF SetRevokeMeta, TypeOK, StoreTypeOK
  <2>7. /\ \A s \in Session : ~Carries(y, s)
        /\ \A s \in Session : Names(meta'[r.user], s) => Carries(r, s)
    BY <2>1, <2>4, <2>5, <2>6 DEF Names, Carries
  <2> QED
    BY <1>21, <2>1, <2>4, <2>6, <2>7
<1>25. CASE Start(p)
  BY <1>8, <1>25
<1>26. CASE Continue(p)
  BY <1>8, <1>9, <1>10, <1>11, <1>12, <1>13, <1>14, <1>15, <1>16, <1>18, <1>19, <1>20, <1>22,
     <1>23, <1>24, <1>26 DEF Continue
<1> QED
  BY <1>25, <1>26

OldRecords == \A u \in User, s \in Session : Recorded(u, s)' => Recorded(u, s)

LEMMA AroundRecords ==
  ASSUME Alone, TypeOK, Environment \/ UNCHANGED vars
  PROVE  OldRecords
<1>1. \A u \in User : /\ lease'[u] = None \/ lease'[u] = lease[u]
                      /\ meta'[u] = None \/ meta'[u] = meta[u]
  <2>1. ASSUME NEW v, DelLeaseKey(v) \/ DelRevokeMeta(v)
        PROVE  \A u \in User : /\ lease'[u] = None \/ lease'[u] = lease[u]
                               /\ meta'[u] = None \/ meta'[u] = meta[u]
    BY <2>1 DEF DelLeaseKey, DelRevokeMeta, TypeOK, StoreTypeOK
  <2> QED
    BY <2>1 DEF Environment, Expire, ExpireMeta, EndCycle, RefreshCycle, SyncToken, Unbind,
       SetEnabled, AddMember, CloseCircuit, Rebind, Crash, vars
<1>2. \A u \in User, s \in Session :
         Names(lease'[u], s) \/ Names(meta'[u], s) => Recorded(u, s)
  BY <1>1 DEF Names, Recorded
<1>3. CASE req' = req
  <2>1. ASSUME NEW u \in User, NEW s \in Session, Recorded(u, s)' PROVE Recorded(u, s)
    <3>1. \/ Names(lease'[u], s) \/ Names(meta'[u], s)
          \/ \E q \in Proc : req'[q].user = u /\ Carries(req'[q], s)
      BY <2>1 DEF Recorded, Names, Carries
    <3>2. ASSUME NEW q \in Proc, req'[q].user = u, Carries(req'[q], s) PROVE Recorded(u, s)
      <4>1. req[q].user = u /\ Carries(req[q], s)
        BY <1>3, <3>2
      <4> QED
        BY <4>1 DEF Recorded
    <3> QED
      BY <1>2, <3>1, <3>2
  <2> QED
    BY <2>1 DEF OldRecords
<1>4. ASSUME NEW p \in Proc, Crash(p) PROVE OldRecords
  <2>1. Become(p, Idle) /\ \A s : ~Carries(Idle, s)
    BY <1>4 DEF Crash, Finish, Carries, Idle
  <2> QED
    BY <1>2, <2>1, RecordedBefore DEF OldRecords
<1> QED
  BY <1>3, <1>4 DEF Environment, Expire, ExpireMeta, EndCycle, RefreshCycle, SyncToken, Unbind,
     SetEnabled, AddMember, CloseCircuit, Rebind, vars

\* The session that acquire resolves becomes recorded for its renter.
LEMMA ResolveRecords ==
  ASSUME Alone, TypeOK, LoginInv, NEW p \in Proc, AcquireResolve(p)
  PROVE  \A u \in User, s \in Session :
            Recorded(u, s)' => \/ Recorded(u, s)
                               \/ u = req[p].user /\ s.acct = req[p].acct
<1> DEFINE r == req[p]
<1>1. r \in Request /\ r.pc = "aResolve" /\ UNCHANGED <<lease, meta>>
  BY Locals DEF AcquireResolve, At
<1>2. \E y : /\ Become(p, y)
             /\ \/ y.pc = "aSelect"
                \/ y.user = r.user /\ y.pc = "aLease" /\ y.sess \in LiveOf(r.acct) \cup {None}
  <2>1. CASE NextCandidate(p, r)
    <3>1. PICK y : Become(p, y)
      BY <2>1 DEF NextCandidate
    <3>2. y.pc = "aSelect"
      BY <2>1, <3>1, Turns
    <3> QED
      BY <3>1, <3>2
  <2>2. ASSUME NEW s, s \in PickNewSession(LiveOf(r.acct), r.before) \cup {None},
               Become(p, [r EXCEPT !.pc = "aLease", !.sess = s, !.before = {}])
        PROVE  \E y : /\ Become(p, y) /\ y.user = r.user /\ y.pc = "aLease"
                      /\ y.sess \in LiveOf(r.acct) \cup {None}
    <3>1. s \in LiveOf(r.acct) \cup {None}
      BY <2>2 DEF PickNewSession, Newest
    <3>2. PICK y : y = [r EXCEPT !.pc = "aLease", !.sess = s, !.before = {}]
      OBVIOUS
    <3>3. y.pc = "aLease" /\ y.sess = s /\ y.user = r.user
      BY <1>1, <3>2 DEF Request
    <3> QED
      BY <2>2, <3>1, <3>2, <3>3
  <2>3. ~NextCandidate(p, r) =>
          \E s : /\ s \in PickNewSession(LiveOf(r.acct), r.before) \cup {None}
                 /\ Become(p, [r EXCEPT !.pc = "aLease", !.sess = s, !.before = {}])
    BY DEF AcquireResolve
  <2> QED
    BY <2>1, <2>2, <2>3
<1>3. PICK y : /\ Become(p, y)
               /\ \/ y.pc = "aSelect"
                  \/ y.user = r.user /\ y.pc = "aLease" /\ y.sess \in LiveOf(r.acct) \cup {None}
  BY <1>2
<1>4. \A q \in Proc : req'[q] = y
  BY <1>3, AloneBecomes
<1> SUFFICES ASSUME NEW u \in User, NEW s \in Session, Recorded(u, s)'
             PROVE  Recorded(u, s) \/ (u = r.user /\ s.acct = r.acct)
  OBVIOUS
<1>5. \/ Names(lease[u], s) \/ Names(meta[u], s)
      \/ y.user = u /\ Carries(y, s)
  BY <1>1, <1>4 DEF Recorded, Names, Carries
<1>6. Carries(y, s) => y.user = r.user /\ s.acct = r.acct
  <2>1. s # None
    BY NoneAssumption
  <2> QED
    BY <1>3, <2>1 DEF Carries, LiveOf
<1> QED
  BY <1>5, <1>6 DEF Recorded

\* The rows stay, and a stored token that is replaced is replaced by one that
\* works, of the same account, and recorded for nobody.
TokensKept ==
    \A a \in Account :
        /\ row'[a].bound /\ row'[a].ok
        /\ \/ row'[a].at = row[a].at
           \/ /\ row'[a].at \in live' /\ row'[a].at \in Session /\ row'[a].at.acct = a
              /\ \A w \in User : ~Recorded(w, row'[a].at)

\* A session about to be opened is recorded for nobody.
LEMMA NextIsNew ==
  ASSUME TypeOK, LoginInv, NEW a \in Account, CanMint(a)
  PROVE  /\ NextSession(a) \in Session /\ NextSession(a).acct = a
         /\ \A w \in User : ~Recorded(w, NextSession(a))
<1>1. minted[a] \in Nat /\ MaxSession \in Nat /\ minted[a] < MaxSession
  BY SessionTypes, MaxSessionAssumption DEF CanMint
<1>2. PICK s : s = NextSession(a)
  OBVIOUS
<1>3. s \in Session /\ s.acct = a /\ s.n = minted[a] + 1
  BY <1>1, <1>2 DEF NextSession, Session
<1>4. \A w \in User : ~Recorded(w, s)
  BY <1>1, <1>3 DEF LoginInv, Opened
<1> QED
  BY <1>2, <1>3, <1>4

LEMMA TokenStep ==
  ASSUME Alone, "unbind" \notin Env, "denied" \notin Env, TypeOK, LoginInv, TokenInv, [Next]_vars
  PROVE  TokensKept
<1>1. \A a \in Account : row[a].bound /\ row[a].ok
  BY DEF TokenInv
<1>2. CASE row' = row
  BY <1>1, <1>2 DEF TokensKept
<1>3. ASSUME NEW a \in Account, NEW s \in Session, StoreToken(a, s), s \in live', s.acct = a,
             \A w \in User : ~Recorded(w, s)
      PROVE  TokensKept
  <2>1. /\ row'[a].at = s /\ row'[a].ok /\ row'[a].bound
        /\ \A b \in Account \ {a} : row'[b] = row[b]
    BY <1>1, <1>3 DEF StoreToken, TypeOK, ServiceTypeOK, Row
  <2> QED
    BY <1>1, <1>3, <2>1 DEF TokensKept
<1>4. ASSUME NEW a \in Account, EndCycle(a) \/ RefreshCycle(a) \/ Rebind(a) PROVE TokensKept
  <2>1. \A b \in Account : row'[b].bound /\ row'[b].ok /\ row'[b].at = row[b].at
    BY <1>1, <1>4 DEF EndCycle, RefreshCycle, Rebind, TypeOK, ServiceTypeOK, Row
  <2> QED
    BY <2>1 DEF TokensKept
<1>5. ASSUME NEW a \in Account, SyncToken(a) PROVE TokensKept
  <2>1. CanMint(a) /\ live' = live \cup {NextSession(a)} /\ StoreToken(a, NextSession(a))
    BY <1>5 DEF SyncToken, Mint
  <2> QED
    BY <1>3, <2>1, NextIsNew
<1>6. CASE Environment \/ UNCHANGED vars
  BY <1>2, <1>4, <1>5, <1>6 DEF Environment, Expire, ExpireMeta, Unbind, SetEnabled, AddMember,
     CloseCircuit, Crash, vars
<1>7. ASSUME NEW p \in Proc, Start(p) \/ Continue(p) PROVE TokensKept
  <2>1. req[p].pc \in {"aStore", "lStore"} => req[p].acct \in Account
    BY Locals DEF TypeOK, ServiceTypeOK, Bound, Request
  <2>2. CASE AcquireStore(p) /\ row' # row
    <3>1. /\ req[p].pc = "aStore" /\ live' = live /\ StoreToken(req[p].acct, req[p].mint)
      BY <2>2 DEF AcquireStore, At
    <3>2. /\ req[p].mint \in live /\ req[p].mint.acct = req[p].acct /\ Youngest(req[p].mint)
      BY <3>1 DEF LoginInv, Knows
    <3>3. req[p].mint \in Session /\ req[p].mint.n \in Nat
      BY <3>2, SessionTypes
    <3>4. \A w \in User : ~Recorded(w, req[p].mint)
      BY <3>2, <3>3 DEF Youngest
    <3> QED
      BY <1>3, <2>1, <3>1, <3>2, <3>3, <3>4
  <2>3. CASE ReleaseStore(p) /\ row' # row
    <3>1. /\ req[p].pc = "lStore" /\ live' = live /\ StoreToken(req[p].acct, req[p].mint)
      BY <2>3 DEF ReleaseStore, At
    <3>2. /\ req[p].mint \in live /\ req[p].mint.acct = req[p].acct
          /\ \A w \in User : ~Recorded(w, req[p].mint)
      BY <3>1 DEF TokenInv, Secured
    <3> QED
      BY <1>3, <2>1, <3>1, <3>2, SessionTypes
  <2>4. "denied" \notin RefreshOutcome(req[p].acct)
    BY DEF RefreshOutcome
  <2>5. CASE AcquireRefresh(p) \/ ReleaseRotate(p)
    <3>1. row' = row
      BY <2>4, <2>5 DEF AcquireRefresh, ReleaseRotate
    <3> QED
      BY <1>2, <3>1
  <2>6. CASE ~(AcquireRefresh(p) \/ AcquireStore(p) \/ ReleaseRotate(p) \/ ReleaseStore(p))
    <3>1. row' = row
      BY <1>7, <2>6 DEF Start, StartAcquire, StartRotate, StartRenew, StartStatus, StartRelease,
         StartRemove, StartSweep, Continue, AcquireRead, AcquireSelect, AcquireCount,
         AcquireSnapshot, AcquireFail, AcquireResolve, AcquireSetLease, AcquireSetMeta, AcquireDone,
         RenewRead, RenewMeta, RenewCheck, RenewSetLease, RenewSetMeta, StatusRead, StatusMeta,
         StatusCheck, ReleaseGet, ReleaseDel, ReleaseMeta, ReleasePop, ReleaseCount, ReleaseRevoke,
         SweepLease, SweepCheck, SweepOrphan, RemoveList, RemoveNext
    <3> QED
      BY <1>2, <3>1
  <2> QED
    BY <1>2, <2>2, <2>3, <2>5, <2>6
<1> QED
  BY <1>6, <1>7 DEF Next

LEMMA ApartKept ==
  ASSUME TypeOK, TokensKept, OldRecords, NEW a \in Account, NEW u, Apart(a, u)
  PROVE  Apart(a, u)'
<1>1. PICK s : s = row'[a].at
  OBVIOUS
<1>2. s \in Session
  BY <1>1 DEF TokensKept, TypeOK, ServiceTypeOK, Row
<1>3. ASSUME NEW w \in User \ {u} PROVE ~Recorded(w, s)
  BY <1>1, <1>3 DEF TokensKept, Apart
<1>4. \A w \in User \ {u} : ~Recorded(w, s)'
  BY <1>2, <1>3 DEF OldRecords
<1> QED
  BY <1>1, <1>4 DEF Apart

LEMMA MintedGrows ==
  ASSUME TypeOK, [Next]_vars, NEW a \in Account, ~CanMint(a)
  PROVE  ~CanMint(a)'
<1>1. minted \in [Account -> Nat] /\ MaxSession \in Nat
  BY SessionTypes, MaxSessionAssumption
<1>2. minted' = minted \/ \E b \in Account : minted' = [minted EXCEPT ![b] = @ + 1]
  <2>1. ASSUME Environment PROVE minted' = minted \/ \E b \in Account : Mint(b)
    BY <2>1 DEF Environment, Expire, ExpireMeta, EndCycle, RefreshCycle, SyncToken, Unbind,
       SetEnabled, AddMember, CloseCircuit, Rebind, Crash
  <2>2. ASSUME NEW p \in Proc, Start(p) PROVE minted' = minted
    BY <2>2 DEF Start, StartAcquire, StartRotate, StartRenew, StartStatus, StartRelease,
       StartRemove, StartSweep
  <2>3. ASSUME NEW p \in Proc, Continue(p) PROVE minted' = minted \/ \E b \in Account : Mint(b)
    <3>1. req[p].pc \in {"aRefresh", "lRotate"} => req[p].acct \in Account
      BY Locals DEF TypeOK, ServiceTypeOK, Bound, Request
    <3>2. CASE AcquireRefresh(p) \/ ReleaseRotate(p)
      BY <3>1, <3>2 DEF AcquireRefresh, ReleaseRotate, At
    <3>3. CASE ~(AcquireRefresh(p) \/ ReleaseRotate(p))
      BY <2>3, <3>3 DEF Continue, AcquireRead, AcquireSelect, AcquireCount, AcquireSnapshot,
         AcquireStore, AcquireFail, AcquireResolve, AcquireSetLease,
         AcquireSetMeta, AcquireDone, RenewRead, RenewMeta, RenewCheck, RenewSetLease,
         RenewSetMeta, StatusRead, StatusMeta, StatusCheck, ReleaseGet, ReleaseDel,
         ReleaseMeta, ReleasePop, ReleaseCount, ReleaseRevoke, ReleaseStore, SweepLease,
         SweepCheck, SweepOrphan, RemoveList, RemoveNext, Revoke
    <3> QED
      BY <3>2, <3>3
  <2> QED
    BY <2>1, <2>2, <2>3 DEF Next, vars, Mint
<1>3. minted'[a] = minted[a] \/ minted'[a] = minted[a] + 1
  BY <1>1, <1>2
<1> QED
  BY <1>1, <1>3 DEF CanMint

\* While one handler runs at a time, an account for one renter has one claimant.
LEMMA OneClaimant ==
  ASSUME Alone, TypeOK, CapacityInv, NEW a \in Account, Limit[a] = 1,
         NEW u \in Claimants(a), NEW v \in Claimants(a)
  PROVE  u = v
<1>1. Cardinality(Proc) \in Nat /\ Cardinality(Proc) <= 1
  <2>1. CASE Proc = {}
    BY <2>1, FS_EmptySet
  <2>2. CASE Proc # {}
    <3>1. PICK p : Proc = {p}
      BY <2>2 DEF Alone
    <3> QED
      BY <3>1, FS_Singleton
  <2> QED
    BY <2>1, <2>2
<1>2. IsFiniteSet(Claimants(a)) /\ Cardinality(Claimants(a)) \in Nat
  BY Finiteness
<1>3. Cardinality(Claimants(a)) < 2
  BY <1>1, <1>2 DEF CapacityInv
<1>4. ASSUME u # v PROVE FALSE
  <2>1. {u, v} \subseteq Claimants(a)
    OBVIOUS
  <2>2. IsFiniteSet({v}) /\ Cardinality({v}) = 1
    BY FS_Singleton
  <2>3. Cardinality({v} \cup {u}) = 2
    BY <1>4, <2>2, FS_AddElement
  <2>4. {v} \cup {u} = {u, v}
    OBVIOUS
  <2>5. Cardinality({u, v}) <= Cardinality(Claimants(a))
    BY <1>2, <2>1, FS_Subset
  <2> QED
    BY <1>2, <1>3, <2>3, <2>4, <2>5
<1> QED
  BY <1>4

\* Where the labels come from at which a handler knows more than its session.
LEMMA ComesFrom ==
  ASSUME TypeOK, NEW p \in Proc, Start(p) \/ Continue(p)
  PROVE  /\ req'[p].pc = "aResolve" => AcquireStore(p)
         /\ req'[p].pc = "aLease" => AcquireResolve(p)
         /\ req'[p].pc = "nCheck" => RenewRead(p)
         /\ req'[p].pc = "nLease" => RenewCheck(p)
         /\ req'[p].pc = "lRevoke" => ReleaseCount(p)
         /\ req'[p].pc = "lStore" => ReleaseRotate(p)
<1> DEFINE r == req[p]
<1>1. r \in Request /\ r.ret \in Continuation
  BY Locals DEF Request
<1>2. CASE Start(p) \/ RemoveList(p)
  <2>1. req'[p].pc \in {"aRead", "nRead", "sRead", "lGet", "xList", "wLease", "xNext"}
    BY <1>2, Ahead
  <2> QED
    BY <2>1
<1>3. CASE AcquireRead(p) \/ AcquireSelect(p) \/ AcquireCount(p) \/ AcquireSnapshot(p)
  <2>1. req'[p].pc \in {"aSelect", "idle", "aCount", "aSnap", "aFail", "aRefresh"}
    BY <1>3, Ahead
  <2> QED
    BY <2>1
<1>4. CASE AcquireRefresh(p) \/ AcquireFail(p)
  <2>1. \/ Finish(p) \/ Goto(p, "aFail") \/ NextCandidate(p, r)
        \/ Become(p, [r EXCEPT !.pc = "aStore", !.mint = NextSession(r.acct)])
    BY <1>4 DEF AcquireRefresh, AcquireFail
  <2>2. ASSUME NEW m, Become(p, [r EXCEPT !.pc = "aStore", !.mint = m]) PROVE req'[p].pc = "aStore"
    BY <1>1, <2>2, Turns DEF Request
  <2>3. req'[p].pc \in {"idle", "aFail", "aSelect", "aStore"}
    BY <2>1, <2>2, Turns
  <2> QED
    BY <2>3
<1>5. CASE AcquireStore(p)
  <2>1. req'[p].pc \in {"aResolve", "aFail"}
    BY <1>5, Turns DEF AcquireStore
  <2> QED
    BY <1>5, <2>1
<1>6. CASE AcquireResolve(p)
  <2>1. req'[p].pc \in {"aSelect", "idle", "aLease"}
    BY <1>6, Ahead
  <2> QED
    BY <1>6, <2>1
<1>7. CASE AcquireSetLease(p) \/ AcquireSetMeta(p) \/ AcquireDone(p) \/ RenewSetLease(p)
  <2>1. req'[p].pc \in {"idle", "aMeta", "aDone", "nSetMeta"}
    BY <1>7, Turns DEF AcquireSetLease, AcquireSetMeta, AcquireDone, RenewSetLease
  <2> QED
    BY <2>1
<1>8. CASE RenewRead(p)
  <2>1. PICK l : l = IF lease[r.user] = None THEN "nMeta" ELSE "nCheck"
    OBVIOUS
  <2>2. Become(p, [r EXCEPT !.pc = l, !.cur = lease[r.user]])
    BY <1>8, <2>1 DEF RenewRead
  <2>3. req'[p].pc = l
    BY <1>1, <2>2, Turns DEF Request
  <2> QED
    BY <1>8, <2>1, <2>3
<1>9. CASE RenewMeta(p) \/ RenewCheck(p)
  <2>1. /\ RenewMeta(p) => req'[p].pc \in {"idle", "lGet"}
        /\ RenewCheck(p) => req'[p].pc \in {"idle", "lGet", "nLease"}
    BY Turns DEF RenewMeta, RenewCheck
  <2> QED
    BY <1>9, <2>1
<1>10. CASE RenewSetMeta(p)
  <2>1. PICK y : y = [Idle EXCEPT !.pc = "sRead", !.user = r.user]
    OBVIOUS
  <2>2. y.pc = "sRead"
    BY <2>1 DEF Idle
  <2>3. req'[p] = y
    BY <1>10, <2>1, Turns DEF RenewSetMeta
  <2> QED
    BY <2>2, <2>3
<1>11. CASE StatusRead(p) \/ StatusMeta(p) \/ StatusCheck(p)
  <2>1. req'[p].pc \in {"sMeta", "sCheck", "lDel", "lGet"} \cup Continuation
    BY <1>11, Ahead
  <2> QED
    BY <2>1 DEF Continuation
<1>12. CASE ReleaseGet(p) \/ ReleaseDel(p) \/ ReleaseMeta(p) \/ ReleasePop(p)
  <2>1. CASE ReleaseGet(p)
    <3>1. req'[p].pc \in {"sMeta", "sCheck", "lDel", "lGet"} \cup Continuation
      BY <2>1, Ahead
    <3> QED
      BY <3>1 DEF Continuation
  <2>2. CASE ReleaseDel(p) \/ ReleasePop(p)
    <3>1. req'[p].pc \in {"lMeta", "lCount"}
      BY <2>2, Turns DEF ReleaseDel, ReleasePop
    <3> QED
      BY <3>1
  <2>3. CASE ReleaseMeta(p)
    <3>1. ASSUME NEW m, NEW l, Become(p, [r EXCEPT !.pc = l, !.acct = m.acct, !.sess = m.sess])
          PROVE  req'[p].pc = l
      <4>1. PICK y : y = [r EXCEPT !.pc = l, !.acct = m.acct, !.sess = m.sess]
        OBVIOUS
      <4>2. y.pc = l
        BY <1>1, <4>1 DEF Request
      <4> QED
        BY <3>1, <4>1, <4>2, Turns
    <3>2. req'[p].pc \in {"lCount", "lPop", r.ret}
      BY <2>3, <3>1, Turns DEF ReleaseMeta
    <3> QED
      BY <1>1, <3>2 DEF Continuation
  <2> QED
    BY <1>12, <2>1, <2>2, <2>3
<1>13. CASE ReleaseCount(p) \/ ReleaseRevoke(p) \/ ReleaseRotate(p) \/ ReleaseStore(p)
  <2>1. CASE ReleaseCount(p)
    <3>1. PICK z : Become(p, [r EXCEPT !.pc = "lRevoke", !.last = z])
      BY <2>1 DEF ReleaseCount
    <3>2. req'[p].pc = "lRevoke"
      BY <1>1, <3>1, Turns DEF Request
    <3> QED
      BY <2>1, <3>2
  <2>2. CASE ReleaseRevoke(p) \/ ReleaseStore(p)
    <3>1. Goto(p, "lRotate") \/ Finish(p) \/ Resume(p, r)
      BY <2>2 DEF ReleaseRevoke, ReleaseStore
    <3>2. req'[p].pc \in {"lRotate", "idle", r.ret}
      BY <3>1, Turns
    <3> QED
      BY <1>1, <3>2 DEF Continuation
  <2>3. CASE ReleaseRotate(p)
    <3>1. Resume(p, r) \/ Become(p, [r EXCEPT !.pc = "lStore", !.mint = NextSession(r.acct)])
      BY <2>3 DEF ReleaseRotate
    <3>2. ASSUME NEW m, Become(p, [r EXCEPT !.pc = "lStore", !.mint = m]) PROVE req'[p].pc = "lStore"
      BY <1>1, <3>2, Turns DEF Request
    <3>3. req'[p].pc \in {"lStore", r.ret}
      BY <3>1, <3>2, Turns
    <3> QED
      BY <1>1, <2>3, <3>3 DEF Continuation
  <2> QED
    BY <1>13, <2>1, <2>2, <2>3
<1>14. CASE SweepLease(p) \/ SweepCheck(p) \/ SweepOrphan(p) \/ RemoveNext(p)
  <2>1. req'[p].pc \in {"wLease", "wCheck", "lGet"} \cup Continuation
    BY <1>14, Ahead
  <2> QED
    BY <2>1 DEF Continuation
<1>15. CASE Continue(p)
  BY <1>2, <1>3, <1>4, <1>5, <1>6, <1>7, <1>8, <1>9, <1>10, <1>11, <1>12, <1>13, <1>14, <1>15
  DEF Continue
<1> QED
  BY <1>2, <1>15

\* The rows of the accounts after a step.
LEMMA RowsGood ==
  ASSUME TypeOK, TokenInv, TokensKept
  PROVE  \A a \in Account : row'[a].bound /\ row'[a].ok /\ row'[a].at.acct = a
  BY DEF TokensKept, TokenInv

\* A token that no handler revokes works on, or is about to be replaced.
LEMMA AliveKept ==
  ASSUME TypeOK, TokenInv, TokensKept, [Next]_vars, NEW a \in Account,
         row[a].at \in live => row[a].at \in live'
  PROVE  \/ row'[a].at \in live'
         \/ ~CanMint(a)'
         \/ \E p \in Proc : Rotates(req[p], a) /\ row'[a].at = row[a].at
<1>1. \/ row[a].at \in live \/ ~CanMint(a) \/ \E p \in Proc : Rotates(req[p], a)
  BY DEF TokenInv
<1>2. row'[a].at = row[a].at \/ row'[a].at \in live'
  BY DEF TokensKept
<1>3. CASE ~CanMint(a)
  BY <1>3, MintedGrows
<1> QED
  BY <1>1, <1>2, <1>3

\* The lease of a renter stays, or goes, when nobody writes one.
LEMMA LeaseKept ==
  ASSUME TypeOK, Environment \/ UNCHANGED vars
  PROVE  \A u \in User : lease'[u] = None \/ lease'[u] = lease[u]
<1>1. ASSUME NEW v, DelLeaseKey(v) \/ DelRevokeMeta(v)
      PROVE  \A u \in User : lease'[u] = None \/ lease'[u] = lease[u]
  BY <1>1 DEF DelLeaseKey, DelRevokeMeta, TypeOK, StoreTypeOK
<1> QED
  BY <1>1 DEF Environment, Expire, ExpireMeta, EndCycle, RefreshCycle, SyncToken, Unbind,
     SetEnabled, AddMember, CloseCircuit, Rebind, Crash, vars

LEMMA AroundTokens ==
  ASSUME Alone, Env \cap {"crash", "unbind", "denied"} = {}, TypeOK, LoginInv, TokenInv,
         Environment \/ UNCHANGED vars
  PROVE  TokenInv'
<1>1. [Next]_vars
  BY DEF Next
<1>2. TokensKept /\ OldRecords
  BY <1>1, TokenStep, AroundRecords
<1>3. req' = req /\ live \subseteq live'
  BY DEF Environment, Expire, ExpireMeta, EndCycle, RefreshCycle, SyncToken, Unbind,
     SetEnabled, AddMember, CloseCircuit, Rebind, Crash, Mint, vars
<1>4. \A a \in Account : row'[a].bound /\ row'[a].ok /\ row'[a].at.acct = a
  BY <1>2, RowsGood
<1>5. ASSUME NEW a \in Account, NEW u \in User, (u \in Holders(a))' PROVE Apart(a, u)'
  <2>1. u \in Holders(a)
    BY <1>5, LeaseKept DEF Holders
  <2>2. Apart(a, u)
    BY <2>1 DEF TokenInv
  <2> QED
    BY <1>2, <2>2, ApartKept
<1>6. ASSUME NEW a \in Account
      PROVE  row'[a].at \in live' \/ ~CanMint(a)' \/ \E p \in Proc : Rotates(req'[p], a)
  BY <1>1, <1>2, <1>3, <1>6, AliveKept
<1>7. ASSUME NEW p \in Proc PROVE Secured(req[p])'
  <2> DEFINE r == req[p]
  <2>1. Secured(r) /\ req'[p] = r
    BY <1>3 DEF TokenInv
  <2>2. r \in Request /\ Bound(r)
    BY DEF TypeOK, ServiceTypeOK
  <2>3. /\ r.pc \in {"aResolve", "aLease", "lRevoke", "lStore"} => r.acct \in Account
        /\ r.pc \in {"nCheck", "nLease"} => r.cur.acct \in Account
        /\ r.user \in User \cup {None}
    BY <2>2 DEF Bound, Request, Lease
  <2>4. ASSUME r.pc \in {"aResolve", "aLease"} PROVE Apart(req[p].acct, req[p].user)'
    <3>1. PICK a \in Account, u \in User \cup {None} : a = r.acct /\ u = r.user
      BY <2>3, <2>4
    <3>2. Apart(a, u)
      BY <2>1, <2>4, <3>1 DEF Secured
    <3>3. Apart(a, u)'
      BY <1>2, <3>2, ApartKept
    <3>4. req'[p].acct = a /\ req'[p].user = u
      BY <2>1, <3>1
    <3> QED
      BY <3>3, <3>4
  <2>5. ASSUME r.pc \in {"nCheck", "nLease"} PROVE Apart(req[p].cur.acct, req[p].user)'
    <3>1. PICK a \in Account, u \in User \cup {None} : a = r.cur.acct /\ u = r.user
      BY <2>3, <2>5
    <3>2. Apart(a, u)
      BY <2>1, <2>5, <3>1 DEF Secured
    <3>3. Apart(a, u)'
      BY <1>2, <3>2, ApartKept
    <3>4. req'[p].cur.acct = a /\ req'[p].user = u
      BY <2>1, <3>1
    <3> QED
      BY <3>3, <3>4
  <2>6. ASSUME r.pc = "lRevoke", ~r.last PROVE r.sess # row'[r.acct].at
    <3>1. r.user \in User /\ r.acct \in Account /\ r.sess # row[r.acct].at
      BY <2>1, <2>3, <2>6, Locals DEF Secured
    <3>2. Recorded(r.user, r.sess)
      BY <2>6 DEF Recorded, Carries
    <3> QED
      BY <1>2, <3>1, <3>2 DEF TokensKept
  <2>7. ASSUME r.pc = "lStore"
        PROVE  /\ r.mint \in live' /\ r.mint.acct = r.acct
               /\ \A w \in User : ~Recorded(w, req[p].mint)'
    <3>1. PICK m : m = r.mint
      OBVIOUS
    <3>2. m \in live /\ m.acct = r.acct /\ \A w \in User : ~Recorded(w, m)
      BY <2>1, <2>7, <3>1 DEF Secured
    <3>3. m \in Session
      BY <3>2, SessionTypes
    <3>4. \A w \in User : ~Recorded(w, m)'
      BY <1>2, <3>2, <3>3 DEF OldRecords
    <3>5. req'[p].mint = m
      BY <2>1, <3>1
    <3> QED
      BY <1>3, <3>1, <3>2, <3>4, <3>5
  <2> QED
    BY <2>1, <2>4, <2>5, <2>6, <2>7 DEF Secured
<1> QED
  BY <1>4, <1>5, <1>6, <1>7 DEF TokenInv

\* What a step of the handler at work does to the holders' tokens.
LEMMA HoldersApart ==
  ASSUME Alone, \A a \in Account : Limit[a] = 1, TypeOK, CapacityInv, LoginInv, TokenInv,
         TokensKept, [Next]_vars, NEW p \in Proc, Start(p) \/ Continue(p),
         NEW a \in Account, NEW u \in User, (u \in Holders(a))'
  PROVE  Apart(a, u)'
<1>1. CASE AcquireResolve(p)
  <2>1. lease' = lease /\ row' = row /\ req[p].pc = "aResolve"
    BY <1>1 DEF AcquireResolve, At
  <2>2. u \in Holders(a) /\ Apart(a, u)
    BY <2>1 DEF Holders, TokenInv
  <2>3. row[a].at \in Session /\ row[a].at.acct = a
    BY DEF TokenInv, TypeOK, ServiceTypeOK, Row
  <2>4. ASSUME NEW w \in User \ {u} PROVE ~Recorded(w, row[a].at)'
    <3>1. PICK s \in Session : s = row[a].at
      BY <2>3
    <3>2. ~Recorded(w, s)
      BY <2>2, <2>4, <3>1 DEF Apart
    <3>3. ASSUME Recorded(w, s)' PROVE FALSE
      <4>1. w = req[p].user /\ a = req[p].acct
        BY <1>1, <2>3, <3>1, <3>2, <3>3, ResolveRecords
      <4>2. MayWrite(req[p], a)
        BY <2>1, <4>1 DEF MayWrite
      <4>3. w \in Claimants(a) /\ u \in Claimants(a)
        BY <2>2, <4>1, <4>2, ClaimOf DEF Claimants
      <4> QED
        BY <2>4, <4>3, OneClaimant
    <3>4. row'[a].at = s
      BY <2>1, <3>1
    <3> QED
      BY <3>3, <3>4
  <2> QED
    BY <2>4 DEF Apart
<1>2. CASE ~AcquireResolve(p)
  <2>1. OldRecords
    BY <1>2, RecordsKept DEF OldRecords
  <2>2. Apart(a, u)
    <3>1. CASE lease'[u] = lease[u]
      BY <3>1 DEF Holders, TokenInv
    <3>2. CASE lease'[u] # lease[u]
      <4>1. lease'[u] # None /\ lease'[u].acct = a
        BY DEF Holders
      <4>2. PICK q \in Proc : /\ req[q].user = u
                              /\ \/ req[q].pc = "aLease" /\ lease'[u].acct = req[q].acct
                                 \/ req[q].pc = "nLease" /\ lease'[u].acct = req[q].cur.acct
        BY <3>2, <4>1, LeaseWritten
      <4>3. Secured(req[q])
        BY DEF TokenInv
      <4> QED
        BY <4>1, <4>2, <4>3 DEF Secured
    <3> QED
      BY <3>1, <3>2
  <2> QED
    BY <2>1, <2>2, ApartKept
<1> QED
  BY <1>1, <1>2

\* What a handler has made sure of where it arrives.
LEMMA StepSecures ==
  ASSUME Alone, TypeOK, LoginInv, TokenInv, TokensKept,
         NEW p \in Proc, Start(p) \/ Continue(p)
  PROVE  Secured(req[p])'
<1> DEFINE r == req[p]
           next == req'[p]
<1>1. r \in Request /\ Bound(r)
  BY DEF TypeOK, ServiceTypeOK
<1>2. ~AcquireResolve(p) => OldRecords
  BY RecordsKept DEF OldRecords
<1>3. ASSUME next.pc = "aResolve" PROVE Apart(req[p].acct, req[p].user)'
  <2>1. AcquireStore(p) /\ r.pc = "aStore" /\ OldRecords
    BY <1>2, <1>3, ComesFrom DEF AcquireStore, AcquireResolve, At
  <2>2. PICK a \in Account, m \in MaybeSession : a = r.acct /\ m = r.mint
    BY <1>1, <2>1 DEF Bound, Request
  <2>3. m \in live /\ Youngest(m) /\ m.acct = a
    BY <2>1, <2>2 DEF LoginInv, Knows
  <2>4. m \in Session /\ m.n \in Nat
    BY <2>3, SessionTypes
  <2>5. \A w \in User : ~Recorded(w, m)
    BY <2>3, <2>4 DEF Youngest
  <2>6. \A w \in User : ~Recorded(w, m)'
    BY <2>1, <2>4, <2>5 DEF OldRecords
  <2>7. Goto(p, "aResolve") /\ StoreToken(a, m)
    <3>1. Goto(p, "aFail") => next.pc = "aFail"
      BY Turns
    <3> QED
      BY <1>3, <2>1, <2>2, <3>1 DEF AcquireStore
  <2>8. row'[a].at = m /\ next.acct = a
    BY <2>2, <2>7, FreeTurns DEF StoreToken, TypeOK, ServiceTypeOK, Row
  <2>9. \A u : Apart(a, u)'
    BY <2>6, <2>8 DEF Apart
  <2> QED
    BY <2>8, <2>9
<1>4. ASSUME next.pc = "aLease" PROVE Apart(req[p].acct, req[p].user)'
  <2>1. AcquireResolve(p) /\ r.pc = "aResolve" /\ row' = row
    BY <1>4, ComesFrom DEF AcquireResolve, At
  <2>2. PICK a \in Account, u \in User \cup {None} : a = r.acct /\ u = r.user
    BY <1>1, <2>1 DEF Bound, Request
  <2>3. Apart(a, u)
    BY <2>1, <2>2 DEF TokenInv, Secured
  <2>4. next.acct = a /\ next.user = u
    <3>1. ~NextCandidate(p, r)
      BY <1>4, Turns
    <3>2. PICK s : Become(p, [r EXCEPT !.pc = "aLease", !.sess = s, !.before = {}])
      BY <2>1, <3>1 DEF AcquireResolve
    <3>3. next = [r EXCEPT !.pc = "aLease", !.sess = s, !.before = {}]
      BY <3>2, Turns
    <3> QED
      BY <1>1, <2>2, <3>3 DEF Request
  <2>5. PICK s \in Session : s = row[a].at
    BY DEF TypeOK, ServiceTypeOK, Row
  <2>6. \A w \in User \ {u} : ~Recorded(w, s)'
    BY <2>1, <2>2, <2>3, <2>5, ResolveRecords DEF Apart
  <2>7. row'[a].at = s
    BY <2>1, <2>5
  <2>8. Apart(a, u)'
    BY <2>6, <2>7 DEF Apart
  <2> QED
    BY <2>4, <2>8
<1>5. ASSUME next.pc = "nCheck" PROVE Apart(req[p].cur.acct, req[p].user)'
  <2>1. RenewRead(p) /\ r.pc = "nRead" /\ OldRecords
    BY <1>2, <1>5, ComesFrom DEF RenewRead, AcquireResolve, At
  <2>2. PICK l : l = IF lease[r.user] = None THEN "nMeta" ELSE "nCheck"
    OBVIOUS
  <2>3. Become(p, [r EXCEPT !.pc = l, !.cur = lease[r.user]])
    BY <2>1, <2>2 DEF RenewRead
  <2>4. next = [r EXCEPT !.pc = l, !.cur = lease[r.user]]
    BY <2>3, Turns
  <2>5. next.pc = l /\ next.cur = lease[r.user] /\ next.user = r.user
    BY <1>1, <2>4 DEF Request
  <2>6. PICK u \in User : u = r.user
    BY <2>1, Locals
  <2>7. PICK a \in Account : lease[u] # None /\ lease[u].acct = a
    BY <1>5, <2>2, <2>5, <2>6, SessionTypes DEF Lease
  <2>8. Apart(a, u)
    BY <2>7 DEF TokenInv, Holders
  <2>9. Apart(a, u)'
    BY <2>1, <2>8, ApartKept
  <2>10. next.cur.acct = a /\ next.user = u
    BY <2>5, <2>6, <2>7
  <2> QED
    BY <2>9, <2>10
<1>6. ASSUME next.pc = "nLease" PROVE Apart(req[p].cur.acct, req[p].user)'
  <2>1. RenewCheck(p) /\ r.pc = "nCheck" /\ OldRecords
    BY <1>2, <1>6, ComesFrom DEF RenewCheck, AcquireResolve, At
  <2>2. PICK a \in Account, u \in User \cup {None} : a = r.cur.acct /\ u = r.user
    BY <1>1, <2>1 DEF Bound, Request, Lease
  <2>3. Apart(a, u)
    BY <2>1, <2>2 DEF TokenInv, Secured
  <2>4. Apart(a, u)'
    BY <2>1, <2>3, ApartKept
  <2>5. next.cur.acct = a /\ next.user = u
    <3>1. ~Finish(p)
      BY <1>6, Turns
    <3>2. PICK l : Goto(p, l)
      BY <2>1, <3>1 DEF RenewCheck
    <3> QED
      BY <2>2, <3>2, FreeTurns
  <2> QED
    BY <2>4, <2>5
<1>7. ASSUME next.pc = "lRevoke", ~next.last PROVE next.sess # row'[next.acct].at
  <2>1. ReleaseCount(p) /\ r.pc = "lCount" /\ row' = row
    BY <1>7, ComesFrom DEF ReleaseCount, At
  <2>2. next = [r EXCEPT !.pc = "lRevoke", !.last = Holders(r.acct) = {}]
    BY <2>1, Turns DEF ReleaseCount
  <2>3. next.sess = r.sess /\ next.acct = r.acct /\ Holders(r.acct) # {}
    BY <1>1, <1>7, <2>2 DEF Request
  <2>4. r.user \in User /\ r.acct \in Account /\ lease[r.user] = None
    BY <1>1, <2>1, Locals DEF Bound, Request, LoginInv, Knows
  <2>5. PICK v \in User : v \in Holders(r.acct) /\ v # r.user
    BY <2>3, <2>4 DEF Holders
  <2>6. Apart(r.acct, v)
    BY <2>4, <2>5 DEF TokenInv
  <2>7. Recorded(r.user, r.sess)
    BY <2>1 DEF Recorded, Carries
  <2> QED
    BY <2>1, <2>3, <2>4, <2>5, <2>6, <2>7 DEF Apart
<1>8. ASSUME next.pc = "lStore"
      PROVE  /\ next.mint \in live' /\ next.mint.acct = next.acct
             /\ \A w \in User : ~Recorded(w, req[p].mint)'
  <2>1. ReleaseRotate(p) /\ r.pc = "lRotate" /\ OldRecords
    BY <1>2, <1>8, ComesFrom DEF ReleaseRotate, AcquireResolve, At
  <2>2. PICK a \in Account : a = r.acct
    BY <1>1, <2>1 DEF Bound, Request
  <2>3. PICK m : m = NextSession(a)
    OBVIOUS
  <2>4. Mint(a) /\ Become(p, [r EXCEPT !.pc = "lStore", !.mint = m])
    <3>1. Resume(p, r) => next.pc = r.ret
      BY Turns
    <3>2. r.ret # "lStore"
      BY <1>1 DEF Request, Continuation
    <3> QED
      BY <1>8, <2>1, <2>2, <2>3, <3>1, <3>2 DEF ReleaseRotate
  <2>5. next = [r EXCEPT !.pc = "lStore", !.mint = m]
    BY <2>4, Turns
  <2>6. next.mint = m /\ next.acct = a
    BY <1>1, <2>2, <2>5 DEF Request
  <2>7. /\ m \in Session /\ m.acct = a
        /\ \A w \in User : ~Recorded(w, m)
    BY <2>3, <2>4, NextIsNew DEF Mint
  <2>8. m \in live'
    BY <2>3, <2>4 DEF Mint
  <2>9. \A w \in User : ~Recorded(w, m)'
    BY <2>1, <2>7 DEF OldRecords
  <2> QED
    BY <2>6, <2>7, <2>8, <2>9
<1> QED
  BY <1>3, <1>4, <1>5, <1>6, <1>7, <1>8 DEF Secured

\* A token that stops working belongs to the account whose credentials the
\* release at work goes on to rotate.
LEMMA StepAlive ==
  ASSUME Alone, Env \cap {"unbind", "denied", "httpError"} = {},
         TypeOK, SessionInv, LoginInv, TokenInv, TokensKept, [Next]_vars,
         NEW p \in Proc, Start(p) \/ Continue(p), NEW a \in Account
  PROVE  row'[a].at \in live' \/ ~CanMint(a)' \/ Rotates(req'[p], a)
<1> DEFINE r == req[p]
           next == req'[p]
           Good == row'[a].at \in live' \/ ~CanMint(a)' \/ Rotates(next, a)
<1>1. r \in Request /\ Bound(r)
  BY DEF TypeOK, ServiceTypeOK
<1>2. row[a].bound /\ row[a].ok
  BY DEF TokenInv
<1> SUFFICES Good
  OBVIOUS
<1>3. CASE row[a].at \in live /\ row[a].at \notin live'
  <2>1. PICK q \in Proc : ReleaseRevoke(q) /\ Revoke(req[q].sess)
    BY <1>3, LiveGrows
  <2>2. q = p
    BY DEF Alone
  <2>3. ReleaseRevoke(p) /\ r.pc = "lRevoke" /\ row[a].at = r.sess
    BY <1>3, <2>1, <2>2 DEF ReleaseRevoke, At, Revoke
  <2>4. r.sess # None
    BY <1>3, <2>3, SessionTypes
  <2>5. r.acct = a
    BY <2>3, <2>4, SessionInvImplies DEF SessionOfItsAccount, TokenInv
  <2>6. r.last
    BY <2>3, <2>5 DEF TokenInv, Secured
  <2>7. Goto(p, "lRotate")
    BY <1>2, <2>3, <2>5, <2>6 DEF ReleaseRevoke
  <2>8. next.pc = "lRotate" /\ next.acct = a
    BY <2>5, <2>7, FreeTurns
  <2> QED
    BY <2>8 DEF Rotates
<1>4. CASE row[a].at \in live => row[a].at \in live'
  <2>1. CASE row'[a].at \in live' \/ ~CanMint(a)'
    BY <2>1
  <2>2. CASE ~(row'[a].at \in live' \/ ~CanMint(a)')
    <3>1. Rotates(r, a)
      BY <1>4, <2>2, AliveKept DEF Alone
    <3>2. CASE r.pc = "lRotate"
      <4>1. CanMint(a)
        BY <2>2, MintedGrows
      <4>2. RefreshOutcome(r.acct) = {"ok"}
        BY <3>1, <4>1 DEF RefreshOutcome, Rotates
      <4>3. ~Start(p)
        BY <3>2 DEF Start, StartAcquire, StartRotate, StartRenew, StartStatus, StartRelease,
           StartRemove, StartSweep, Accepts, At
      <4>4. ReleaseRotate(p)
        BY <3>2, <4>3 DEF Continue, AcquireRead, AcquireSelect, AcquireCount, AcquireSnapshot,
           AcquireRefresh, AcquireStore, AcquireFail, AcquireResolve, AcquireSetLease,
           AcquireSetMeta, AcquireDone, RenewRead, RenewMeta, RenewCheck, RenewSetLease,
           RenewSetMeta, StatusRead, StatusMeta, StatusCheck, ReleaseGet, ReleaseDel,
           ReleaseMeta, ReleasePop, ReleaseCount, ReleaseRevoke, ReleaseStore, SweepLease,
           SweepCheck, SweepOrphan, RemoveList, RemoveNext, At
      <4>5. PICK m : Become(p, [r EXCEPT !.pc = "lStore", !.mint = m])
        BY <1>2, <3>1, <4>2, <4>4 DEF ReleaseRotate, Rotates
      <4>6. next = [r EXCEPT !.pc = "lStore", !.mint = m]
        BY <4>5, Turns
      <4>7. next.pc = "lStore" /\ next.acct = r.acct
        BY <1>1, <4>6 DEF Request
      <4> QED
        BY <3>1, <4>7 DEF Rotates
    <3>3. CASE r.pc = "lStore"
      <4>1. ~Start(p)
        BY <3>3 DEF Start, StartAcquire, StartRotate, StartRenew, StartStatus, StartRelease,
           StartRemove, StartSweep, Accepts, At
      <4>2. ReleaseStore(p)
        BY <3>3, <4>1 DEF Continue, AcquireRead, AcquireSelect, AcquireCount, AcquireSnapshot,
           AcquireRefresh, AcquireStore, AcquireFail, AcquireResolve, AcquireSetLease,
           AcquireSetMeta, AcquireDone, RenewRead, RenewMeta, RenewCheck, RenewSetLease,
           RenewSetMeta, StatusRead, StatusMeta, StatusCheck, ReleaseGet, ReleaseDel,
           ReleaseMeta, ReleasePop, ReleaseCount, ReleaseRevoke, ReleaseRotate, SweepLease,
           SweepCheck, SweepOrphan, RemoveList, RemoveNext, At
      <4>3. r.acct = a /\ r.mint \in live
        BY <3>1, <3>3 DEF Rotates, TokenInv, Secured
      <4>4. live' = live /\ StoreToken(a, r.mint)
        BY <1>2, <4>2, <4>3 DEF ReleaseStore
      <4>5. row'[a].at = r.mint
        BY <4>4 DEF StoreToken, TypeOK, ServiceTypeOK, Row
      <4> QED
        BY <4>3, <4>4, <4>5
    <3> QED
      BY <3>1, <3>2, <3>3 DEF Rotates
  <2> QED
    BY <2>1, <2>2
<1> QED
  BY <1>3, <1>4

LEMMA TokenInvStep ==
  ASSUME Alone, Env \cap {"crash", "unbind", "denied", "httpError"} = {},
         \A a \in Account : Limit[a] = 1,
         TypeOK, SessionInv, LoginInv, CapacityInv, TokenInv, [Next]_vars
  PROVE  TokenInv'
<1>1. CASE Environment \/ UNCHANGED vars
  BY <1>1, AroundTokens
<1>2. ASSUME NEW p \in Proc, Start(p) \/ Continue(p) PROVE TokenInv'
  <2>1. TokensKept
    BY TokenStep
  <2>2. \A a \in Account : row'[a].bound /\ row'[a].ok /\ row'[a].at.acct = a
    BY <2>1, RowsGood
  <2>3. \A a \in Account, u \in User : (u \in Holders(a))' => Apart(a, u)'
    BY <1>2, <2>1, HoldersApart
  <2>4. \A a \in Account :
           row'[a].at \in live' \/ ~CanMint(a)' \/ \E q \in Proc : Rotates(req'[q], a)
    BY <1>2, <2>1, StepAlive
  <2>5. \A q \in Proc : q = p
    BY DEF Alone
  <2>6. \A q \in Proc : Secured(req[q])'
    BY <1>2, <2>1, <2>5, StepSecures
  <2> QED
    BY <2>2, <2>3, <2>4, <2>6 DEF TokenInv
<1> QED
  BY <1>1, <1>2 DEF Next

LEMMA TokenInvInit == Init => TokenInv
<1> SUFFICES ASSUME Init PROVE TokenInv
  OBVIOUS
<1>1. \A a \in Account : [acct |-> a, n |-> 1] \in live
  BY DEF Init, AuthInit
<1>2. \A a \in Account : row[a].bound /\ row[a].ok /\ row[a].at = [acct |-> a, n |-> 1]
  BY DEF Init
<1>3. \A a \in Account : Holders(a) = {}
  BY DEF Init, StoreInit, Holders
<1>4. \A p \in Proc : Secured(req[p])
  BY DEF Init, Secured, Idle
<1>5. ASSUME NEW a \in Account PROVE row[a].at.acct = a /\ row[a].at \in live
  <2>1. PICK s : s = [acct |-> a, n |-> 1]
    OBVIOUS
  <2>2. s.acct = a /\ s \in live /\ row[a].at = s
    BY <1>1, <1>2, <2>1
  <2> QED
    BY <2>2
<1> QED
  BY <1>2, <1>3, <1>4, <1>5 DEF TokenInv

\* While one handler runs at a time and none dies, a release revokes the session
\* recorded for its renter (or the account has no login left to be refreshed
\* with): for an account of one renter, whose stored token is never the
\* login that somebody else is about to lose, unless Cursor refuses a call,
\* the account is unbound or a refresh token is rejected (release, acquire).
THEOREM ReleasesKill ==
  ASSUME Alone, Env \cap {"crash", "unbind", "denied", "httpError"} = {},
         \A a \in Account : Limit[a] = 1
  PROVE  Spec => ReleaseKillsLogin
<1>1. Init => SessionInv /\ CapacityInv /\ TokenInv
  BY SessionInvInit, InitTyped, CapacityInvInit, TokenInvInit
<1>2. Spec => [](TypeOK /\ SessionInv /\ LoginInv /\ CapacityInv /\ TokenInv)
  BY <1>1, SessionInvStep, CapacityInvStep, TokenInvStep, LoginInvariant, PTL DEF Spec
<1>3. ASSUME TypeOK, SessionInv, LoginInv, CapacityInv, TokenInv, [Next]_vars
      PROVE  [\A p \in Proc :
                At(p, "lRevoke") /\ Moved(p) /\ req[p].sess # None
                  => req[p].sess \notin live' \/ ~CanMint(req[p].acct)]_vars
  <2> SUFFICES ASSUME NEW p \in Proc, At(p, "lRevoke"), Moved(p), req[p].sess # None,
                      CanMint(req[p].acct)
               PROVE  req[p].sess \notin live'
    OBVIOUS
  <2> DEFINE r == req[p]
  <2>1. r.pc = "lRevoke" /\ r.acct \in Account
    BY <1>3, Locals DEF At, TypeOK, ServiceTypeOK, Bound, Request
  <2>2. ReleaseRevoke(p)
    <3>1. Start(p) \/ Continue(p) \/ Crash(p)
      BY <1>3, OneMoves DEF Moved
    <3>2. ~Start(p) /\ ~Crash(p)
      BY <2>1 DEF Crash, Start, StartAcquire, StartRotate, StartRenew, StartStatus, StartRelease,
         StartRemove, StartSweep, Accepts, At
    <3> QED
      BY <2>1, <3>1, <3>2 DEF Continue, AcquireRead, AcquireSelect, AcquireCount, AcquireSnapshot,
         AcquireRefresh, AcquireStore, AcquireFail, AcquireResolve, AcquireSetLease,
         AcquireSetMeta, AcquireDone, RenewRead, RenewMeta, RenewCheck, RenewSetLease,
         RenewSetMeta, StatusRead, StatusMeta, StatusCheck, ReleaseGet, ReleaseDel,
         ReleaseMeta, ReleasePop, ReleaseCount, ReleaseRotate, ReleaseStore, SweepLease,
         SweepCheck, SweepOrphan, RemoveList, RemoveNext, At
  <2>3. \A q \in Proc : ~Rotates(req[q], r.acct)
    BY <2>1 DEF Alone, Rotates
  <2>4. row[r.acct].bound /\ row[r.acct].at \in live
    BY <1>3, <2>1, <2>3 DEF TokenInv
  <2>5. Revoke(r.sess)
    BY <2>2, <2>4 DEF ReleaseRevoke
  <2> QED
    BY <2>5 DEF Revoke
<1> QED
  BY <1>2, <1>3, PTL DEF ReleaseKillsLogin, Spec

=============================================================================
