--------------------------- MODULE SessionProofs ---------------------------
(***************************************************************************)
(* Proofs about the lease service, for every set of renters, accounts and  *)
(* handlers and every environment.  Type correctness comes first: its      *)
(* invariant is inductive because it says, beside the types, which local   *)
(* variables a handler has assigned by the time it stands at a label       *)
(* (Bound).                                                                *)
(*                                                                         *)
(* SessionOfItsAccount, however the handlers interleave, is made inductive *)
(* by what a handler holds besides its revocation target: the lease it has *)
(* read (cur), which renew writes back and release revokes; and by acquire *)
(* having no session yet while it may still change the account.            *)
(*                                                                         *)
(* Then what holds while one handler runs at a time (Alone): the sessions  *)
(* of the leases stay alive and releases spare the sessions of others      *)
(* (LoginInv), the revoke metas follow the leases (MirrorInv), a removed   *)
(* account ends up without renters (FreeInv), the sweep takes only what is *)
(* due (StampInv, SweepInv), and what is due stays due (FreshInv).  That   *)
(* the sweep visits all (FollowInv) holds beside other handlers.           *)
(***************************************************************************)
EXTENDS LeaseSafety, TLAPS

\* What one handler's record must satisfy, and all of them.
Sound(r) == r \in Request /\ Bound(r)
RequestsOK == req \in [Proc -> Request] /\ \A p \in Proc : Sound(req[p])

\* The rest of TypeOK.
StateOK ==
    /\ AuthTypeOK
    /\ StoreTypeOK
    /\ row \in [Account -> Row]
    /\ pool \in [Account -> Member]
    /\ granted \in [User -> SUBSET Session]

-----------------------------------------------------------------------------
LEMMA SplitType == TypeOK <=> StateOK /\ RequestsOK
  BY DEF TypeOK, StateOK, RequestsOK, ServiceTypeOK, Sound

LEMMA SplitTypePrime == TypeOK' <=> StateOK' /\ RequestsOK'
  BY DEF TypeOK, StateOK, RequestsOK, ServiceTypeOK, Sound

LEMMA StateUnchanged ==
  ASSUME StateOK, UNCHANGED <<live, minted, lease, meta, row, pool, granted>>
  PROVE  StateOK'
  BY DEF StateOK, AuthTypeOK, StoreTypeOK

\* The record a handler starts from and ends with.
LEMMA IdleSound == Sound(Idle)
  BY ServiceAssumption DEF Sound, Idle, Request, Bound, Label, Continuation, MaybeSession

\* A handler that has only its user enters anywhere but where more is needed.
LEMMA StartSound ==
  ASSUME NEW u \in User, NEW l \in {"aRead", "nRead", "sRead", "lGet"}
  PROVE  Sound([Idle EXCEPT !.pc = l, !.user = u])
<1>1. [Idle EXCEPT !.pc = l, !.user = u] \in Request
  BY IdleSound DEF Sound, Request, Label
<1>2. Bound([Idle EXCEPT !.pc = l, !.user = u])
  BY NoneIsNoUser DEF Idle, Bound
<1> QED
  BY <1>1, <1>2 DEF Sound

LEMMA SoundFields ==
  ASSUME NEW r, Sound(r)
  PROVE  /\ r.pc \in Label /\ r.ret \in Continuation
         /\ r.user \in User \cup {None} /\ r.force \in BOOLEAN
         /\ r.exclude \subseteq Account /\ r.prefer \in Account \cup {None}
         /\ r.cur \in Lease \cup {None} /\ r.acct \in Account \cup {None}
         /\ r.over \in BOOLEAN /\ r.before \subseteq Session
         /\ r.mint \in MaybeSession /\ r.sess \in MaybeSession
         /\ r.last \in BOOLEAN /\ r.todo \subseteq User
  BY DEF Sound, Request

\* A handler that becomes a sound record leaves the others as they are.
LEMMA BecomeSound ==
  ASSUME RequestsOK, NEW p \in Proc, NEW r, Sound(r), Become(p, r)
  PROVE  RequestsOK'
  BY DEF Become, Sound, RequestsOK

LEMMA FinishSound ==
  ASSUME RequestsOK, NEW p \in Proc, Finish(p)
  PROVE  RequestsOK'
  BY IdleSound, BecomeSound DEF Finish

\* A handler may go on at a label where the locals it has are enough.
LEMMA GotoSound ==
  ASSUME RequestsOK, NEW p \in Proc, NEW l \in Label, Goto(p, l),
         Bound([req[p] EXCEPT !.pc = l])
  PROVE  RequestsOK'
<1>1. Sound([req[p] EXCEPT !.pc = l])
  BY DEF RequestsOK, Sound, Request
<1> QED
  BY <1>1, BecomeSound DEF Goto

\* Whatever called release or status as a subroutine goes on from a sound
\* record.
LEMMA ResumeSound ==
  ASSUME RequestsOK, NEW p \in Proc, NEW r, Sound(r), r.user # None, Resume(p, r)
  PROVE  RequestsOK'
<1>1. CASE r.ret = "idle"
  BY <1>1, IdleSound, BecomeSound DEF Resume
<1>2. CASE r.ret # "idle"
  <2> DEFINE user == IF r.ret = "aRead" THEN r.user ELSE None
             next == [pc |-> r.ret, ret |-> r.ret, user |-> user, force |-> r.force,
                      exclude |-> r.exclude, prefer |-> None, cur |-> None,
                      acct |-> None, over |-> FALSE, before |-> {}, mint |-> None,
                      sess |-> None, last |-> FALSE, todo |-> r.todo]
  <2>1. Become(p, next)
    BY <1>2 DEF Resume, Idle
  <2>2. /\ r.ret \in Continuation /\ r.user \in User /\ r.force \in BOOLEAN
        /\ r.exclude \subseteq Account /\ r.todo \subseteq User
    BY SoundFields
  <2>3. r.ret \in Label /\ user \in User \cup {None}
    BY <2>2 DEF Label, Continuation
  <2>4. next \in Request
    <3> HIDE DEF user
    <3> QED
      BY <2>2, <2>3 DEF Request, MaybeSession
  <2>5. Bound(next)
    BY <1>2, <2>2 DEF Bound, Continuation
  <2> HIDE DEF next
  <2> QED
    BY <2>1, <2>4, <2>5, BecomeSound DEF Sound
<1> QED
  BY <1>1, <1>2

\* The loop of acquire goes on from a sound record.
LEMMA NextSound ==
  ASSUME RequestsOK, NEW p \in Proc, NEW r, Sound(r), r.user # None,
         r.acct \in Account, NextCandidate(p, r)
  PROVE  RequestsOK'
<1> DEFINE next == [r EXCEPT !.pc = "aSelect", !.exclude = @ \cup {r.acct},
                             !.prefer = None, !.acct = None, !.over = FALSE,
                             !.before = {}, !.mint = None, !.sess = None]
<1>1. next \in Request
  BY DEF Sound, Request, Label, MaybeSession
<1>2. Bound(next)
  BY DEF Sound, Request, Bound
<1> QED
  BY <1>1, <1>2, BecomeSound DEF NextCandidate, Sound

\* What the operations on the state preserve.
LEMMA MintSound ==
  ASSUME AuthTypeOK, NEW a \in Account, Mint(a)
  PROVE  AuthTypeOK' /\ NextSession(a) \in Session
<1>1. minted[a] \in 0..MaxSession /\ minted[a] < MaxSession /\ MaxSession \in Nat
  BY MaxSessionAssumption DEF AuthTypeOK, Mint, CanMint
<1>2. NextSession(a) \in Session
  BY <1>1 DEF NextSession, Session
<1>3. minted' \in [Account -> 0..MaxSession]
  BY <1>1 DEF AuthTypeOK, Mint
<1>4. live' \subseteq Session
  BY <1>2 DEF AuthTypeOK, Mint
<1>5. ASSUME NEW s \in live' PROVE s.n <= minted'[s.acct]
  <2>1. CASE s \in live
    <3>1. /\ s.acct \in Account /\ s.n \in 1..MaxSession
          /\ minted[s.acct] \in 0..MaxSession /\ s.n <= minted[s.acct]
      BY <2>1 DEF AuthTypeOK, Session
    <3> QED
      BY <3>1, <1>1 DEF AuthTypeOK, Mint
  <2>2. CASE s = NextSession(a)
    BY <2>2, <1>1 DEF AuthTypeOK, Mint, NextSession
  <2> QED
    BY <1>5, <2>1, <2>2 DEF Mint
<1> QED
  BY <1>2, <1>3, <1>4, <1>5 DEF AuthTypeOK

LEMMA RevokeSound ==
  ASSUME AuthTypeOK, NEW s, Revoke(s)
  PROVE  AuthTypeOK'
  BY DEF AuthTypeOK, Revoke

LEMMA StoreTokenSound ==
  ASSUME row \in [Account -> Row], NEW a \in Account, NEW s \in Session, StoreToken(a, s)
  PROVE  row' \in [Account -> Row]
  BY DEF StoreToken, Row

LEMMA StoreInvalidSound ==
  ASSUME row \in [Account -> Row], NEW a \in Account, StoreInvalid(a)
  PROVE  row' \in [Account -> Row]
  BY DEF StoreInvalid, Row

LEMMA StampSound ==
  ASSUME row \in [Account -> Row], NEW u \in User, NEW a \in Account,
         NEW s \in MaybeSession
  PROVE  Stamp(u, a, s) \in Lease
<1> DEFINE own == IF OwnAccount(u) = {} THEN None
                  ELSE row[CHOOSE b \in OwnAccount(u) : TRUE].cycle
<1>1. \A b \in Account : row[b].cycle \in Nat
  BY ServiceAssumption DEF Row
<1>2. own \in CycleSnap
  <2>1. CASE OwnAccount(u) = {}
    BY <2>1 DEF CycleSnap
  <2>2. CASE OwnAccount(u) # {}
    <3>1. (CHOOSE b \in OwnAccount(u) : TRUE) \in Account
      BY <2>2 DEF OwnAccount
    <3> QED
      BY <2>2, <3>1, <1>1 DEF CycleSnap
  <2> QED
    BY <2>1, <2>2
<1>3. Stamp(u, a, s) = [acct |-> a, sess |-> s, pool |-> row[a].cycle, own |-> own]
  BY DEF Stamp
<1> HIDE DEF own
<1> QED
  BY <1>1, <1>2, <1>3 DEF Lease, CycleSnap

LEMMA StoreWritesSound ==
  ASSUME StoreTypeOK, NEW u \in User,
         \/ \E l \in Lease : SetLeaseKey(u, l)
         \/ \E m \in RevokeMeta : SetRevokeMeta(u, m)
         \/ DelLeaseKey(u)
         \/ DelRevokeMeta(u)
  PROVE  StoreTypeOK'
  BY DEF StoreTypeOK, SetLeaseKey, SetRevokeMeta, DelLeaseKey, DelRevokeMeta

LEMMA PickSound ==
  ASSUME NEW S \in SUBSET Session, NEW before, NEW s \in PickNewSession(S, before)
  PROVE  s \in S \cup {None}
  BY DEF PickNewSession, Newest

-----------------------------------------------------------------------------
(* The handlers, one lemma per operation                                   *)

LEMMA AcquireTyped ==
  ASSUME TypeOK, NEW p \in Proc
  PROVE  /\ (\E u \in User : StartAcquire(p, u)) => TypeOK'
         /\ AcquireRead(p) => TypeOK'
         /\ AcquireSelect(p) => TypeOK'
         /\ AcquireCount(p) => TypeOK'
         /\ AcquireSnapshot(p) => TypeOK'
<1> DEFINE r == req[p]
<1>1. StateOK /\ RequestsOK /\ Sound(r)
  BY SplitType DEF RequestsOK
<1> USE <1>1
<1>2. ASSUME NEW u \in User, StartAcquire(p, u) PROVE TypeOK'
  <2>1. Sound([Idle EXCEPT !.pc = "aRead", !.user = u])
    BY StartSound DEF Label
  <2> QED
    BY <1>2, <2>1, BecomeSound, StateUnchanged, SplitTypePrime DEF StartAcquire
<1>3. ASSUME AcquireRead(p) PROVE TypeOK'
  <2> DEFINE cur == lease[r.user]
             stay == ~r.force /\ cur # None /\ cur.acct \notin r.exclude
             prefer == IF stay THEN cur.acct ELSE None
             next == [r EXCEPT !.pc = "aSelect", !.cur = cur, !.prefer = prefer]
  <2>1. r.pc = "aRead" /\ r.user \in User
    BY <1>3, SoundFields DEF AcquireRead, At, Sound, Bound
  <2>2. cur \in Lease \cup {None}
    BY <2>1 DEF StateOK, StoreTypeOK
  <2>3. prefer \in Account \cup {None}
    BY <2>2 DEF Lease
  <2>4. Become(p, next) /\ UNCHANGED <<live, minted, lease, meta, row, pool, granted>>
    BY <1>3 DEF AcquireRead
  <2>5. Sound(next)
    <3> HIDE DEF cur, prefer
    <3> QED
      BY <2>1, <2>2, <2>3, NoneIsNoUser DEF Sound, Request, Bound, Label
  <2> HIDE DEF next
  <2> QED
    BY <2>4, <2>5, BecomeSound, StateUnchanged, SplitTypePrime
<1>4. ASSUME AcquireSelect(p) PROVE TypeOK'
  <2>1. r.pc = "aSelect"
    BY <1>4 DEF AcquireSelect, At
  <2>2. ASSUME NEW a \in Account
        PROVE  Sound([r EXCEPT !.pc = "aCount", !.acct = a])
    BY <2>1, NoneAssumption DEF Sound, Request, Bound, Label
  <2>3. RequestsOK'
    <3>1. \/ Finish(p)
          \/ \E a \in Account : Become(p, [r EXCEPT !.pc = "aCount", !.acct = a])
      BY <1>4 DEF AcquireSelect, Eligible
    <3> QED
      BY <3>1, <2>2, FinishSound, BecomeSound
  <2> QED
    BY <1>4, <2>3, StateUnchanged, SplitTypePrime DEF AcquireSelect
<1>5. ASSUME AcquireCount(p) PROVE TypeOK'
  <2>1. r.pc = "aCount" /\ r.acct \in Account /\ r.user \in User
    BY <1>5, SoundFields DEF AcquireCount, At, Sound, Bound
  <2>2. RequestsOK'
    <3>1. CASE Finish(p)
      BY <3>1, FinishSound
    <3>2. CASE NextCandidate(p, r)
      BY <3>2, <2>1, NextSound, NoneIsNoUser
    <3>3. CASE Become(p, [r EXCEPT !.pc = "aSnap", !.over = row[r.acct].ended])
      <4>1. row[r.acct].ended \in BOOLEAN
        BY <2>1 DEF StateOK, Row
      <4>2. Sound([r EXCEPT !.pc = "aSnap", !.over = row[r.acct].ended])
        BY <2>1, <4>1 DEF Sound, Request, Bound, Label
      <4> QED
        BY <3>3, <4>2, BecomeSound
    <3> QED
      BY <1>5, <3>1, <3>2, <3>3 DEF AcquireCount
  <2> QED
    BY <1>5, <2>2, StateUnchanged, SplitTypePrime DEF AcquireCount
<1>6. ASSUME AcquireSnapshot(p) PROVE TypeOK'
  <2>1. r.pc = "aSnap"
    BY <1>6 DEF AcquireSnapshot, At
  <2>2. LiveOf(r.acct) \subseteq Session
    BY DEF LiveOf, StateOK, AuthTypeOK
  <2>3. /\ Sound([r EXCEPT !.pc = "aRefresh", !.before = LiveOf(r.acct)])
        /\ Bound([r EXCEPT !.pc = "aFail"])
        /\ Bound([r EXCEPT !.pc = "aRefresh"])
    BY <2>1, <2>2 DEF Sound, Request, Bound, Label
  <2>4. RequestsOK'
    BY <1>6, <2>3, BecomeSound, GotoSound DEF AcquireSnapshot, Label
  <2> QED
    BY <1>6, <2>4, StateUnchanged, SplitTypePrime DEF AcquireSnapshot
<1> QED
  BY <1>2, <1>3, <1>4, <1>5, <1>6

LEMMA IssueTyped ==
  ASSUME TypeOK, NEW p \in Proc
  PROVE  /\ AcquireRefresh(p) => TypeOK'
         /\ AcquireStore(p) => TypeOK'
         /\ AcquireFail(p) => TypeOK'
         /\ AcquireResolve(p) => TypeOK'
<1> DEFINE r == req[p]
           a == req[p].acct
<1>1. StateOK /\ RequestsOK /\ Sound(r)
  BY SplitType DEF RequestsOK
<1> USE <1>1
<1>2. ASSUME AcquireRefresh(p) PROVE TypeOK'
  <2>1. r.pc = "aRefresh" /\ a \in Account
    BY <1>2, SoundFields DEF AcquireRefresh, At, Sound, Bound
  <2>2. UNCHANGED <<lease, meta, pool, granted>>
    BY <1>2 DEF AcquireRefresh
  <2>3. CASE Goto(p, "aFail") /\ UNCHANGED <<live, minted>> /\ (StoreInvalid(a) \/ UNCHANGED row)
    <3>1. Bound([r EXCEPT !.pc = "aFail"])
      BY <2>1 DEF Sound, Request, Bound
    <3>2. RequestsOK'
      BY <2>3, <3>1, GotoSound DEF Label
    <3>3. row' \in [Account -> Row]
      BY <2>1, <2>3, StoreInvalidSound DEF StateOK
    <3> QED
      BY <2>2, <2>3, <3>2, <3>3, SplitTypePrime DEF StateOK, AuthTypeOK, StoreTypeOK
  <2>4. CASE /\ Mint(a) /\ UNCHANGED row
             /\ Become(p, [r EXCEPT !.pc = "aStore", !.mint = NextSession(a)])
    <3>1. AuthTypeOK' /\ NextSession(a) \in Session
      BY <2>1, <2>4, MintSound DEF StateOK
    <3>2. Sound([r EXCEPT !.pc = "aStore", !.mint = NextSession(a)])
      BY <2>1, <3>1, NoneAssumption DEF Sound, Request, Bound, Label, MaybeSession
    <3>3. RequestsOK'
      BY <2>4, <3>2, BecomeSound
    <3> QED
      BY <2>2, <2>4, <3>1, <3>3, SplitTypePrime DEF StateOK, StoreTypeOK
  <2>5. CASE Finish(p) /\ UNCHANGED <<live, minted, row>>
    BY <2>2, <2>5, FinishSound, StateUnchanged, SplitTypePrime
  <2> QED
    BY <1>2, <2>3, <2>4, <2>5 DEF AcquireRefresh
<1>3. ASSUME AcquireStore(p) PROVE TypeOK'
  <2>1. r.pc = "aStore" /\ a \in Account /\ r.mint \in Session
    BY <1>3, SoundFields DEF AcquireStore, At, Sound, Bound, MaybeSession
  <2>2. Bound([r EXCEPT !.pc = "aResolve"]) /\ Bound([r EXCEPT !.pc = "aFail"])
    BY <2>1 DEF Sound, Request, Bound
  <2>3. RequestsOK'
    BY <1>3, <2>2, GotoSound DEF AcquireStore, Label
  <2>4. row' \in [Account -> Row]
    BY <1>3, <2>1, StoreTokenSound DEF AcquireStore, StateOK
  <2> QED
    BY <1>3, <2>3, <2>4, SplitTypePrime DEF AcquireStore, StateOK, AuthTypeOK, StoreTypeOK
<1>4. ASSUME AcquireFail(p) PROVE TypeOK'
  <2>1. r.pc = "aFail" /\ a \in Account /\ r.user # None
    BY <1>4, SoundFields DEF AcquireFail, At, Sound, Bound
  <2>2. RequestsOK'
    BY <1>4, <2>1, NextSound DEF AcquireFail
  <2>3. pool' \in [Account -> Member]
    <3> DEFINE fails == pool[a].fails + 1
               capped == IF fails > Threshold THEN Threshold ELSE fails
    <3>1. capped \in 0..Threshold
      BY <2>1, ServiceAssumption DEF StateOK, Member
    <3>2. pool' = pool \/ pool' = [pool EXCEPT ![a].fails = capped,
                                               ![a].open = @ \/ fails >= Threshold]
      BY <1>4 DEF AcquireFail
    <3> HIDE DEF capped, fails
    <3> QED
      BY <2>1, <3>1, <3>2 DEF StateOK, Member
  <2> QED
    BY <1>4, <2>2, <2>3, SplitTypePrime DEF AcquireFail, StateOK, AuthTypeOK, StoreTypeOK
<1>5. ASSUME AcquireResolve(p) PROVE TypeOK'
  <2>1. r.pc = "aResolve" /\ a \in Account /\ r.user # None
    BY <1>5, SoundFields DEF AcquireResolve, At, Sound, Bound
  <2>2. ASSUME NEW s \in PickNewSession(LiveOf(a), r.before) \cup {None}
        PROVE  Sound([r EXCEPT !.pc = "aLease", !.sess = s, !.before = {}])
    <3>1. s \in MaybeSession
      BY PickSound DEF LiveOf, StateOK, AuthTypeOK, MaybeSession
    <3> QED
      BY <2>1, <3>1 DEF Sound, Request, Bound, Label
  <2>3. \/ NextCandidate(p, r)
        \/ \E s \in PickNewSession(LiveOf(a), r.before) \cup {None} :
              Become(p, [r EXCEPT !.pc = "aLease", !.sess = s, !.before = {}])
    BY <1>5 DEF AcquireResolve
  <2>4. RequestsOK'
    BY <2>1, <2>2, <2>3, NextSound, BecomeSound
  <2> QED
    BY <1>5, <2>4, StateUnchanged, SplitTypePrime DEF AcquireResolve
<1> QED
  BY <1>2, <1>3, <1>4, <1>5

LEMMA GrantTyped ==
  ASSUME TypeOK, NEW p \in Proc
  PROVE  /\ AcquireSetLease(p) => TypeOK'
         /\ AcquireSetMeta(p) => TypeOK'
         /\ AcquireDone(p) => TypeOK'
<1> DEFINE r == req[p]
<1>1. StateOK /\ RequestsOK /\ Sound(r)
  BY SplitType DEF RequestsOK
<1> USE <1>1
<1>2. ASSUME r.pc \in {"aLease", "aMeta", "aDone"}
      PROVE  r.acct \in Account /\ r.user \in User /\ r.mint \in Session /\ r.sess \in MaybeSession
  BY <1>2, SoundFields DEF Sound, Bound, MaybeSession
<1>3. ASSUME AcquireSetLease(p) PROVE TypeOK'
  <2>1. r.pc = "aLease"
    BY <1>3 DEF AcquireSetLease, At
  <2>2. Stamp(r.user, r.acct, r.sess) \in Lease
    BY <2>1, <1>2, StampSound DEF StateOK
  <2>3. Bound([r EXCEPT !.pc = "aMeta"])
    BY <2>1 DEF Sound, Request, Bound
  <2>4. RequestsOK'
    BY <1>3, <2>3, GotoSound, FinishSound DEF AcquireSetLease, Label
  <2>5. StoreTypeOK'
    BY <1>2, <1>3, <2>1, <2>2, StoreWritesSound DEF AcquireSetLease, StateOK, StoreTypeOK
  <2> QED
    BY <1>3, <2>4, <2>5, SplitTypePrime DEF AcquireSetLease, StateOK, AuthTypeOK
<1>4. ASSUME AcquireSetMeta(p) PROVE TypeOK'
  <2>1. r.pc = "aMeta"
    BY <1>4 DEF AcquireSetMeta, At
  <2>2. [acct |-> r.acct, sess |-> r.sess] \in RevokeMeta
    BY <2>1, <1>2 DEF RevokeMeta
  <2>3. Bound([r EXCEPT !.pc = "aDone"])
    BY <2>1 DEF Sound, Request, Bound
  <2>4. RequestsOK'
    BY <1>4, <2>3, GotoSound DEF AcquireSetMeta, Label
  <2>5. StoreTypeOK'
    BY <1>2, <1>4, <2>1, <2>2, StoreWritesSound DEF AcquireSetMeta, StateOK
  <2> QED
    BY <1>4, <2>4, <2>5, SplitTypePrime DEF AcquireSetMeta, StateOK, AuthTypeOK
<1>5. ASSUME AcquireDone(p) PROVE TypeOK'
  <2>1. r.acct \in Account /\ r.user \in User /\ r.mint \in Session
    BY <1>5, <1>2 DEF AcquireDone, At
  <2>2. pool' \in [Account -> Member] /\ granted' \in [User -> SUBSET Session]
    <3>1. pool' \in [Account -> Member]
      BY <1>5, <2>1, ServiceAssumption DEF AcquireDone, StateOK, Member
    <3>2. granted' \in [User -> SUBSET Session]
      BY <1>5, <2>1 DEF AcquireDone, StateOK
    <3> QED
      BY <3>1, <3>2
  <2> QED
    BY <1>5, <2>2, FinishSound, SplitTypePrime
    DEF AcquireDone, StateOK, AuthTypeOK, StoreTypeOK
<1> QED
  BY <1>3, <1>4, <1>5

LEMMA RenewTyped ==
  ASSUME TypeOK, NEW p \in Proc
  PROVE  /\ (\E u \in User : StartRenew(p, u)) => TypeOK'
         /\ RenewRead(p) => TypeOK'
         /\ RenewMeta(p) => TypeOK'
         /\ RenewCheck(p) => TypeOK'
         /\ RenewSetLease(p) => TypeOK'
         /\ RenewSetMeta(p) => TypeOK'
<1> DEFINE r == req[p]
<1>1. StateOK /\ RequestsOK /\ Sound(r)
  BY SplitType DEF RequestsOK
<1> USE <1>1
<1>2. ASSUME NEW u \in User, StartRenew(p, u) PROVE TypeOK'
  BY <1>2, StartSound, BecomeSound, StateUnchanged, SplitTypePrime DEF StartRenew
<1>3. ASSUME RenewRead(p) PROVE TypeOK'
  <2> DEFINE cur == lease[r.user]
             label == IF cur = None THEN "nMeta" ELSE "nCheck"
             next == [r EXCEPT !.pc = label, !.cur = cur]
  <2>1. r.user \in User
    BY <1>3, SoundFields DEF RenewRead, At, Sound, Bound
  <2>2. cur \in Lease \cup {None}
    BY <2>1 DEF StateOK, StoreTypeOK
  <2>3. Sound(next)
    BY <2>1, <2>2, NoneIsNoUser DEF Sound, Request, Bound, Label
  <2>4. Become(p, next)
    BY <1>3 DEF RenewRead
  <2> HIDE DEF next
  <2> QED
    BY <1>3, <2>3, <2>4, BecomeSound, StateUnchanged, SplitTypePrime DEF RenewRead
<1>4. ASSUME RenewMeta(p) PROVE TypeOK'
  <2>1. Bound([r EXCEPT !.pc = "lGet"])
    BY <1>4 DEF RenewMeta, At, Sound, Request, Bound
  <2>2. RequestsOK'
    BY <1>4, <2>1, GotoSound, FinishSound DEF RenewMeta, Label
  <2> QED
    BY <1>4, <2>2, StateUnchanged, SplitTypePrime DEF RenewMeta
<1>5. ASSUME RenewCheck(p) PROVE TypeOK'
  <2>1. Bound([r EXCEPT !.pc = "lGet"]) /\ Bound([r EXCEPT !.pc = "nLease"])
    BY <1>5 DEF RenewCheck, At, Sound, Request, Bound
  <2>2. Finish(p) \/ Goto(p, "lGet") \/ Goto(p, "nLease")
    BY <1>5 DEF RenewCheck
  <2>3. RequestsOK'
    BY <2>1, <2>2, GotoSound, FinishSound DEF Label
  <2> QED
    BY <1>5, <2>3, StateUnchanged, SplitTypePrime DEF RenewCheck
<1>6. ASSUME r.pc \in {"nLease", "nSetMeta"}
      PROVE  r.user \in User /\ r.cur.acct \in Account /\ r.cur.sess \in MaybeSession
  BY <1>6, SoundFields DEF Sound, Bound, Lease
<1>7. ASSUME RenewSetLease(p) PROVE TypeOK'
  <2>1. r.pc = "nLease"
    BY <1>7 DEF RenewSetLease, At
  <2>2. Stamp(r.user, r.cur.acct, r.cur.sess) \in Lease
    BY <2>1, <1>6, StampSound DEF StateOK
  <2>3. Bound([r EXCEPT !.pc = "nSetMeta"])
    BY <2>1 DEF Sound, Request, Bound
  <2>4. RequestsOK'
    BY <1>7, <2>3, GotoSound, FinishSound DEF RenewSetLease, Label
  <2>5. StoreTypeOK'
    BY <1>6, <1>7, <2>1, <2>2, StoreWritesSound DEF RenewSetLease, StateOK, StoreTypeOK
  <2> QED
    BY <1>7, <2>4, <2>5, SplitTypePrime DEF RenewSetLease, StateOK, AuthTypeOK
<1>8. ASSUME RenewSetMeta(p) PROVE TypeOK'
  <2>1. r.pc = "nSetMeta"
    BY <1>8 DEF RenewSetMeta, At
  <2>2. [acct |-> r.cur.acct, sess |-> r.cur.sess] \in RevokeMeta
    BY <2>1, <1>6 DEF RevokeMeta
  <2>3. RequestsOK'
    BY <1>6, <1>8, <2>1, StartSound, BecomeSound DEF RenewSetMeta
  <2>4. StoreTypeOK'
    BY <1>6, <1>8, <2>1, <2>2, StoreWritesSound DEF RenewSetMeta, StateOK
  <2> QED
    BY <1>8, <2>3, <2>4, SplitTypePrime DEF RenewSetMeta, StateOK, AuthTypeOK
<1> QED
  BY <1>2, <1>3, <1>4, <1>5, <1>7, <1>8

LEMMA StatusTyped ==
  ASSUME TypeOK, NEW p \in Proc
  PROVE  /\ (\E u \in User : StartStatus(p, u) \/ StartRotate(p, u)) => TypeOK'
         /\ StatusRead(p) => TypeOK'
         /\ StatusMeta(p) => TypeOK'
         /\ StatusCheck(p) => TypeOK'
<1> DEFINE r == req[p]
<1>1. StateOK /\ RequestsOK /\ Sound(r)
  BY SplitType DEF RequestsOK
<1> USE <1>1
<1>2. ASSUME NEW u \in User, StartStatus(p, u) PROVE TypeOK'
  BY <1>2, StartSound, BecomeSound, StateUnchanged, SplitTypePrime DEF StartStatus
<1>3. ASSUME NEW u \in User, StartRotate(p, u) PROVE TypeOK'
  <2> DEFINE next == [Idle EXCEPT !.pc = "sRead", !.ret = "aRead", !.user = u,
                                  !.force = TRUE]
  <2>1. next \in Request
    BY IdleSound DEF Sound, Request, Label, Continuation
  <2>2. Bound(next)
    BY NoneIsNoUser DEF Idle, Bound
  <2> QED
    BY <1>3, <2>1, <2>2, BecomeSound, StateUnchanged, SplitTypePrime DEF StartRotate, Sound
<1>4. ASSUME StatusRead(p) PROVE TypeOK'
  <2> DEFINE cur == lease[r.user]
             label == IF cur = None THEN "sMeta" ELSE "sCheck"
             next == [r EXCEPT !.pc = label, !.cur = cur]
  <2>1. r.user \in User
    BY <1>4, SoundFields DEF StatusRead, At, Sound, Bound
  <2>2. cur \in Lease \cup {None}
    BY <2>1 DEF StateOK, StoreTypeOK
  <2>3. Sound(next)
    BY <2>1, <2>2, NoneIsNoUser DEF Sound, Request, Bound, Label
  <2>4. Become(p, next)
    BY <1>4 DEF StatusRead
  <2> HIDE DEF next
  <2> QED
    BY <1>4, <2>3, <2>4, BecomeSound, StateUnchanged, SplitTypePrime DEF StatusRead
<1>5. ASSUME StatusMeta(p) PROVE TypeOK'
  <2>1. r.user # None /\ Bound([r EXCEPT !.pc = "lGet"])
    BY <1>5 DEF StatusMeta, At, Sound, Request, Bound
  <2>2. RequestsOK'
    BY <1>5, <2>1, GotoSound, ResumeSound DEF StatusMeta, Label
  <2> QED
    BY <1>5, <2>2, StateUnchanged, SplitTypePrime DEF StatusMeta
<1>6. ASSUME StatusCheck(p) PROVE TypeOK'
  <2> DEFINE next == [r EXCEPT !.exclude = @ \cup {r.cur.acct}]
  <2>1. r.pc = "sCheck" /\ r.user # None /\ r.cur.acct \in Account
    BY <1>6, SoundFields DEF StatusCheck, At, Sound, Bound, Lease
  <2>2. Bound([r EXCEPT !.pc = "lGet"])
    BY <2>1 DEF Sound, Request, Bound
  <2>3. Sound(next) /\ next.user # None
    BY <2>1 DEF Sound, Request, Bound
  <2>4. Finish(p) \/ Goto(p, "lGet") \/ Resume(p, next)
    BY <1>6 DEF StatusCheck
  <2> HIDE DEF next
  <2>5. RequestsOK'
    BY <2>2, <2>3, <2>4, GotoSound, FinishSound, ResumeSound DEF Label
  <2> QED
    BY <1>6, <2>5, StateUnchanged, SplitTypePrime DEF StatusCheck
<1> QED
  BY <1>2, <1>3, <1>4, <1>5, <1>6

LEMMA ReleaseTyped ==
  ASSUME TypeOK, NEW p \in Proc
  PROVE  /\ (\E u \in User : StartRelease(p, u)) => TypeOK'
         /\ ReleaseGet(p) => TypeOK'
         /\ ReleaseDel(p) => TypeOK'
         /\ ReleaseMeta(p) => TypeOK'
         /\ ReleasePop(p) => TypeOK'
         /\ ReleaseCount(p) => TypeOK'
<1> DEFINE r == req[p]
<1>1. StateOK /\ RequestsOK /\ Sound(r)
  BY SplitType DEF RequestsOK
<1> USE <1>1
<1>2. ASSUME r.pc \in {"lGet", "lDel", "lMeta", "lPop", "lCount"}
      PROVE  r.user \in User /\ r.user # None
  BY <1>2, SoundFields DEF Sound, Bound
<1>3. ASSUME NEW u \in User, StartRelease(p, u) PROVE TypeOK'
  BY <1>3, StartSound, BecomeSound, StateUnchanged, SplitTypePrime DEF StartRelease
<1>4. ASSUME ReleaseGet(p) PROVE TypeOK'
  <2>1. r.pc = "lGet" /\ r.user \in User
    BY <1>2, <1>4 DEF ReleaseGet, At
  <2>2. lease[r.user] \in Lease \cup {None}
    BY <2>1 DEF StateOK, StoreTypeOK
  <2>3. Sound([r EXCEPT !.pc = "lDel", !.cur = lease[r.user]])
    BY <2>1, <2>2, NoneIsNoUser DEF Sound, Request, Bound, Label
  <2> QED
    BY <1>4, <2>3, BecomeSound, StateUnchanged, SplitTypePrime DEF ReleaseGet
<1>5. ASSUME ReleaseDel(p) PROVE TypeOK'
  <2>1. r.pc = "lDel" /\ r.user \in User
    BY <1>2, <1>5 DEF ReleaseDel, At
  <2>2. Bound([r EXCEPT !.pc = "lMeta"])
    BY <2>1 DEF Sound, Request, Bound
  <2>3. RequestsOK'
    BY <1>5, <2>2, GotoSound DEF ReleaseDel, Label
  <2>4. StoreTypeOK'
    BY <1>5, <2>1, StoreWritesSound DEF ReleaseDel, StateOK
  <2> QED
    BY <1>5, <2>3, <2>4, SplitTypePrime DEF ReleaseDel, StateOK, AuthTypeOK
<1>6. ASSUME ReleaseMeta(p) PROVE TypeOK'
  <2> DEFINE next(m, label) == [r EXCEPT !.pc = label, !.acct = m.acct, !.sess = m.sess]
  <2>1. r.pc = "lMeta" /\ r.user \in User /\ r.user # None
    BY <1>2, <1>6 DEF ReleaseMeta, At
  <2>2. ASSUME NEW m \in Lease \cup RevokeMeta, NEW label \in {"lPop", "lCount"}
        PROVE  Sound(next(m, label))
    <3>1. m.acct \in Account /\ m.sess \in MaybeSession
      BY DEF Lease, RevokeMeta
    <3> QED
      BY <2>1, <3>1, NoneAssumption DEF Sound, Request, Bound, Label
  <2>3. CASE r.cur # None /\ DelRevokeMeta(r.user) /\ Become(p, next(r.cur, "lCount"))
    <3>1. Sound(next(r.cur, "lCount"))
      BY <2>2, <2>3, SoundFields
    <3>2. RequestsOK'
      BY <2>3, <3>1, BecomeSound
    <3>3. StoreTypeOK'
      BY <2>1, <2>3, StoreWritesSound DEF StateOK
    <3> QED
      BY <1>6, <3>2, <3>3, SplitTypePrime DEF ReleaseMeta, StateOK, AuthTypeOK
  <2>4. CASE /\ meta[r.user] # None /\ Become(p, next(meta[r.user], "lPop"))
             /\ UNCHANGED <<lease, meta>>
    <3>1. Sound(next(meta[r.user], "lPop"))
      BY <2>1, <2>2, <2>4 DEF StateOK, StoreTypeOK
    <3>2. RequestsOK'
      BY <2>4, <3>1, BecomeSound
    <3> QED
      BY <1>6, <2>4, <3>2, StateUnchanged, SplitTypePrime DEF ReleaseMeta
  <2>5. CASE Resume(p, r) /\ UNCHANGED <<lease, meta>>
    BY <1>6, <2>1, <2>5, ResumeSound, StateUnchanged, SplitTypePrime DEF ReleaseMeta
  <2> QED
    BY <1>6, <2>3, <2>4, <2>5 DEF ReleaseMeta
<1>7. ASSUME ReleasePop(p) PROVE TypeOK'
  <2>1. r.pc = "lPop" /\ r.user \in User
    BY <1>2, <1>7 DEF ReleasePop, At
  <2>2. Bound([r EXCEPT !.pc = "lCount"])
    BY <2>1 DEF Sound, Request, Bound
  <2>3. RequestsOK'
    BY <1>7, <2>2, GotoSound DEF ReleasePop, Label
  <2>4. StoreTypeOK'
    BY <1>7, <2>1, StoreWritesSound DEF ReleasePop, StateOK
  <2> QED
    BY <1>7, <2>3, <2>4, SplitTypePrime DEF ReleasePop, StateOK, AuthTypeOK
<1>8. ASSUME ReleaseCount(p) PROVE TypeOK'
  <2>1. r.pc = "lCount"
    BY <1>8 DEF ReleaseCount, At
  <2>2. (Holders(r.acct) = {}) \in BOOLEAN
    OBVIOUS
  <2>3. Sound([r EXCEPT !.pc = "lRevoke", !.last = (Holders(r.acct) = {})])
    BY <2>1, <2>2 DEF Sound, Request, Bound, Label
  <2> QED
    BY <1>8, <2>3, BecomeSound, StateUnchanged, SplitTypePrime DEF ReleaseCount
<1> QED
  BY <1>3, <1>4, <1>5, <1>6, <1>7, <1>8

LEMMA RevokeTyped ==
  ASSUME TypeOK, NEW p \in Proc
  PROVE  /\ ReleaseRevoke(p) => TypeOK'
         /\ ReleaseRotate(p) => TypeOK'
         /\ ReleaseStore(p) => TypeOK'
<1> DEFINE r == req[p]
           a == req[p].acct
<1>1. StateOK /\ RequestsOK /\ Sound(r)
  BY SplitType DEF RequestsOK
<1> USE <1>1
<1>2. ASSUME r.pc \in {"lRevoke", "lRotate", "lStore"}
      PROVE  a \in Account /\ r.user # None
  BY <1>2, SoundFields DEF Sound, Bound
<1>3. ASSUME ReleaseRevoke(p) PROVE TypeOK'
  <2>1. r.pc = "lRevoke" /\ r.user # None
    BY <1>2, <1>3 DEF ReleaseRevoke, At
  <2>2. Bound([r EXCEPT !.pc = "lRotate"])
    BY <2>1 DEF Sound, Request, Bound
  <2>3. Goto(p, "lRotate") \/ Resume(p, r) \/ Finish(p)
    BY <1>3 DEF ReleaseRevoke
  <2>4. RequestsOK'
    BY <2>1, <2>2, <2>3, GotoSound, ResumeSound, FinishSound DEF Label
  <2>5. Revoke(r.sess) \/ UNCHANGED <<live, minted>>
    BY <1>3 DEF ReleaseRevoke
  <2>6. AuthTypeOK'
    BY <2>5, RevokeSound DEF StateOK, AuthTypeOK
  <2> QED
    BY <1>3, <2>4, <2>6, SplitTypePrime DEF ReleaseRevoke, StateOK, StoreTypeOK
<1>4. ASSUME ReleaseRotate(p) PROVE TypeOK'
  <2>1. r.pc = "lRotate" /\ a \in Account /\ r.user # None
    BY <1>2, <1>4 DEF ReleaseRotate, At
  <2>2. UNCHANGED <<lease, meta, pool, granted>>
    BY <1>4 DEF ReleaseRotate
  <2>3. CASE /\ Mint(a) /\ UNCHANGED row
             /\ Become(p, [r EXCEPT !.pc = "lStore", !.mint = NextSession(a)])
    <3>1. AuthTypeOK' /\ NextSession(a) \in Session
      BY <2>1, <2>3, MintSound DEF StateOK
    <3>2. Sound([r EXCEPT !.pc = "lStore", !.mint = NextSession(a)])
      BY <2>1, <3>1, NoneAssumption DEF Sound, Request, Bound, Label, MaybeSession
    <3>3. RequestsOK'
      BY <2>3, <3>2, BecomeSound
    <3> QED
      BY <2>2, <2>3, <3>1, <3>3, SplitTypePrime DEF StateOK, StoreTypeOK
  <2>4. CASE Resume(p, r) /\ UNCHANGED <<live, minted>> /\ (StoreInvalid(a) \/ UNCHANGED row)
    <3>1. RequestsOK'
      BY <2>1, <2>4, ResumeSound
    <3>2. row' \in [Account -> Row]
      BY <2>1, <2>4, StoreInvalidSound DEF StateOK
    <3> QED
      BY <2>2, <2>4, <3>1, <3>2, SplitTypePrime DEF StateOK, AuthTypeOK, StoreTypeOK
  <2> QED
    BY <1>4, <2>3, <2>4 DEF ReleaseRotate
<1>5. ASSUME ReleaseStore(p) PROVE TypeOK'
  <2>1. a \in Account /\ r.user # None /\ r.mint \in Session
    BY <1>5, SoundFields DEF ReleaseStore, At, Sound, Bound, MaybeSession
  <2>2. RequestsOK'
    BY <1>5, <2>1, ResumeSound DEF ReleaseStore
  <2>3. row' \in [Account -> Row]
    BY <1>5, <2>1, StoreTokenSound DEF ReleaseStore, StateOK
  <2> QED
    BY <1>5, <2>2, <2>3, SplitTypePrime DEF ReleaseStore, StateOK, AuthTypeOK, StoreTypeOK
<1> QED
  BY <1>3, <1>4, <1>5

\* A loop over users: it ends, or goes on with a user it takes off the list.
LEMMA SweepTyped ==
  ASSUME TypeOK, NEW p \in Proc
  PROVE  /\ StartSweep(p) => TypeOK'
         /\ SweepLease(p) => TypeOK'
         /\ SweepCheck(p) => TypeOK'
         /\ SweepOrphan(p) => TypeOK'
<1> DEFINE r == req[p]
<1>1. StateOK /\ RequestsOK /\ Sound(r)
  BY SplitType DEF RequestsOK
<1> USE <1>1
<1>2. ASSUME NEW l \in {"wLease", "wOrphan"}, NEW todo \in SUBSET User
      PROVE  Sound([Idle EXCEPT !.pc = l, !.ret = l, !.todo = todo])
  <2>1. [Idle EXCEPT !.pc = l, !.ret = l, !.todo = todo] \in Request
    BY IdleSound DEF Sound, Request, Label, Continuation
  <2>2. Bound([Idle EXCEPT !.pc = l, !.ret = l, !.todo = todo])
    BY DEF Idle, Bound
  <2> QED
    BY <2>1, <2>2 DEF Sound
<1>3. ASSUME StartSweep(p) PROVE TypeOK'
  BY <1>2, <1>3, BecomeSound, StateUnchanged, SplitTypePrime DEF StartSweep, LeaseUsers
<1>4. ASSUME SweepLease(p) PROVE TypeOK'
  <2> DEFINE orphans == [Idle EXCEPT !.pc = "wOrphan", !.ret = "wOrphan",
                                     !.todo = OrphanUsers]
             skip(u) == [r EXCEPT !.todo = @ \ {u}]
             visit(u) == [r EXCEPT !.pc = "wCheck", !.todo = @ \ {u}, !.user = u,
                                   !.cur = lease[u]]
  <2>1. r.pc = "wLease"
    BY <1>4 DEF SweepLease, At
  <2>2. \/ Become(p, orphans)
        \/ \E u \in r.todo : Become(p, skip(u))
        \/ \E u \in r.todo : lease[u] # None /\ Become(p, visit(u))
    BY <1>4 DEF SweepLease
  <2>3. Sound(orphans)
    BY <1>2 DEF OrphanUsers
  <2>4. ASSUME NEW u \in r.todo PROVE Sound(skip(u))
    BY <2>1 DEF Sound, Request, Bound
  <2>5. ASSUME NEW u \in r.todo, lease[u] # None PROVE Sound(visit(u))
    <3>1. u \in User /\ lease[u] \in Lease
      BY <2>5, SoundFields DEF StateOK, StoreTypeOK
    <3> QED
      BY <2>1, <2>5, <3>1, NoneIsNoUser DEF Sound, Request, Bound, Label
  <2> HIDE DEF orphans, skip, visit
  <2>6. RequestsOK'
    BY <2>2, <2>3, <2>4, <2>5, BecomeSound
  <2> QED
    BY <1>4, <2>6, StateUnchanged, SplitTypePrime DEF SweepLease
<1>5. ASSUME SweepCheck(p) PROVE TypeOK'
  <2>1. r.user # None /\ Bound([r EXCEPT !.pc = "lGet"])
    BY <1>5 DEF SweepCheck, At, Sound, Request, Bound
  <2>2. Finish(p) \/ Goto(p, "lGet") \/ Resume(p, r)
    BY <1>5 DEF SweepCheck
  <2>3. RequestsOK'
    BY <2>1, <2>2, GotoSound, FinishSound, ResumeSound DEF Label
  <2> QED
    BY <1>5, <2>3, StateUnchanged, SplitTypePrime DEF SweepCheck
<1>6. ASSUME SweepOrphan(p) PROVE TypeOK'
  <2> DEFINE visit(u) == [r EXCEPT !.pc = "lGet", !.user = u, !.todo = @ \ {u}]
  <2>1. Finish(p) \/ \E u \in r.todo : Become(p, visit(u))
    BY <1>6 DEF SweepOrphan
  <2>2. ASSUME NEW u \in r.todo PROVE Sound(visit(u))
    <3>1. u \in User
      BY SoundFields
    <3> QED
      BY <1>6, <3>1, NoneIsNoUser DEF SweepOrphan, At, Sound, Request, Bound, Label
  <2> HIDE DEF visit
  <2>3. RequestsOK'
    BY <2>1, <2>2, FinishSound, BecomeSound
  <2> QED
    BY <1>6, <2>3, StateUnchanged, SplitTypePrime DEF SweepOrphan
<1> QED
  BY <1>3, <1>4, <1>5, <1>6

LEMMA RemoveTyped ==
  ASSUME TypeOK, NEW p \in Proc
  PROVE  /\ (\E a \in Account : StartRemove(p, a)) => TypeOK'
         /\ RemoveList(p) => TypeOK'
         /\ RemoveNext(p) => TypeOK'
<1> DEFINE r == req[p]
<1>1. StateOK /\ RequestsOK /\ Sound(r)
  BY SplitType DEF RequestsOK
<1> USE <1>1
<1>2. ASSUME NEW a \in Account, StartRemove(p, a) PROVE TypeOK'
  <2> DEFINE next == [Idle EXCEPT !.pc = "xList", !.acct = a]
  <2>1. next \in Request
    BY IdleSound DEF Sound, Request, Label
  <2>2. Bound(next)
    BY NoneAssumption DEF Idle, Bound
  <2>3. RequestsOK'
    BY <1>2, <2>1, <2>2, BecomeSound DEF StartRemove, Sound
  <2>4. pool' \in [Account -> Member]
    BY <1>2 DEF StartRemove, StateOK, Member
  <2> QED
    BY <1>2, <2>3, <2>4, SplitTypePrime DEF StartRemove, StateOK, AuthTypeOK, StoreTypeOK
<1>3. ASSUME RemoveList(p) PROVE TypeOK'
  <2> DEFINE next == [Idle EXCEPT !.pc = "xNext", !.ret = "xNext", !.todo = Holders(r.acct)]
  <2>1. Holders(r.acct) \subseteq User
    BY DEF Holders
  <2>2. next \in Request
    BY <2>1, IdleSound DEF Sound, Request, Label, Continuation
  <2>3. Bound(next)
    BY DEF Idle, Bound
  <2> QED
    BY <1>3, <2>2, <2>3, BecomeSound, StateUnchanged, SplitTypePrime DEF RemoveList, Sound
<1>4. ASSUME RemoveNext(p) PROVE TypeOK'
  <2> DEFINE visit(u) == [r EXCEPT !.pc = "lGet", !.user = u, !.todo = @ \ {u}]
  <2>1. Finish(p) \/ \E u \in r.todo : Become(p, visit(u))
    BY <1>4 DEF RemoveNext
  <2>2. ASSUME NEW u \in r.todo PROVE Sound(visit(u))
    <3>1. u \in User
      BY SoundFields
    <3> QED
      BY <1>4, <3>1, NoneIsNoUser DEF RemoveNext, At, Sound, Request, Bound, Label
  <2> HIDE DEF visit
  <2>3. RequestsOK'
    BY <2>1, <2>2, FinishSound, BecomeSound
  <2> QED
    BY <1>4, <2>3, StateUnchanged, SplitTypePrime DEF RemoveNext
<1> QED
  BY <1>2, <1>3, <1>4

LEMMA EnvironmentTyped ==
  ASSUME TypeOK, Environment
  PROVE  TypeOK'
<1>1. StateOK /\ RequestsOK
  BY SplitType
<1> USE <1>1
<1>2. ASSUME NEW p \in Proc, Crash(p) PROVE TypeOK'
  BY <1>2, FinishSound, StateUnchanged, SplitTypePrime DEF Crash
<1>3. ASSUME UNCHANGED req, StateOK' PROVE TypeOK'
  BY <1>3, SplitTypePrime DEF RequestsOK
<1>4. ASSUME NEW u \in User, Expire(u) \/ ExpireMeta(u) PROVE TypeOK'
  <2>1. StoreTypeOK'
    BY <1>4, StoreWritesSound DEF Expire, ExpireMeta, StateOK
  <2> QED
    BY <1>3, <1>4, <2>1 DEF Expire, ExpireMeta, StateOK, AuthTypeOK
<1>5. ASSUME NEW a \in Account, SyncToken(a) PROVE TypeOK'
  <2>1. AuthTypeOK' /\ NextSession(a) \in Session
    BY <1>5, MintSound DEF SyncToken, StateOK
  <2>2. row' \in [Account -> Row]
    BY <1>5, <2>1, StoreTokenSound DEF SyncToken, StateOK
  <2> QED
    BY <1>3, <1>5, <2>1, <2>2 DEF SyncToken, StateOK, StoreTypeOK
<1>6. ASSUME NEW a \in Account, EndCycle(a) \/ RefreshCycle(a) \/ Unbind(a) \/ Rebind(a)
      PROVE  TypeOK'
  <2>1. row' \in [Account -> Row]
    <3>1. CASE EndCycle(a)
      BY <3>1 DEF EndCycle, StateOK, Row
    <3>2. CASE RefreshCycle(a)
      <4>1. row[a].cycle + 1 \in 0..MaxCycle
        BY <3>2, ServiceAssumption DEF RefreshCycle, StateOK, Row
      <4> QED
        BY <3>2, <4>1 DEF RefreshCycle, StateOK, Row
    <3>3. CASE Unbind(a)
      BY <3>3 DEF Unbind, StateOK, Row
    <3>4. CASE Rebind(a)
      BY <3>4 DEF Rebind, StateOK, Row
    <3> QED
      BY <1>6, <3>1, <3>2, <3>3, <3>4
  <2> QED
    BY <1>3, <1>6, <2>1
    DEF EndCycle, RefreshCycle, Unbind, Rebind, StateOK, AuthTypeOK, StoreTypeOK
<1>7. ASSUME NEW a \in Account, SetEnabled(a) \/ AddMember(a) \/ CloseCircuit(a)
      PROVE  TypeOK'
  <2>1. pool' \in [Account -> Member]
    <3>1. CASE SetEnabled(a)
      BY <3>1 DEF SetEnabled, StateOK, Member
    <3>2. CASE AddMember(a)
      <4>1. 0 \in 0..Threshold
        BY ServiceAssumption
      <4> QED
        BY <3>2, <4>1 DEF AddMember, StateOK, Member
    <3>3. CASE CloseCircuit(a)
      BY <3>3 DEF CloseCircuit, StateOK, Member
    <3> QED
      BY <1>7, <3>1, <3>2, <3>3
  <2> QED
    BY <1>3, <1>7, <2>1
    DEF SetEnabled, AddMember, CloseCircuit, StateOK, AuthTypeOK, StoreTypeOK
<1> QED
  BY <1>2, <1>4, <1>5, <1>6, <1>7 DEF Environment

-----------------------------------------------------------------------------
LEMMA InitTyped == Init => TypeOK
<1> SUFFICES ASSUME Init PROVE TypeOK
  OBVIOUS
<1>1. \A a \in Account : [acct |-> a, n |-> 1] \in Session
  BY MaxSessionAssumption DEF Session
<1>2. AuthTypeOK
  BY <1>1, MaxSessionAssumption DEF Init, AuthInit, AuthTypeOK
<1>3. StoreTypeOK
  BY DEF Init, StoreInit, StoreTypeOK
<1>4. row \in [Account -> Row] /\ pool \in [Account -> Member]
  BY <1>1, ServiceAssumption DEF Init, Row, Member
<1>5. RequestsOK
  BY IdleSound DEF Init, RequestsOK, Sound
<1> QED
  BY <1>2, <1>3, <1>4, <1>5, SplitType DEF Init, StateOK

LEMMA StepTyped == TypeOK /\ [Next]_vars => TypeOK'
<1> SUFFICES ASSUME TypeOK, [Next]_vars PROVE TypeOK'
  OBVIOUS
<1>1. CASE UNCHANGED vars
  BY <1>1, SplitType, StateUnchanged, SplitTypePrime DEF vars, RequestsOK
<1>2. CASE Environment
  BY <1>2, EnvironmentTyped
<1>3. ASSUME NEW p \in Proc, Start(p) PROVE TypeOK'
  BY <1>3, AcquireTyped, RenewTyped, StatusTyped, ReleaseTyped, SweepTyped, RemoveTyped
  DEF Start
<1>4. ASSUME NEW p \in Proc, Continue(p) PROVE TypeOK'
  BY <1>4, AcquireTyped, IssueTyped, GrantTyped, RenewTyped, StatusTyped,
     ReleaseTyped, RevokeTyped, SweepTyped, RemoveTyped
  DEF Continue
<1> QED
  BY <1>1, <1>2, <1>3, <1>4 DEF Next

\* Every variable keeps its type, and no handler goes on at a label with a
\* local variable that label uses still unassigned.
THEOREM TypeCorrect == Spec => []TypeOK
  BY InitTyped, StepTyped, PTL DEF Spec

-----------------------------------------------------------------------------
\* A lease or revoke meta whose session is one of its account.
Own(x) == x # None /\ x.sess # None => x.sess.acct = x.acct

Kept(r) ==
    /\ r.sess # None => r.sess.acct = r.acct
    /\ Own(r.cur)
    /\ r.pc \in {"aRead", "aSelect"} => r.sess = None

StoreOwn == \A u \in User : Own(lease[u]) /\ Own(meta[u])
AllKept == \A p \in Proc : Kept(req[p])
SessionInv == StoreOwn /\ AllKept

-----------------------------------------------------------------------------
LEMMA SessionInvImplies == SessionInv => SessionOfItsAccount
  BY DEF SessionInv, StoreOwn, AllKept, Own, Kept, SessionOfItsAccount

LEMMA BecomeKept ==
  ASSUME TypeOK, AllKept, NEW p \in Proc, NEW r, Kept(r), Become(p, r)
  PROVE  AllKept'
  BY DEF TypeOK, ServiceTypeOK, AllKept, Become

LEMMA FinishKept ==
  ASSUME TypeOK, AllKept, NEW p \in Proc, Finish(p)
  PROVE  AllKept'
<1>1. Kept(Idle)
  BY DEF Kept, Idle, Own
<1> QED
  BY <1>1, BecomeKept DEF Finish

LEMMA GotoKept ==
  ASSUME TypeOK, AllKept, NEW p \in Proc, NEW l, l \notin {"aRead", "aSelect"}, Goto(p, l)
  PROVE  AllKept'
<1>1. Kept([req[p] EXCEPT !.pc = l])
  BY DEF TypeOK, ServiceTypeOK, Request, AllKept, Kept
<1> QED
  BY <1>1, BecomeKept DEF Goto

\* A return starts from a record without session and lease.
LEMMA ResumeKept ==
  ASSUME TypeOK, AllKept, NEW p \in Proc, NEW r, Resume(p, r)
  PROVE  AllKept'
<1> DEFINE next == IF r.ret = "idle" THEN Idle
                   ELSE [Idle EXCEPT !.pc = r.ret, !.ret = r.ret, !.todo = r.todo,
                                     !.user = IF r.ret = "aRead" THEN r.user ELSE None,
                                     !.force = r.force, !.exclude = r.exclude]
<1>1. next.sess = None /\ next.cur = None
  BY DEF Idle
<1>2. Become(p, next)
  BY DEF Resume
<1> HIDE DEF next
<1>3. Kept(next)
  BY <1>1 DEF Kept, Own
<1> QED
  BY <1>2, <1>3, BecomeKept

LEMMA NextKept ==
  ASSUME TypeOK, AllKept, NEW p \in Proc, NextCandidate(p, req[p])
  PROVE  AllKept'
<1> DEFINE r == req[p]
           next == [r EXCEPT !.pc = "aSelect", !.exclude = @ \cup {r.acct},
                             !.prefer = None, !.acct = None, !.over = FALSE,
                             !.before = {}, !.mint = None, !.sess = None]
<1>1. next.sess = None /\ next.cur = r.cur
  BY DEF TypeOK, ServiceTypeOK, Request
<1>2. Become(p, next)
  BY DEF NextCandidate
<1> HIDE DEF next
<1>3. Kept(next)
  BY <1>1 DEF AllKept, Kept
<1> QED
  BY <1>2, <1>3, BecomeKept

\* A handler that reads a lease, or changes no session, stays consistent.
LEMMA ChangeKept ==
  ASSUME TypeOK, AllKept, NEW p \in Proc, NEW r, Become(p, r),
         r.sess = req[p].sess, r.acct = req[p].acct, Own(r.cur),
         r.pc \in {"aRead", "aSelect"} => r.sess = None
  PROVE  AllKept'
<1>1. Kept(r)
  BY DEF AllKept, Kept
<1> QED
  BY <1>1, BecomeKept

LEMMA StartKept ==
  ASSUME TypeOK, AllKept, NEW p \in Proc, NEW r, Become(p, r),
         r.sess = None, r.cur = None
  PROVE  AllKept'
<1>1. Kept(r)
  BY DEF Kept, Own
<1> QED
  BY <1>1, BecomeKept

LEMMA StoreUnchanged ==
  ASSUME StoreOwn, UNCHANGED <<lease, meta>>
  PROVE  StoreOwn'
  BY DEF StoreOwn, Own

LEMMA StoreWritten ==
  ASSUME TypeOK, StoreOwn, NEW u \in User,
         \/ \E l : Own(l) /\ SetLeaseKey(u, l)
         \/ \E m : Own(m) /\ SetRevokeMeta(u, m)
         \/ DelLeaseKey(u)
         \/ DelRevokeMeta(u)
  PROVE  StoreOwn'
<1>1. Own(None)
  BY DEF Own
<1>2. lease \in [User -> Lease \cup {None}] /\ meta \in [User -> RevokeMeta \cup {None}]
  BY DEF TypeOK, StoreTypeOK
<1>3. ASSUME NEW v \in User PROVE Own(lease'[v]) /\ Own(meta'[v])
  <2>1. \/ lease' = [lease EXCEPT ![u] = None] /\ meta' = meta
        \/ lease' = lease /\ meta' = [meta EXCEPT ![u] = None]
        \/ \E l : Own(l) /\ lease' = [lease EXCEPT ![u] = l] /\ meta' = meta
        \/ \E m : Own(m) /\ lease' = lease /\ meta' = [meta EXCEPT ![u] = m]
    BY DEF SetLeaseKey, SetRevokeMeta, DelLeaseKey, DelRevokeMeta
  <2> QED
    BY <1>1, <1>2, <2>1 DEF StoreOwn
<1> QED
  BY <1>3 DEF StoreOwn, Own

\* What the type invariant says of a handler at work.
LEMMA Locals ==
  ASSUME TypeOK, NEW p \in Proc
  PROVE  /\ req[p] \in Request
         /\ req[p].pc \notin {"idle", "wLease", "wOrphan", "xList", "xNext"}
              => req[p].user \in User
         /\ req[p].pc \in {"nLease", "nSetMeta"} => req[p].cur # None
         /\ live \subseteq Session
<1>1. req[p] \in Request /\ Bound(req[p])
  BY DEF TypeOK, ServiceTypeOK
<1> QED
  BY <1>1 DEF TypeOK, AuthTypeOK, Request, Bound

-----------------------------------------------------------------------------
LEMMA AcquireKept ==
  ASSUME TypeOK, SessionInv, NEW p \in Proc
  PROVE  /\ AcquireRead(p) => SessionInv'
         /\ AcquireSelect(p) => SessionInv'
         /\ AcquireCount(p) \/ AcquireSnapshot(p) => SessionInv'
         /\ AcquireRefresh(p) => SessionInv'
         /\ AcquireStore(p) \/ AcquireFail(p) \/ AcquireDone(p) => SessionInv'
         /\ AcquireResolve(p) => SessionInv'
         /\ AcquireSetLease(p) \/ AcquireSetMeta(p) => SessionInv'
<1> DEFINE r == req[p]
<1>1. StoreOwn /\ AllKept /\ r \in Request /\ Kept(r)
  BY Locals DEF SessionInv, AllKept
<1> USE <1>1
<1>2. ASSUME AcquireRead(p) PROVE SessionInv'
  <2> DEFINE cur == lease[r.user]
             stay == ~r.force /\ cur # None /\ cur.acct \notin r.exclude
             prefer == IF stay THEN cur.acct ELSE None
             next == [r EXCEPT !.pc = "aSelect", !.cur = cur, !.prefer = prefer]
  <2>1. r.pc = "aRead" /\ Become(p, next) /\ UNCHANGED <<lease, meta>>
    BY <1>2 DEF AcquireRead, At
  <2>2. Own(cur) /\ r.sess = None
    BY <2>1, Locals DEF StoreOwn, Kept
  <2>3. next.sess = r.sess /\ next.acct = r.acct /\ next.cur = cur
    BY DEF Request
  <2> HIDE DEF next, cur
  <2> QED
    BY <2>1, <2>2, <2>3, ChangeKept, StoreUnchanged DEF SessionInv
<1>3. ASSUME AcquireSelect(p) PROVE SessionInv'
  <2>1. r.sess = None /\ UNCHANGED <<lease, meta>>
    BY <1>3 DEF AcquireSelect, At, Kept
  <2>2. ASSUME NEW a PROVE Kept([r EXCEPT !.pc = "aCount", !.acct = a])
    BY <2>1 DEF Kept, Request
  <2>3. Finish(p) \/ \E a : Become(p, [r EXCEPT !.pc = "aCount", !.acct = a])
    BY <1>3 DEF AcquireSelect
  <2> QED
    BY <2>1, <2>2, <2>3, FinishKept, BecomeKept, StoreUnchanged DEF SessionInv
<1>4. ASSUME AcquireCount(p) \/ AcquireSnapshot(p) PROVE SessionInv'
  <2>1. \/ Finish(p) \/ NextCandidate(p, r) \/ Goto(p, "aFail") \/ Goto(p, "aRefresh")
        \/ \E b : Become(p, [r EXCEPT !.pc = "aSnap", !.over = b])
        \/ \E b : Become(p, [r EXCEPT !.pc = "aRefresh", !.before = b])
    BY <1>4 DEF AcquireCount, AcquireSnapshot
  <2>2. ASSUME NEW b
        PROVE  /\ Kept([r EXCEPT !.pc = "aSnap", !.over = b])
               /\ Kept([r EXCEPT !.pc = "aRefresh", !.before = b])
    BY DEF Kept, Request
  <2>3. AllKept'
    BY <2>1, <2>2, FinishKept, NextKept, GotoKept, BecomeKept
  <2> QED
    BY <1>4, <2>3, StoreUnchanged DEF SessionInv, AcquireCount, AcquireSnapshot
<1>5. ASSUME AcquireRefresh(p) PROVE SessionInv'
  <2>1. \/ Finish(p) \/ Goto(p, "aFail")
        \/ \E s : Become(p, [r EXCEPT !.pc = "aStore", !.mint = s])
    BY <1>5 DEF AcquireRefresh
  <2>2. ASSUME NEW s PROVE Kept([r EXCEPT !.pc = "aStore", !.mint = s])
    BY DEF Kept, Request
  <2>3. AllKept'
    BY <2>1, <2>2, FinishKept, GotoKept, BecomeKept
  <2> QED
    BY <1>5, <2>3, StoreUnchanged DEF SessionInv, AcquireRefresh
<1>6. ASSUME AcquireStore(p) \/ AcquireFail(p) \/ AcquireDone(p) PROVE SessionInv'
  <2>1. Goto(p, "aResolve") \/ Goto(p, "aFail") \/ NextCandidate(p, r) \/ Finish(p)
    BY <1>6 DEF AcquireStore, AcquireFail, AcquireDone
  <2>2. AllKept'
    BY <2>1, FinishKept, NextKept, GotoKept
  <2> QED
    BY <1>6, <2>2, StoreUnchanged DEF SessionInv, AcquireStore, AcquireFail, AcquireDone
<1>7. ASSUME AcquireResolve(p) PROVE SessionInv'
  <2>1. \/ NextCandidate(p, r)
        \/ \E s \in PickNewSession(LiveOf(r.acct), r.before) \cup {None} :
              Become(p, [r EXCEPT !.pc = "aLease", !.sess = s, !.before = {}])
    BY <1>7 DEF AcquireResolve
  <2>2. ASSUME NEW s \in PickNewSession(LiveOf(r.acct), r.before) \cup {None}
        PROVE  Kept([r EXCEPT !.pc = "aLease", !.sess = s, !.before = {}])
    <3>1. LiveOf(r.acct) \in SUBSET Session
      BY Locals DEF LiveOf
    <3>2. s # None => s.acct = r.acct
      BY <3>1, PickSound DEF LiveOf
    <3> QED
      BY <3>2 DEF Kept, Request
  <2>3. AllKept'
    BY <2>1, <2>2, NextKept, BecomeKept
  <2> QED
    BY <1>7, <2>3, StoreUnchanged DEF SessionInv, AcquireResolve
<1>8. ASSUME AcquireSetLease(p) \/ AcquireSetMeta(p) PROVE SessionInv'
  <2>1. Finish(p) \/ Goto(p, "aMeta") \/ Goto(p, "aDone")
    BY <1>8 DEF AcquireSetLease, AcquireSetMeta
  <2>2. r.user \in User
    BY <1>8, Locals DEF AcquireSetLease, AcquireSetMeta, At
  <2>3. /\ Own(Stamp(r.user, r.acct, r.sess))
        /\ Own([acct |-> r.acct, sess |-> r.sess])
    BY DEF Own, Stamp, Kept
  <2>4. \/ UNCHANGED <<lease, meta>>
        \/ SetLeaseKey(r.user, Stamp(r.user, r.acct, r.sess))
        \/ SetRevokeMeta(r.user, [acct |-> r.acct, sess |-> r.sess])
    BY <1>8 DEF AcquireSetLease, AcquireSetMeta
  <2>5. StoreOwn'
    BY <2>2, <2>3, <2>4, StoreUnchanged, StoreWritten
  <2> QED
    BY <2>1, <2>5, FinishKept, GotoKept DEF SessionInv
<1> QED
  BY <1>2, <1>3, <1>4, <1>5, <1>6, <1>7, <1>8

LEMMA BeginKept ==
  ASSUME TypeOK, SessionInv, NEW p \in Proc, Start(p) \/ RemoveList(p)
  PROVE  SessionInv'
<1>1. UNCHANGED <<lease, meta>>
  BY DEF Start, StartAcquire, StartRotate, StartRenew, StartStatus, StartRelease,
     StartRemove, StartSweep, RemoveList
<1>2. \E r : r.sess = None /\ r.cur = None /\ Become(p, r)
  <2>1. ASSUME NEW l, NEW u
        PROVE  LET r == [Idle EXCEPT !.pc = l, !.user = u] IN r.sess = None /\ r.cur = None
    BY DEF Idle
  <2>2. ASSUME NEW u
        PROVE  LET r == [Idle EXCEPT !.pc = "sRead", !.ret = "aRead", !.user = u,
                                     !.force = TRUE]
               IN r.sess = None /\ r.cur = None
    BY DEF Idle
  <2>3. ASSUME NEW a
        PROVE  LET r == [Idle EXCEPT !.pc = "xList", !.acct = a]
               IN r.sess = None /\ r.cur = None
    BY DEF Idle
  <2>4. ASSUME NEW l, NEW s
        PROVE  LET r == [Idle EXCEPT !.pc = l, !.ret = l, !.todo = s]
               IN r.sess = None /\ r.cur = None
    BY DEF Idle
  <2> QED
    BY <2>1, <2>2, <2>3, <2>4
    DEF Start, StartAcquire, StartRotate, StartRenew, StartStatus, StartRelease,
        StartRemove, StartSweep, RemoveList
<1> QED
  BY <1>1, <1>2, StartKept, StoreUnchanged DEF SessionInv

LEMMA RenewKept ==
  ASSUME TypeOK, SessionInv, NEW p \in Proc
  PROVE  /\ RenewRead(p) \/ StatusRead(p) \/ ReleaseGet(p) => SessionInv'
         /\ RenewMeta(p) \/ RenewCheck(p) => SessionInv'
         /\ RenewSetLease(p) \/ RenewSetMeta(p) => SessionInv'
         /\ StatusMeta(p) \/ StatusCheck(p) => SessionInv'
<1> DEFINE r == req[p]
<1>1. StoreOwn /\ AllKept /\ r \in Request /\ Kept(r)
  BY Locals DEF SessionInv, AllKept
<1> USE <1>1
<1>2. ASSUME RenewRead(p) \/ StatusRead(p) \/ ReleaseGet(p) PROVE SessionInv'
  <2> DEFINE next(l) == [r EXCEPT !.pc = l, !.cur = lease[r.user]]
  <2>1. /\ UNCHANGED <<lease, meta>> /\ r.user \in User
        /\ \E l \in {"nMeta", "nCheck", "sMeta", "sCheck", "lDel"} : Become(p, next(l))
    BY <1>2, Locals DEF RenewRead, StatusRead, ReleaseGet, At
  <2>2. Own(lease[r.user])
    BY <2>1 DEF StoreOwn
  <2>3. ASSUME NEW l \in {"nMeta", "nCheck", "sMeta", "sCheck", "lDel"}
        PROVE  Kept(next(l))
    BY <2>2 DEF Kept, Request
  <2> HIDE DEF next
  <2> QED
    BY <2>1, <2>3, BecomeKept, StoreUnchanged DEF SessionInv
<1>3. ASSUME RenewMeta(p) \/ RenewCheck(p) PROVE SessionInv'
  <2>1. Finish(p) \/ Goto(p, "lGet") \/ Goto(p, "nLease")
    BY <1>3 DEF RenewMeta, RenewCheck
  <2>2. AllKept'
    BY <2>1, FinishKept, GotoKept
  <2> QED
    BY <1>3, <2>2, StoreUnchanged DEF SessionInv, RenewMeta, RenewCheck
<1>4. ASSUME RenewSetLease(p) \/ RenewSetMeta(p) PROVE SessionInv'
  <2>1. /\ r.user \in User /\ r.cur # None
    BY <1>4, Locals DEF RenewSetLease, RenewSetMeta, At
  <2>2. /\ Own(Stamp(r.user, r.cur.acct, r.cur.sess))
        /\ Own([acct |-> r.cur.acct, sess |-> r.cur.sess])
    BY <2>1 DEF Own, Stamp, Kept
  <2>3. \/ UNCHANGED <<lease, meta>>
        \/ SetLeaseKey(r.user, Stamp(r.user, r.cur.acct, r.cur.sess))
        \/ SetRevokeMeta(r.user, [acct |-> r.cur.acct, sess |-> r.cur.sess])
    BY <1>4 DEF RenewSetLease, RenewSetMeta
  <2>4. StoreOwn'
    BY <2>1, <2>2, <2>3, StoreUnchanged, StoreWritten
  <2>5. \/ Finish(p) \/ Goto(p, "nSetMeta")
        \/ Become(p, [Idle EXCEPT !.pc = "sRead", !.user = r.user])
    BY <1>4 DEF RenewSetLease, RenewSetMeta
  <2>6. /\ [Idle EXCEPT !.pc = "sRead", !.user = r.user].sess = None
        /\ [Idle EXCEPT !.pc = "sRead", !.user = r.user].cur = None
    BY DEF Idle
  <2> QED
    BY <2>4, <2>5, <2>6, FinishKept, GotoKept, StartKept DEF SessionInv
<1>5. ASSUME StatusMeta(p) \/ StatusCheck(p) PROVE SessionInv'
  <2>1. Finish(p) \/ Goto(p, "lGet") \/ \E s : Resume(p, s)
    BY <1>5 DEF StatusMeta, StatusCheck
  <2>2. AllKept'
    BY <2>1, FinishKept, GotoKept, ResumeKept
  <2> QED
    BY <1>5, <2>2, StoreUnchanged DEF SessionInv, StatusMeta, StatusCheck
<1> QED
  BY <1>2, <1>3, <1>4, <1>5

LEMMA ReleaseKept ==
  ASSUME TypeOK, SessionInv, NEW p \in Proc
  PROVE  /\ ReleaseDel(p) \/ ReleasePop(p) => SessionInv'
         /\ ReleaseMeta(p) => SessionInv'
         /\ ReleaseCount(p) \/ ReleaseRotate(p) => SessionInv'
         /\ ReleaseRevoke(p) \/ ReleaseStore(p) => SessionInv'
<1> DEFINE r == req[p]
<1>1. StoreOwn /\ AllKept /\ r \in Request /\ Kept(r)
  BY Locals DEF SessionInv, AllKept
<1> USE <1>1
<1>2. ASSUME ReleaseDel(p) \/ ReleasePop(p) PROVE SessionInv'
  <2>1. r.user \in User
    BY <1>2, Locals DEF ReleaseDel, ReleasePop, At
  <2>2. StoreOwn'
    BY <1>2, <2>1, StoreWritten DEF ReleaseDel, ReleasePop
  <2> QED
    BY <1>2, <2>2, GotoKept DEF SessionInv, ReleaseDel, ReleasePop
<1>3. ASSUME ReleaseMeta(p) PROVE SessionInv'
  <2> DEFINE next(m, label) == [r EXCEPT !.pc = label, !.acct = m.acct, !.sess = m.sess]
  <2>1. r.user \in User
    BY <1>3, Locals DEF ReleaseMeta, At
  <2>2. ASSUME NEW m, m # None, Own(m), NEW label \in {"lPop", "lCount"}
        PROVE  Kept(next(m, label))
    BY <2>2 DEF Own, Kept, Request
  <2>3. Own(r.cur) /\ Own(meta[r.user])
    BY <2>1 DEF StoreOwn, Kept
  <2>4. \/ r.cur # None /\ Become(p, next(r.cur, "lCount"))
        \/ meta[r.user] # None /\ Become(p, next(meta[r.user], "lPop"))
        \/ Resume(p, r)
    BY <1>3 DEF ReleaseMeta
  <2> HIDE DEF next
  <2>5. AllKept'
    BY <2>2, <2>3, <2>4, BecomeKept, ResumeKept
  <2>6. DelRevokeMeta(r.user) \/ UNCHANGED <<lease, meta>>
    BY <1>3 DEF ReleaseMeta
  <2> QED
    BY <2>1, <2>5, <2>6, StoreWritten, StoreUnchanged DEF SessionInv
<1>4. ASSUME ReleaseCount(p) \/ ReleaseRotate(p) PROVE SessionInv'
  <2>1. \/ \E b : Become(p, [r EXCEPT !.pc = "lRevoke", !.last = b])
        \/ \E s : Become(p, [r EXCEPT !.pc = "lStore", !.mint = s])
        \/ Resume(p, r)
    BY <1>4 DEF ReleaseCount, ReleaseRotate
  <2>2. ASSUME NEW x
        PROVE  /\ Kept([r EXCEPT !.pc = "lRevoke", !.last = x])
               /\ Kept([r EXCEPT !.pc = "lStore", !.mint = x])
    BY DEF Kept, Request
  <2>3. AllKept'
    BY <2>1, <2>2, BecomeKept, ResumeKept
  <2> QED
    BY <1>4, <2>3, StoreUnchanged DEF SessionInv, ReleaseCount, ReleaseRotate
<1>5. ASSUME ReleaseRevoke(p) \/ ReleaseStore(p) PROVE SessionInv'
  <2>1. Finish(p) \/ Goto(p, "lRotate") \/ Resume(p, r)
    BY <1>5 DEF ReleaseRevoke, ReleaseStore
  <2>2. AllKept'
    BY <2>1, FinishKept, GotoKept, ResumeKept
  <2> QED
    BY <1>5, <2>2, StoreUnchanged DEF SessionInv, ReleaseRevoke, ReleaseStore
<1> QED
  BY <1>2, <1>3, <1>4, <1>5

LEMMA LoopKept ==
  ASSUME TypeOK, SessionInv, NEW p \in Proc
  PROVE  /\ SweepLease(p) => SessionInv'
         /\ SweepCheck(p) => SessionInv'
         /\ SweepOrphan(p) \/ RemoveNext(p) => SessionInv'
<1> DEFINE r == req[p]
<1>1. StoreOwn /\ AllKept /\ r \in Request /\ Kept(r) /\ r.todo \subseteq User
  BY Locals DEF SessionInv, AllKept, Request
<1> USE <1>1
<1>2. ASSUME SweepLease(p) PROVE SessionInv'
  <2> DEFINE orphans == [Idle EXCEPT !.pc = "wOrphan", !.ret = "wOrphan",
                                     !.todo = OrphanUsers]
             skip(u) == [r EXCEPT !.todo = @ \ {u}]
             visit(u) == [r EXCEPT !.pc = "wCheck", !.todo = @ \ {u}, !.user = u,
                                   !.cur = lease[u]]
  <2>1. \/ Become(p, orphans)
        \/ \E u \in r.todo : Become(p, skip(u)) \/ Become(p, visit(u))
    BY <1>2 DEF SweepLease
  <2>2. orphans.sess = None /\ orphans.cur = None
    BY DEF Idle
  <2>3. ASSUME NEW u \in r.todo PROVE Kept(skip(u)) /\ Kept(visit(u))
    <3>1. Own(lease[u])
      BY DEF StoreOwn
    <3> QED
      BY <3>1 DEF Kept, Request
  <2> HIDE DEF orphans, skip, visit
  <2>4. AllKept'
    BY <2>1, <2>2, <2>3, StartKept, BecomeKept
  <2> QED
    BY <1>2, <2>4, StoreUnchanged DEF SessionInv, SweepLease
<1>3. ASSUME SweepCheck(p) PROVE SessionInv'
  <2>1. Finish(p) \/ Goto(p, "lGet") \/ Resume(p, r)
    BY <1>3 DEF SweepCheck
  <2>2. AllKept'
    BY <2>1, FinishKept, GotoKept, ResumeKept
  <2> QED
    BY <1>3, <2>2, StoreUnchanged DEF SessionInv, SweepCheck
<1>4. ASSUME SweepOrphan(p) \/ RemoveNext(p) PROVE SessionInv'
  <2> DEFINE visit(u) == [r EXCEPT !.pc = "lGet", !.user = u, !.todo = @ \ {u}]
  <2>1. Finish(p) \/ \E u \in r.todo : Become(p, visit(u))
    BY <1>4 DEF SweepOrphan, RemoveNext
  <2>2. ASSUME NEW u PROVE Kept(visit(u))
    BY DEF Kept, Request
  <2> HIDE DEF visit
  <2>3. AllKept'
    BY <2>1, <2>2, FinishKept, BecomeKept
  <2> QED
    BY <1>4, <2>3, StoreUnchanged DEF SessionInv, SweepOrphan, RemoveNext
<1> QED
  BY <1>2, <1>3, <1>4

LEMMA EnvironmentKept ==
  ASSUME TypeOK, SessionInv, Environment
  PROVE  SessionInv'
<1>1. ASSUME NEW u \in User, Expire(u) \/ ExpireMeta(u) PROVE SessionInv'
  <2>1. StoreOwn'
    BY <1>1, StoreWritten DEF Expire, ExpireMeta, SessionInv
  <2> QED
    BY <1>1, <2>1 DEF SessionInv, AllKept, Expire, ExpireMeta
<1>2. ASSUME NEW p \in Proc, Crash(p) PROVE SessionInv'
  BY <1>2, FinishKept, StoreUnchanged DEF Crash, SessionInv
<1>3. ASSUME UNCHANGED <<lease, meta, req>> PROVE SessionInv'
  BY <1>3, StoreUnchanged DEF SessionInv, AllKept
<1>4. ASSUME NEW a \in Account,
             \/ EndCycle(a) \/ RefreshCycle(a) \/ SyncToken(a) \/ Unbind(a)
             \/ SetEnabled(a) \/ AddMember(a) \/ CloseCircuit(a) \/ Rebind(a)
      PROVE  UNCHANGED <<lease, meta, req>>
  BY <1>4 DEF EndCycle, RefreshCycle, SyncToken, Unbind, SetEnabled, AddMember,
     CloseCircuit, Rebind
<1> QED
  BY <1>1, <1>2, <1>3, <1>4 DEF Environment

-----------------------------------------------------------------------------
LEMMA SessionInvInit == Init => SessionInv
<1>1. Own(None) /\ Kept(Idle)
  BY DEF Own, Kept, Idle
<1> QED
  BY <1>1 DEF Init, StoreInit, SessionInv, StoreOwn, AllKept

LEMMA SessionInvStep == TypeOK /\ SessionInv /\ [Next]_vars => SessionInv'
<1> SUFFICES ASSUME TypeOK, SessionInv, [Next]_vars PROVE SessionInv'
  OBVIOUS
<1>1. CASE UNCHANGED vars
  BY <1>1, StoreUnchanged DEF vars, SessionInv, AllKept
<1>2. CASE Environment
  BY <1>2, EnvironmentKept
<1>3. ASSUME NEW p \in Proc, Start(p) PROVE SessionInv'
  BY <1>3, BeginKept
<1>4. ASSUME NEW p \in Proc, Continue(p) PROVE SessionInv'
  BY <1>4, BeginKept, AcquireKept, RenewKept, ReleaseKept, LoopKept DEF Continue
<1> QED
  BY <1>1, <1>2, <1>3, <1>4 DEF Next

\* Whatever the handlers interleave, a session is only ever recorded, and sent
\* to be revoked, together with the account it belongs to.
THEOREM SessionsKeepTheirAccount == Spec => []SessionOfItsAccount
<1>1. Init => TypeOK /\ SessionInv
  BY InitTyped, SessionInvInit
<1>2. TypeOK /\ SessionInv /\ [Next]_vars => (TypeOK /\ SessionInv)'
  BY StepTyped, SessionInvStep
<1> QED
  BY <1>1, <1>2, SessionInvImplies, PTL DEF Spec

-----------------------------------------------------------------------------
(* Sessions while one handler runs at a time                               *)

\* One handler runs at a time.
Alone == \A p, q \in Proc : p = q

\* A lease or a revoke meta names session s.
Names(x, s) == x # None /\ x.sess = s

\* Handler r is to write s into a lease or a meta, or to have it revoked.
Carries(r, s) ==
    \/ r.pc \in {"aLease", "aMeta", "lPop", "lCount", "lRevoke"} /\ r.sess = s
    \/ r.pc \in {"nCheck", "nLease", "nSetMeta", "lDel", "lMeta"} /\ Names(r.cur, s)

\* Session s is recorded for renter u, in the store or by the handler at work.
Recorded(u, s) ==
    \/ Names(lease[u], s) \/ Names(meta[u], s)
    \/ \E p \in Proc : req[p].user = u /\ Carries(req[p], s)

\* A session is recorded for one renter at most, and given to no other.
OfOneRenter ==
    \A s \in Session, u, v \in User :
        Recorded(u, s) /\ (Recorded(v, s) \/ s \in granted[v]) => u = v

\* It has been opened.
Opened ==
    \A s \in Session, u \in User : Recorded(u, s) \/ s \in granted[u] => s.n <= minted[s.acct]

LeasesAlive == \A u \in User : lease[u] # None => lease[u].sess \in live \cup {None}

\* Session m is younger than all that are recorded or given.
Youngest(m) ==
    \A s \in Session, u \in User :
        (Recorded(u, s) \/ s \in granted[u]) /\ s.acct = m.acct => s.n < m.n

\* What a handler knows of the sessions it holds.  The session acquire has
\* opened is alive and younger than any on record until it is recorded, then
\* nobody else's; renew has read a lease that is alive; a release has deleted
\* the lease before it revokes its session.
Knows(r) ==
    /\ \A s \in r.before : s.n <= minted[s.acct]
    /\ r.pc \in {"aStore", "aResolve"} =>
         /\ r.mint \in live /\ r.mint.acct = r.acct
         /\ \A s \in r.before : s.acct = r.acct => s.n < r.mint.n
         /\ Youngest(r.mint)
    /\ r.pc \in {"aLease", "aMeta", "aDone"} =>
         /\ r.mint.n <= minted[r.mint.acct]
         /\ \A v \in User \ {r.user} : ~Recorded(v, r.mint)
    /\ r.pc = "aLease" => r.sess \in live \cup {None}
    /\ r.pc \in {"nCheck", "nLease"} => r.cur.sess \in live \cup {None}
    /\ r.pc \in {"lMeta", "lPop", "lCount", "lRevoke"} => lease[r.user] = None

LoginInv == OfOneRenter /\ Opened /\ LeasesAlive /\ \A p \in Proc : Knows(req[p])

-----------------------------------------------------------------------------
\* What the type invariant says of the sessions.
LEMMA SessionTypes ==
  ASSUME TypeOK
  PROVE  /\ live \subseteq Session
         /\ minted \in [Account -> Nat]
         /\ \A s \in Session : s.acct \in Account /\ s.n \in Nat
         /\ \A s \in live : s.n <= minted[s.acct]
         /\ \A u \in User : granted[u] \subseteq Session
         /\ None \notin Session
         /\ \A u \in User : lease[u] \in Lease \cup {None} /\ meta[u] \in RevokeMeta \cup {None}
  BY MaxSessionAssumption, NoneAssumption
  DEF TypeOK, AuthTypeOK, StoreTypeOK, ServiceTypeOK, Session

LEMMA AloneBecomes ==
  ASSUME Alone, TypeOK, NEW p \in Proc, NEW r, Become(p, r)
  PROVE  \A q \in Proc : q = p /\ req'[q] = r
  BY DEF Alone, TypeOK, ServiceTypeOK, Become

\* A step after which nothing is recorded that was not before.
LEMMA RecordedBefore ==
  ASSUME Alone, TypeOK, NEW p \in Proc, NEW r, Become(p, r),
         \A u \in User, s \in Session :
             Names(lease'[u], s) \/ Names(meta'[u], s) => Recorded(u, s),
         \A s \in Session, u \in User : r.user = u /\ Carries(r, s) => Recorded(u, s)
  PROVE  \A u \in User, s \in Session : Recorded(u, s)' => Recorded(u, s)
<1>1. \A q \in Proc : q = p /\ req'[q] = r
  BY AloneBecomes
<1>2. ASSUME NEW u \in User, NEW s \in Session, NEW q \in Proc,
             req'[q].user = u, Carries(req'[q], s)
      PROVE  Recorded(u, s)
  BY <1>1, <1>2
<1>3. ASSUME NEW u \in User, NEW s \in Session, Recorded(u, s)' PROVE Recorded(u, s)
  <2>1. \/ Names(lease'[u], s) \/ Names(meta'[u], s)
        \/ \E q \in Proc : req'[q].user = u /\ Carries(req'[q], s)
    BY <1>3 DEF Recorded, Names, Carries
  <2> QED
    BY <1>2, <2>1
<1> QED
  BY <1>3

\* Such a step keeps the invariant, if its handler knows what it has to.
LEMMA MovesKeep ==
  ASSUME Alone, TypeOK, LoginInv, NEW p \in Proc, NEW r, Become(p, r),
         \A u \in User, s \in Session : Recorded(u, s)' => Recorded(u, s),
         minted' \in [Account -> Nat], \A a \in Account : minted[a] <= minted'[a],
         granted' = granted, LeasesAlive', Knows(r)'
  PROVE  LoginInv'
<1>1. \A q \in Proc : req'[q] = r
  BY AloneBecomes
<1>2. \A q \in Proc : Knows(req[q])'
  BY <1>1 DEF Knows
<1>3. OfOneRenter'
  BY DEF LoginInv, OfOneRenter
<1>4. ASSUME NEW s \in Session, NEW u \in User, Recorded(u, s)' \/ s \in granted'[u]
      PROVE  s.n <= minted'[s.acct]
  <2>1. s.n <= minted[s.acct]
    BY <1>4 DEF LoginInv, Opened
  <2>2. /\ s.acct \in Account /\ s.n \in Nat /\ minted \in [Account -> Nat]
    BY SessionTypes
  <2> QED
    BY <2>1, <2>2
<1>5. Opened'
  BY <1>4 DEF Opened
<1> QED
  BY <1>2, <1>3, <1>5 DEF LoginInv

\* The labels at which a handler holds a session, or has one to be recorded.
Holding == {"aStore", "aResolve", "aLease", "aMeta", "aDone", "nCheck", "nLease", "nSetMeta",
            "lDel", "lMeta", "lPop", "lCount", "lRevoke"}

\* A handler goes on with empty hands.
LEMMA QuietKeeps ==
  ASSUME Alone, TypeOK, LoginInv, NEW p \in Proc, NEW r, Become(p, r),
         r.pc \notin Holding, \A s \in r.before : s \in Session /\ s.n <= minted[s.acct],
         UNCHANGED <<lease, meta, granted>>, LeasesAlive',
         minted' \in [Account -> Nat], \A a \in Account : minted[a] <= minted'[a]
  PROVE  LoginInv'
<1>1. \A s : ~Carries(r, s)
  BY DEF Carries, Holding
<1>2. \A u \in User, s \in Session : Recorded(u, s)' => Recorded(u, s)
  <2>1. \A u \in User, s \in Session : Names(lease'[u], s) \/ Names(meta'[u], s) => Recorded(u, s)
    BY DEF Recorded
  <2> QED
    BY <1>1, <2>1, RecordedBefore
<1>3. ASSUME NEW s \in r.before PROVE s.n <= minted'[s.acct]
  <2>1. /\ s.acct \in Account /\ s.n \in Nat /\ minted \in [Account -> Nat]
        /\ s.n <= minted[s.acct]
    BY SessionTypes
  <2> QED
    BY <2>1
<1>4. Knows(r)'
  BY <1>3 DEF Knows, Holding
<1> QED
  BY <1>2, <1>4, MovesKeep

\* Neither the store nor the sessions change.
LEMMA StillKeeps ==
  ASSUME Alone, TypeOK, LoginInv, NEW p \in Proc, NEW r, Become(p, r),
         r.pc \notin Holding, r.before \subseteq req[p].before,
         UNCHANGED <<live, minted, lease, meta, granted>>
  PROVE  LoginInv'
<1>1. \A s \in r.before : s \in Session /\ s.n <= minted[s.acct]
  <2>1. req[p].before \subseteq Session
    BY Locals DEF Request
  <2>2. Knows(req[p])
    BY DEF LoginInv
  <2> QED
    BY <2>1, <2>2 DEF Knows
<1>2. LeasesAlive'
  BY DEF LoginInv, LeasesAlive
<1>3. minted' \in [Account -> Nat] /\ \A a \in Account : minted[a] <= minted'[a]
  BY SessionTypes
<1> QED
  BY <1>1, <1>2, <1>3, QuietKeeps

LEMMA FinishStill ==
  ASSUME Alone, TypeOK, LoginInv, NEW p \in Proc, Finish(p),
         UNCHANGED <<live, minted, lease, meta, granted>>
  PROVE  LoginInv'
<1>1. Idle.pc \notin Holding /\ Idle.before = {}
  BY DEF Idle, Holding
<1> QED
  BY <1>1, StillKeeps DEF Finish

LEMMA GotoStill ==
  ASSUME Alone, TypeOK, LoginInv, NEW p \in Proc, NEW l, l \notin Holding, Goto(p, l),
         UNCHANGED <<live, minted, lease, meta, granted>>
  PROVE  LoginInv'
<1>1. PICK r : r = [req[p] EXCEPT !.pc = l]
  OBVIOUS
<1>2. r.pc = l /\ r.before = req[p].before
  BY <1>1, Locals DEF Request
<1>3. Become(p, r)
  BY <1>1 DEF Goto
<1> QED
  BY <1>2, <1>3, StillKeeps

\* What a subroutine returns to.
LEMMA ResumeTo ==
  ASSUME NEW p \in Proc, NEW r, r.ret \in Continuation, Resume(p, r)
  PROVE  \E next : /\ Become(p, next) /\ next.pc \notin Holding /\ next.before = {}
                   /\ next.sess = None /\ next.cur = None
<1> DEFINE next == IF r.ret = "idle" THEN Idle
                   ELSE [Idle EXCEPT !.pc = r.ret, !.ret = r.ret, !.todo = r.todo,
                                     !.user = IF r.ret = "aRead" THEN r.user ELSE None,
                                     !.force = r.force, !.exclude = r.exclude]
<1>1. /\ next.pc \notin Holding /\ next.before = {}
      /\ next.sess = None /\ next.cur = None
  BY DEF Idle, Holding, Continuation
<1>2. Become(p, next)
  BY DEF Resume
<1> QED
  BY <1>1, <1>2

LEMMA ResumeStill ==
  ASSUME Alone, TypeOK, LoginInv, NEW p \in Proc, NEW r, r.ret \in Continuation, Resume(p, r),
         UNCHANGED <<live, minted, lease, meta, granted>>
  PROVE  LoginInv'
  BY ResumeTo, StillKeeps

LEMMA NextStill ==
  ASSUME Alone, TypeOK, LoginInv, NEW p \in Proc, NextCandidate(p, req[p]),
         UNCHANGED <<live, minted, lease, meta, granted>>
  PROVE  LoginInv'
<1> DEFINE r == req[p]
<1>1. PICK next : next = [r EXCEPT !.pc = "aSelect", !.exclude = @ \cup {r.acct},
                             !.prefer = None, !.acct = None, !.over = FALSE,
                             !.before = {}, !.mint = None, !.sess = None]
  OBVIOUS
<1>2. next.pc \notin Holding /\ next.before = {}
  BY <1>1, Locals DEF Request, Holding
<1>3. Become(p, next)
  BY <1>1 DEF NextCandidate
<1> QED
  BY <1>2, <1>3, StillKeeps

-----------------------------------------------------------------------------
LEMMA ChoiceKeeps ==
  ASSUME Alone, TypeOK, LoginInv, NEW p \in Proc,
         AcquireRead(p) \/ AcquireSelect(p) \/ AcquireCount(p) \/ AcquireSnapshot(p) \/ AcquireFail(p)
  PROVE  LoginInv'
<1> DEFINE r == req[p]
<1>1. r \in Request /\ UNCHANGED <<live, minted, lease, meta, granted>>
  BY Locals DEF AcquireRead, AcquireSelect, AcquireCount, AcquireSnapshot, AcquireFail
<1>2. \/ Finish(p) \/ NextCandidate(p, r) \/ Goto(p, "aFail") \/ Goto(p, "aRefresh")
      \/ \E x, y : Become(p, [r EXCEPT !.pc = "aSelect", !.cur = x, !.prefer = y])
      \/ \E x : Become(p, [r EXCEPT !.pc = "aCount", !.acct = x])
      \/ \E x : Become(p, [r EXCEPT !.pc = "aSnap", !.over = x])
      \/ Become(p, [r EXCEPT !.pc = "aRefresh", !.before = LiveOf(r.acct)])
  BY DEF AcquireRead, AcquireSelect, AcquireCount, AcquireSnapshot, AcquireFail
<1>3. ASSUME \/ Finish(p) \/ NextCandidate(p, r) \/ Goto(p, "aFail") \/ Goto(p, "aRefresh")
      PROVE  LoginInv'
  BY <1>1, <1>3, FinishStill, NextStill, GotoStill DEF Holding
<1>4. ASSUME \/ \E x, y : Become(p, [r EXCEPT !.pc = "aSelect", !.cur = x, !.prefer = y])
             \/ \E x : Become(p, [r EXCEPT !.pc = "aCount", !.acct = x])
             \/ \E x : Become(p, [r EXCEPT !.pc = "aSnap", !.over = x])
      PROVE  LoginInv'
  <2>1. \E next : Become(p, next) /\ next.pc \in {"aSelect", "aCount", "aSnap"} /\ next.before = r.before
    <3>1. ASSUME NEW x, NEW y, Become(p, [r EXCEPT !.pc = "aSelect", !.cur = x, !.prefer = y])
          PROVE  \E next : Become(p, next) /\ next.pc = "aSelect" /\ next.before = r.before
      <4>1. PICK next : next = [r EXCEPT !.pc = "aSelect", !.cur = x, !.prefer = y]
        OBVIOUS
      <4>2. next.pc = "aSelect" /\ next.before = r.before
        BY <1>1, <4>1 DEF Request
      <4> QED
        BY <3>1, <4>1, <4>2
    <3>2. ASSUME NEW x, Become(p, [r EXCEPT !.pc = "aCount", !.acct = x])
          PROVE  \E next : Become(p, next) /\ next.pc = "aCount" /\ next.before = r.before
      <4>1. PICK next : next = [r EXCEPT !.pc = "aCount", !.acct = x]
        OBVIOUS
      <4>2. next.pc = "aCount" /\ next.before = r.before
        BY <1>1, <4>1 DEF Request
      <4> QED
        BY <3>2, <4>1, <4>2
    <3>3. ASSUME NEW x, Become(p, [r EXCEPT !.pc = "aSnap", !.over = x])
          PROVE  \E next : Become(p, next) /\ next.pc = "aSnap" /\ next.before = r.before
      <4>1. PICK next : next = [r EXCEPT !.pc = "aSnap", !.over = x]
        OBVIOUS
      <4>2. next.pc = "aSnap" /\ next.before = r.before
        BY <1>1, <4>1 DEF Request
      <4> QED
        BY <3>3, <4>1, <4>2
    <3> QED
      BY <1>4, <3>1, <3>2, <3>3
  <2> QED
    BY <1>1, <2>1, StillKeeps DEF Holding
<1>5. ASSUME Become(p, [r EXCEPT !.pc = "aRefresh", !.before = LiveOf(r.acct)])
      PROVE  LoginInv'
  <2>1. PICK next : next = [r EXCEPT !.pc = "aRefresh", !.before = LiveOf(r.acct)]
    OBVIOUS
  <2>2. next.pc = "aRefresh" /\ next.before \subseteq live /\ Become(p, next)
    BY <1>1, <1>5, <2>1 DEF Request, LiveOf
  <2>3. \A s \in next.before : s \in Session /\ s.n <= minted[s.acct]
    BY <2>2, SessionTypes
  <2>4. LeasesAlive' /\ minted' \in [Account -> Nat] /\ \A a \in Account : minted[a] <= minted'[a]
    BY <1>1, SessionTypes DEF LoginInv, LeasesAlive
  <2> QED
    BY <1>1, <2>2, <2>3, <2>4, QuietKeeps DEF Holding
<1> QED
  BY <1>2, <1>3, <1>4, <1>5

\* A refresh: the sessions an account had, and one more.
LEMMA MintGrows ==
  ASSUME TypeOK, NEW a \in Account, Mint(a)
  PROVE  /\ minted' \in [Account -> Nat] /\ \A b \in Account : minted[b] <= minted'[b]
         /\ live' = live \cup {NextSession(a)}
         /\ NextSession(a).acct = a /\ NextSession(a).n = minted[a] + 1
<1>1. minted \in [Account -> Nat]
  BY SessionTypes
<1> QED
  BY <1>1 DEF Mint, NextSession

LEMMA LeasesStayAlive ==
  ASSUME LeasesAlive, UNCHANGED lease, live \subseteq live'
  PROVE  LeasesAlive'
  BY DEF LeasesAlive

\* The session that acquire opens is younger than all the others of its account.
LEMMA RefreshKeeps ==
  ASSUME Alone, TypeOK, LoginInv, NEW p \in Proc, AcquireRefresh(p)
  PROVE  LoginInv'
<1> DEFINE r == req[p]
           a == r.acct
<1>1. /\ r \in Request /\ a \in Account /\ r.before \subseteq Session
      /\ UNCHANGED <<lease, meta, granted>>
  <2>1. Bound(r) /\ r.pc = "aRefresh"
    BY DEF AcquireRefresh, At, TypeOK, ServiceTypeOK
  <2> QED
    BY <2>1, Locals DEF AcquireRefresh, Request, Bound
<1>2. CASE UNCHANGED <<live, minted>> /\ (Finish(p) \/ Goto(p, "aFail"))
  BY <1>1, <1>2, FinishStill, GotoStill DEF Holding
<1>3. CASE Mint(a) /\ Become(p, [r EXCEPT !.pc = "aStore", !.mint = NextSession(a)])
  <2>1. PICK next, m : m = NextSession(a) /\ next = [r EXCEPT !.pc = "aStore", !.mint = m]
    OBVIOUS
  <2>2. /\ Become(p, next) /\ next.pc = "aStore" /\ next.mint = m /\ next.acct = a
        /\ next.before = r.before
    BY <1>1, <1>3, <2>1 DEF Request
  <2>3. /\ minted' \in [Account -> Nat] /\ \A b \in Account : minted[b] <= minted'[b]
        /\ live' = live \cup {m} /\ m.acct = a /\ m.n = minted[a] + 1
    BY <1>1, <1>3, <2>1, MintGrows
  <2>4. \A s : ~Carries(next, s)
    BY <2>2 DEF Carries
  <2>5. \A u \in User, s \in Session : Recorded(u, s)' => Recorded(u, s)
    <3>1. \A u \in User, s \in Session : Names(lease'[u], s) \/ Names(meta'[u], s) => Recorded(u, s)
      BY <1>1 DEF Recorded
    <3> QED
      BY <2>2, <2>4, <3>1, RecordedBefore
  <2>6. ASSUME NEW s \in Session, s.n <= minted[s.acct]
        PROVE  s.n <= minted'[s.acct] /\ (s.acct = a => s.n < m.n)
    <3>1. s.acct \in Account /\ s.n \in Nat /\ minted \in [Account -> Nat]
      BY SessionTypes
    <3> QED
      BY <1>1, <2>3, <2>6, <3>1
  <2>7. ASSUME NEW s \in Session, NEW u \in User, Recorded(u, s)' \/ s \in granted'[u],
               s.acct = m.acct
        PROVE  s.n < m.n
    <3>1. s.n <= minted[s.acct]
      BY <1>1, <2>5, <2>7 DEF LoginInv, Opened
    <3> QED
      BY <2>3, <2>6, <2>7, <3>1
  <2>8. \A s \in next.before : s \in Session /\ s.n <= minted[s.acct]
    BY <1>1, <2>2 DEF LoginInv, Knows
  <2>9. Youngest(m)'
    BY <2>7 DEF Youngest
  <2>10. Knows(next)'
    BY <2>2, <2>3, <2>6, <2>8, <2>9 DEF Knows
  <2>11. LeasesAlive'
    BY <1>1, <2>3, LeasesStayAlive DEF LoginInv
  <2> QED
    BY <1>1, <2>2, <2>3, <2>5, <2>10, <2>11, MovesKeep
<1> QED
  BY <1>2, <1>3 DEF AcquireRefresh

LEMMA StoreKeeps ==
  ASSUME Alone, TypeOK, LoginInv, NEW p \in Proc, AcquireStore(p)
  PROVE  LoginInv'
<1> DEFINE r == req[p]
<1>1. /\ r \in Request /\ r.pc = "aStore" /\ UNCHANGED <<live, minted, lease, meta, granted>>
  BY Locals DEF AcquireStore, At
<1>2. CASE Goto(p, "aFail")
  BY <1>1, <1>2, GotoStill DEF Holding
<1>3. CASE Goto(p, "aResolve")
  <2>1. PICK next : next = [r EXCEPT !.pc = "aResolve"]
    OBVIOUS
  <2>2. /\ Become(p, next) /\ next.pc = "aResolve" /\ next.mint = r.mint /\ next.acct = r.acct
        /\ next.before = r.before
    BY <1>1, <1>3, <2>1 DEF Request, Goto
  <2>3. \A u \in User, s \in Session : Recorded(u, s)' => Recorded(u, s)
    <3>1. \A s : ~Carries(next, s)
      BY <2>2 DEF Carries
    <3>2. \A u \in User, s \in Session : Names(lease'[u], s) \/ Names(meta'[u], s) => Recorded(u, s)
      BY <1>1 DEF Recorded
    <3> QED
      BY <2>2, <3>1, <3>2, RecordedBefore
  <2>4. Knows(r)
    BY DEF LoginInv
  <2>5. PICK m : m = r.mint
    OBVIOUS
  <2>6. Youngest(m)'
    BY <1>1, <2>3, <2>4, <2>5 DEF Knows, Youngest
  <2>7. Knows(next)'
    BY <1>1, <2>2, <2>4, <2>5, <2>6 DEF Knows
  <2>8. LeasesAlive' /\ minted' \in [Account -> Nat] /\ \A a \in Account : minted[a] <= minted'[a]
    BY <1>1, SessionTypes DEF LoginInv, LeasesAlive
  <2> QED
    BY <1>1, <2>2, <2>3, <2>7, <2>8, MovesKeep
<1> QED
  BY <1>2, <1>3 DEF AcquireStore

\* The session of LiveOf(a) taken for the new one is not older than it.
LEMMA PickYoung ==
  ASSUME NEW L, L \subseteq Session, NEW B, NEW m \in L, m \notin B,
         NEW s \in PickNewSession(L, B)
  PROVE  s \in L /\ m.n <= s.n
<1>1. m \in L \ B
  OBVIOUS
<1> QED
  BY <1>1 DEF PickNewSession, Newest, Session

LEMMA ResolveKeeps ==
  ASSUME Alone, TypeOK, LoginInv, NEW p \in Proc, AcquireResolve(p)
  PROVE  LoginInv'
<1> DEFINE r == req[p]
<1>1. /\ r \in Request /\ r.pc = "aResolve" /\ UNCHANGED <<live, minted, lease, meta, granted>>
      /\ r.user \in User
  BY Locals DEF AcquireResolve, At
<1>2. CASE NextCandidate(p, r)
  BY <1>1, <1>2, NextStill
<1>3. ASSUME NEW s \in (IF r.mint \in live THEN PickNewSession(LiveOf(r.acct), r.before) ELSE {None}) \cup {None},
             Become(p, [r EXCEPT !.pc = "aLease", !.sess = s, !.before = {}])
      PROVE  LoginInv'
  <2>1. PICK next : next = [r EXCEPT !.pc = "aLease", !.sess = s, !.before = {}]
    OBVIOUS
  <2>2. /\ Become(p, next) /\ next.pc = "aLease" /\ next.mint = r.mint /\ next.sess = s
        /\ next.before = {} /\ next.user = r.user
    BY <1>1, <1>3, <2>1 DEF Request
  <2>3. /\ r.mint \in live /\ r.mint.acct = r.acct
        /\ \A b \in r.before : b.acct = r.acct => b.n < r.mint.n
        /\ Youngest(r.mint)
    BY <1>1 DEF LoginInv, Knows
  <2>4. ASSUME s # None PROVE s \in live /\ s.acct = r.acct /\ r.mint.n <= s.n
    <3>1. LiveOf(r.acct) \subseteq Session /\ r.mint \in LiveOf(r.acct)
      BY <2>3, SessionTypes DEF LiveOf
    <3>2. r.mint \notin r.before
      <4>1. r.mint.n \in Nat
        BY <2>3, SessionTypes
      <4> QED
        BY <2>3, <4>1
    <3>3. s \in PickNewSession(LiveOf(r.acct), r.before)
      BY <2>3, <2>4, <1>3
    <3>4. s \in LiveOf(r.acct) /\ r.mint.n <= s.n
      BY <3>1, <3>2, <3>3, PickYoung
    <3> QED
      BY <3>4 DEF LiveOf
  <2>5. ASSUME NEW t \in Session, t.acct = r.acct, r.mint.n <= t.n, NEW v \in User
        PROVE  ~Recorded(v, t) /\ t \notin granted[v]
    <3>1. t.n \in Nat /\ r.mint.n \in Nat
      BY <2>3, SessionTypes
    <3>2. ~(t.n < r.mint.n)
      BY <2>5, <3>1
    <3> QED
      BY <2>3, <2>5, <3>2 DEF Youngest
  <2>6. r.mint \in Session /\ r.mint.n \in Nat /\ live \subseteq Session
    BY <2>3, SessionTypes
  <2>7. \A q \in Proc : q = p /\ req'[q] = next
    BY <2>2, AloneBecomes
  <2>8. ASSUME NEW u \in User, NEW t \in Session, Recorded(u, t)'
        PROVE  Recorded(u, t) \/ (u = r.user /\ t = s)
    <3>1. ASSUME NEW q \in Proc, req'[q].user = u, Carries(req'[q], t)
          PROVE  u = r.user /\ t = s
      BY <2>2, <2>7, <3>1 DEF Carries
    <3>2. \/ Names(lease'[u], t) \/ Names(meta'[u], t)
          \/ \E q \in Proc : req'[q].user = u /\ Carries(req'[q], t)
      BY <2>8 DEF Recorded, Names, Carries
    <3> QED
      BY <1>1, <3>1, <3>2 DEF Recorded
  <2>9. ASSUME NEW t \in Session, NEW u \in User, NEW v \in User,
               Recorded(u, t)', Recorded(v, t)' \/ t \in granted'[v]
        PROVE  u = v
    <3>1. CASE t = s
      <4>1. ~Recorded(u, t) /\ ~Recorded(v, t) /\ t \notin granted[v]
        BY <3>1, <2>4, <2>5, NoneAssumption
      <4> QED
        BY <1>1, <2>8, <2>9, <4>1
    <3>2. CASE t # s
      BY <1>1, <2>8, <2>9, <3>2 DEF LoginInv, OfOneRenter
    <3> QED
      BY <3>1, <3>2
  <2>10. OfOneRenter'
    BY <2>9 DEF OfOneRenter
  <2>11. ASSUME NEW t \in Session, NEW u \in User, Recorded(u, t)' \/ t \in granted'[u]
         PROVE  t.n <= minted'[t.acct]
    <3>1. CASE t = s
      <4>1. t \in live
        BY <3>1, <2>4, NoneAssumption
      <4> QED
        BY <1>1, <4>1, SessionTypes
    <3>2. CASE t # s
      BY <1>1, <2>8, <2>11, <3>2 DEF LoginInv, Opened
    <3> QED
      BY <3>1, <3>2
  <2>12. Opened'
    BY <2>11 DEF Opened
  <2>13. LeasesAlive'
    BY <1>1 DEF LoginInv, LeasesAlive
  <2>14. PICK m : m = r.mint
    OBVIOUS
  <2>15. m \in Session /\ m.acct = r.acct /\ m.n \in Nat /\ next.mint = m
    BY <2>2, <2>3, <2>6, <2>14
  <2>20. m.n <= minted'[m.acct]
    BY <1>1, <2>3, <2>14, SessionTypes
  <2>16. ASSUME NEW v \in User, v # next.user, Recorded(v, m)' PROVE FALSE
    <3>1. Recorded(v, m)
      BY <2>2, <2>8, <2>15, <2>16
    <3> QED
      BY <2>5, <2>14, <2>15, <3>1
  <2>17. s \in live' \cup {None}
    BY <1>1, <2>4
  <2>18. Knows(next)'
    BY <2>2, <2>15, <2>16, <2>17, <2>20 DEF Knows
  <2>19. \A q \in Proc : Knows(req[q])'
    BY <2>7, <2>18 DEF Knows
  <2> QED
    BY <2>10, <2>12, <2>13, <2>19 DEF LoginInv
<1> QED
  BY <1>2, <1>3 DEF AcquireResolve

\* The two writes of set_lease: what is recorded is what the handler carries.
LEMMA SetLeaseKeeps ==
  ASSUME Alone, TypeOK, LoginInv, NEW p \in Proc, AcquireSetLease(p)
  PROVE  LoginInv'
<1> DEFINE r == req[p]
<1>1. /\ r \in Request /\ r.pc = "aLease" /\ UNCHANGED <<live, minted, granted>>
      /\ r.user \in User
  BY Locals DEF AcquireSetLease, At
<1>2. CASE Finish(p) /\ UNCHANGED <<lease, meta>>
  BY <1>1, <1>2, FinishStill
<1>3. CASE /\ SetLeaseKey(r.user, Stamp(r.user, r.acct, r.sess))
           /\ Goto(p, "aMeta")
  <2>1. PICK next, l, u : /\ next = [r EXCEPT !.pc = "aMeta"]
                          /\ l = Stamp(r.user, r.acct, r.sess) /\ u = r.user
    OBVIOUS
  <2>2. /\ Become(p, next) /\ next.pc = "aMeta" /\ next.mint = r.mint /\ next.sess = r.sess
        /\ next.before = r.before /\ next.user = u /\ u \in User
    BY <1>1, <1>3, <2>1 DEF Request, Goto
  <2>3. l.sess = r.sess
    BY <2>1 DEF Stamp
  <2>4. lease \in [User -> Lease \cup {None}] /\ lease' = [lease EXCEPT ![u] = l] /\ meta' = meta
    BY <1>3, <2>1 DEF SetLeaseKey, TypeOK, StoreTypeOK
  <2>5. \A v \in User : lease'[v] = IF v = u THEN l ELSE lease[v]
    BY <2>4
  <2>6. \A s : r.sess = s => Carries(r, s)
    BY <1>1 DEF Carries
  <2>7. \A s : r.sess = s => Recorded(u, s)
    BY <2>1, <2>6 DEF Recorded
  <2>8. \A v \in User, s \in Session :
            Names(lease'[v], s) \/ Names(meta'[v], s) => Recorded(v, s)
    BY <2>3, <2>4, <2>5, <2>7 DEF Recorded, Names
  <2>9. \A v \in User, s \in Session : Recorded(v, s)' => Recorded(v, s)
    <3>1. \A s \in Session, v \in User : next.user = v /\ Carries(next, s) => Recorded(v, s)
      BY <2>2, <2>7 DEF Carries
    <3> QED
      BY <2>2, <2>8, <3>1, RecordedBefore
  <2>10. Knows(r)
    BY DEF LoginInv
  <2>11. LeasesAlive'
    BY <1>1, <2>3, <2>5, <2>10 DEF LoginInv, LeasesAlive, Knows
  <2>12. PICK m : m = r.mint
    OBVIOUS
  <2>13. next.mint = m /\ m.n <= minted'[m.acct] /\ (m \in Session => \A v \in User \ {u} : ~Recorded(v, m))
    BY <1>1, <2>1, <2>2, <2>10, <2>12 DEF Knows
  <2>14. m \in Session
    <3>1. r.mint \in MaybeSession /\ r.mint # None
      BY <1>1 DEF Request, TypeOK, ServiceTypeOK, Bound
    <3> QED
      BY <2>12, <3>1 DEF MaybeSession
  <2>15. Knows(next)'
    BY <1>1, <2>2, <2>9, <2>10, <2>13, <2>14 DEF Knows
  <2>16. minted' \in [Account -> Nat] /\ \A a \in Account : minted[a] <= minted'[a]
    BY <1>1, SessionTypes
  <2> QED
    BY <1>1, <2>2, <2>9, <2>11, <2>15, <2>16, MovesKeep
<1> QED
  BY <1>2, <1>3 DEF AcquireSetLease

LEMMA SetMetaKeeps ==
  ASSUME Alone, TypeOK, LoginInv, NEW p \in Proc, AcquireSetMeta(p)
  PROVE  LoginInv'
<1> DEFINE r == req[p]
<1>1. /\ r \in Request /\ r.pc = "aMeta" /\ UNCHANGED <<live, minted, granted>>
      /\ r.user \in User
  BY Locals DEF AcquireSetMeta, At
<1>2. PICK next, l, u : /\ next = [r EXCEPT !.pc = "aDone"]
                        /\ l = [acct |-> r.acct, sess |-> r.sess] /\ u = r.user
  OBVIOUS
<1>3. /\ Become(p, next) /\ next.pc = "aDone" /\ next.mint = r.mint
      /\ next.before = r.before /\ next.user = u /\ u \in User
  BY <1>1, <1>2 DEF Request, Goto, AcquireSetMeta
<1>4. l.sess = r.sess
  BY <1>2
<1>5. /\ meta \in [User -> RevokeMeta \cup {None}] /\ meta' = [meta EXCEPT ![u] = l]
      /\ lease' = lease
  BY <1>2 DEF AcquireSetMeta, SetRevokeMeta, TypeOK, StoreTypeOK
<1>6. \A v \in User : meta'[v] = IF v = u THEN l ELSE meta[v]
  BY <1>5
<1>7. \A s : r.sess = s => Recorded(u, s)
  BY <1>1, <1>2 DEF Recorded, Carries
<1>8. \A v \in User, s \in Session :
          Names(lease'[v], s) \/ Names(meta'[v], s) => Recorded(v, s)
  BY <1>4, <1>5, <1>6, <1>7 DEF Recorded, Names
<1>9. \A v \in User, s \in Session : Recorded(v, s)' => Recorded(v, s)
  <2>1. \A s : ~Carries(next, s)
    BY <1>3 DEF Carries
  <2> QED
    BY <1>3, <1>8, <2>1, RecordedBefore
<1>10. Knows(r) /\ LeasesAlive'
  BY <1>1, <1>5 DEF LoginInv, LeasesAlive
<1>11. PICK m : m = r.mint
  OBVIOUS
<1>12. m \in Session
  <2>1. r.mint \in MaybeSession /\ r.mint # None
    BY <1>1 DEF Request, TypeOK, ServiceTypeOK, Bound
  <2> QED
    BY <1>11, <2>1 DEF MaybeSession
<1>13. next.mint = m /\ m.n <= minted'[m.acct] /\ \A v \in User \ {u} : ~Recorded(v, m)
  BY <1>1, <1>2, <1>3, <1>10, <1>11 DEF Knows
<1>14. Knows(next)'
  BY <1>1, <1>3, <1>9, <1>10, <1>12, <1>13 DEF Knows
<1>15. minted' \in [Account -> Nat] /\ \A a \in Account : minted[a] <= minted'[a]
  BY <1>1, SessionTypes
<1> QED
  BY <1>1, <1>3, <1>9, <1>10, <1>14, <1>15, MovesKeep

\* The renter is given a session that is nobody else's.
LEMMA GrantKeeps ==
  ASSUME Alone, TypeOK, LoginInv, NEW p \in Proc, AcquireDone(p)
  PROVE  LoginInv'
<1> DEFINE r == req[p]
<1>1. /\ r \in Request /\ r.pc = "aDone" /\ UNCHANGED <<live, minted, lease, meta>>
      /\ r.user \in User /\ Become(p, Idle)
  BY Locals DEF AcquireDone, At, Finish
<1>2. PICK m, u : m = r.mint /\ u = r.user
  OBVIOUS
<1>3. m \in Session
  <2>1. r.mint \in MaybeSession /\ r.mint # None
    BY <1>1 DEF Request, TypeOK, ServiceTypeOK, Bound
  <2> QED
    BY <1>2, <2>1 DEF MaybeSession
<1>4. \A v \in User : granted'[v] \subseteq granted[v] \cup (IF v = u THEN {m} ELSE {})
  BY <1>2 DEF AcquireDone, TypeOK, ServiceTypeOK
<1>5. PICK next : next = Idle
  OBVIOUS
<1>i. next.pc = "idle" /\ next.before = {}
  BY <1>5 DEF Idle
<1>6. \A v \in User, s \in Session : Recorded(v, s)' => Recorded(v, s)
  <2>1. \A s : ~Carries(next, s)
    BY <1>i DEF Carries
  <2>2. \A v \in User, s \in Session : Names(lease'[v], s) \/ Names(meta'[v], s) => Recorded(v, s)
    BY <1>1 DEF Recorded
  <2> QED
    BY <1>1, <1>5, <2>1, <2>2, RecordedBefore
<1>7. \A v \in User \ {u} : ~Recorded(v, m)
  BY <1>1, <1>2 DEF LoginInv, Knows
<1>8. OfOneRenter'
  <2>1. ASSUME NEW s \in Session, NEW v \in User, NEW w \in User,
               Recorded(v, s)', Recorded(w, s)' \/ s \in granted'[w]
        PROVE  v = w
    BY <1>4, <1>6, <1>7, <2>1 DEF LoginInv, OfOneRenter
  <2> QED
    BY <2>1 DEF OfOneRenter
<1>9. Opened'
  <2>1. m.n <= minted[m.acct]
    BY <1>1, <1>2, <1>3 DEF LoginInv, Knows
  <2> QED
    BY <1>1, <1>4, <1>6, <2>1 DEF LoginInv, Opened
<1>10. LeasesAlive'
  BY <1>1 DEF LoginInv, LeasesAlive
<1>11. \A q \in Proc : req'[q] = next
  BY <1>1, <1>5, AloneBecomes
<1>12. \A q \in Proc : Knows(req[q])'
  BY <1>i, <1>11 DEF Knows
<1> QED
  BY <1>8, <1>9, <1>10, <1>12 DEF LoginInv

-----------------------------------------------------------------------------
LEMMA RenewKeeps ==
  ASSUME Alone, TypeOK, LoginInv, NEW p \in Proc,
         RenewRead(p) \/ StatusRead(p) \/ ReleaseGet(p)
  PROVE  LoginInv'
<1> DEFINE r == req[p]
<1>1. /\ r \in Request /\ UNCHANGED <<live, minted, lease, meta, granted>> /\ r.user \in User
  BY Locals DEF RenewRead, StatusRead, ReleaseGet, At
<1>2. PICK l \in {"nMeta", "nCheck", "sMeta", "sCheck", "lDel"} :
         /\ l = "nCheck" => lease[r.user] # None
         /\ Become(p, [r EXCEPT !.pc = l, !.cur = lease[r.user]])
  BY DEF RenewRead, StatusRead, ReleaseGet
<1>3. PICK next, u, cur : /\ next = [r EXCEPT !.pc = l, !.cur = cur]
                          /\ u = r.user /\ cur = lease[r.user]
  OBVIOUS
<1>4. /\ Become(p, next) /\ next.pc = l /\ next.cur = cur /\ next.before = r.before
      /\ next.user = u /\ u \in User
  BY <1>1, <1>2, <1>3 DEF Request
<1>5. \A v \in User, s \in Session : Recorded(v, s)' => Recorded(v, s)
  <2>1. \A v \in User, s \in Session : Names(lease'[v], s) \/ Names(meta'[v], s) => Recorded(v, s)
    BY <1>1 DEF Recorded
  <2>2. \A s \in Session, v \in User : next.user = v /\ Carries(next, s) => Recorded(v, s)
    BY <1>3, <1>4 DEF Carries, Recorded
  <2> QED
    BY <1>4, <2>1, <2>2, RecordedBefore
<1>6. Knows(r) /\ LeasesAlive
  BY DEF LoginInv
<1>7. l = "nCheck" => next.cur.sess \in live' \cup {None}
  BY <1>1, <1>2, <1>3, <1>4, <1>6 DEF LeasesAlive
<1>8. Knows(next)'
  BY <1>1, <1>4, <1>6, <1>7 DEF Knows
<1>9. LeasesAlive' /\ minted' \in [Account -> Nat] /\ \A a \in Account : minted[a] <= minted'[a]
  BY <1>1, <1>6, SessionTypes DEF LeasesAlive
<1> QED
  BY <1>1, <1>4, <1>5, <1>8, <1>9, MovesKeep

LEMMA CheckKeepsLogin ==
  ASSUME Alone, TypeOK, LoginInv, NEW p \in Proc,
         RenewMeta(p) \/ RenewCheck(p) \/ StatusMeta(p) \/ StatusCheck(p)
  PROVE  LoginInv'
<1> DEFINE r == req[p]
<1>1. /\ r \in Request /\ UNCHANGED <<live, minted, lease, meta, granted>>
  BY Locals DEF RenewMeta, RenewCheck, StatusMeta, StatusCheck
<1>2. CASE Finish(p) \/ Goto(p, "lGet") \/ Resume(p, r)
  <2>1. r.ret \in Continuation
    BY <1>1 DEF Request
  <2> QED
    BY <1>1, <1>2, <2>1, FinishStill, GotoStill, ResumeStill DEF Holding
<1>3. CASE Resume(p, [r EXCEPT !.exclude = @ \cup {r.cur.acct}])
  <2>1. PICK s : s = [r EXCEPT !.exclude = @ \cup {r.cur.acct}]
    OBVIOUS
  <2>2. s.ret \in Continuation
    BY <1>1, <2>1 DEF Request
  <2> QED
    BY <1>1, <1>3, <2>1, <2>2, ResumeStill
<1>4. CASE r.pc = "nCheck" /\ Goto(p, "nLease")
  <2>1. PICK next : next = [r EXCEPT !.pc = "nLease"]
    OBVIOUS
  <2>2. /\ Become(p, next) /\ next.pc = "nLease" /\ next.cur = r.cur /\ next.before = r.before
        /\ next.user = r.user
    BY <1>1, <1>4, <2>1 DEF Request, Goto
  <2>3. \A v \in User, s \in Session : Recorded(v, s)' => Recorded(v, s)
    <3>1. \A v \in User, s \in Session : Names(lease'[v], s) \/ Names(meta'[v], s) => Recorded(v, s)
      BY <1>1 DEF Recorded
    <3>2. \A s \in Session, v \in User : next.user = v /\ Carries(next, s) => Recorded(v, s)
      BY <1>4, <2>2 DEF Carries, Recorded
    <3> QED
      BY <2>2, <3>1, <3>2, RecordedBefore
  <2>4. Knows(r) /\ LeasesAlive
    BY DEF LoginInv
  <2>5. Knows(next)'
    BY <1>1, <1>4, <2>2, <2>4 DEF Knows
  <2>6. LeasesAlive' /\ minted' \in [Account -> Nat] /\ \A a \in Account : minted[a] <= minted'[a]
    BY <1>1, <2>4, SessionTypes DEF LeasesAlive
  <2> QED
    BY <1>1, <2>2, <2>3, <2>5, <2>6, MovesKeep
<1>5. \/ Finish(p) \/ Goto(p, "lGet") \/ Resume(p, r)
      \/ Resume(p, [r EXCEPT !.exclude = @ \cup {r.cur.acct}])
      \/ r.pc = "nCheck" /\ Goto(p, "nLease")
  BY DEF RenewMeta, RenewCheck, StatusMeta, StatusCheck, At
<1> QED
  BY <1>2, <1>3, <1>4, <1>5

\* What renew writes it has read from a lease that nobody has revoked since.
LEMMA RenewalKeeps ==
  ASSUME Alone, TypeOK, LoginInv, NEW p \in Proc, RenewSetLease(p) \/ RenewSetMeta(p)
  PROVE  LoginInv'
<1> DEFINE r == req[p]
<1>1. /\ r \in Request /\ r.pc \in {"nLease", "nSetMeta"} /\ UNCHANGED <<live, minted, granted>>
      /\ r.user \in User /\ r.cur # None
  BY Locals DEF RenewSetLease, RenewSetMeta, At
<1>2. CASE Finish(p) /\ UNCHANGED <<lease, meta>>
  BY <1>1, <1>2, FinishStill
<1>3. PICK u, s0 : u = r.user /\ s0 = r.cur.sess
  OBVIOUS
<1>4. \A s : r.cur.sess = s => Recorded(u, s)
  BY <1>1, <1>3 DEF Recorded, Carries, Names
<1>5. Knows(r) /\ LeasesAlive
  BY DEF LoginInv
<1>6. minted' \in [Account -> Nat] /\ \A a \in Account : minted[a] <= minted'[a]
  BY <1>1, SessionTypes
<1>7. CASE /\ r.pc = "nLease" /\ SetLeaseKey(r.user, Stamp(r.user, r.cur.acct, r.cur.sess))
           /\ Goto(p, "nSetMeta")
  <2>1. PICK next, l : /\ next = [r EXCEPT !.pc = "nSetMeta"]
                       /\ l = Stamp(r.user, r.cur.acct, r.cur.sess)
    OBVIOUS
  <2>2. /\ Become(p, next) /\ next.pc = "nSetMeta" /\ next.cur = r.cur
        /\ next.before = r.before /\ next.user = u
    BY <1>1, <1>3, <1>7, <2>1 DEF Request, Goto
  <2>3. l.sess = s0
    BY <1>3, <2>1 DEF Stamp
  <2>4. lease \in [User -> Lease \cup {None}] /\ lease' = [lease EXCEPT ![u] = l] /\ meta' = meta
    BY <1>3, <1>7, <2>1 DEF SetLeaseKey, TypeOK, StoreTypeOK
  <2>5. \A v \in User : lease'[v] = IF v = u THEN l ELSE lease[v]
    BY <2>4
  <2>6. \A v \in User, s \in Session :
            Names(lease'[v], s) \/ Names(meta'[v], s) => Recorded(v, s)
    BY <1>3, <1>4, <2>3, <2>4, <2>5 DEF Recorded, Names
  <2>7. \A v \in User, s \in Session : Recorded(v, s)' => Recorded(v, s)
    <3>1. \A s \in Session, v \in User : next.user = v /\ Carries(next, s) => Recorded(v, s)
      BY <1>4, <2>2 DEF Carries, Names
    <3> QED
      BY <2>2, <2>6, <3>1, RecordedBefore
  <2>8. LeasesAlive'
    BY <1>1, <1>3, <1>5, <1>7, <2>3, <2>5 DEF LeasesAlive, Knows
  <2>9. Knows(next)'
    BY <1>1, <1>5, <2>2 DEF Knows
  <2> QED
    BY <1>1, <1>6, <2>2, <2>7, <2>8, <2>9, MovesKeep
<1>8. CASE /\ r.pc = "nSetMeta" /\ SetRevokeMeta(r.user, [acct |-> r.cur.acct, sess |-> r.cur.sess])
           /\ Become(p, [Idle EXCEPT !.pc = "sRead", !.user = r.user])
  <2>1. PICK next, l : /\ next = [Idle EXCEPT !.pc = "sRead", !.user = r.user]
                       /\ l = [acct |-> r.cur.acct, sess |-> r.cur.sess]
    OBVIOUS
  <2>2. Become(p, next) /\ next.pc = "sRead" /\ next.before = {}
    BY <1>8, <2>1 DEF Idle
  <2>3. l.sess = s0
    BY <1>3, <2>1
  <2>4. /\ meta \in [User -> RevokeMeta \cup {None}] /\ meta' = [meta EXCEPT ![u] = l]
        /\ lease' = lease
    BY <1>3, <1>8, <2>1 DEF SetRevokeMeta, TypeOK, StoreTypeOK
  <2>5. \A v \in User : meta'[v] = IF v = u THEN l ELSE meta[v]
    BY <2>4
  <2>6. \A v \in User, s \in Session :
            Names(lease'[v], s) \/ Names(meta'[v], s) => Recorded(v, s)
    BY <1>3, <1>4, <2>3, <2>4, <2>5 DEF Recorded, Names
  <2>7. \A v \in User, s \in Session : Recorded(v, s)' => Recorded(v, s)
    <3>1. \A s : ~Carries(next, s)
      BY <2>2 DEF Carries
    <3> QED
      BY <2>2, <2>6, <3>1, RecordedBefore
  <2>8. LeasesAlive'
    BY <1>1, <1>5, <2>4 DEF LeasesAlive
  <2>9. Knows(next)'
    BY <2>2 DEF Knows
  <2> QED
    BY <1>1, <1>6, <2>2, <2>7, <2>8, <2>9, MovesKeep
<1> QED
  BY <1>2, <1>7, <1>8 DEF RenewSetLease, RenewSetMeta, At

-----------------------------------------------------------------------------
LEMMA DelKeeps ==
  ASSUME Alone, TypeOK, LoginInv, NEW p \in Proc, ReleaseDel(p) \/ ReleasePop(p)
  PROVE  LoginInv'
<1> DEFINE r == req[p]
<1>1. /\ r \in Request /\ r.pc \in {"lDel", "lPop"} /\ UNCHANGED <<live, minted, granted>>
      /\ r.user \in User
  BY Locals DEF ReleaseDel, ReleasePop, At
<1>2. PICK u : u = r.user
  OBVIOUS
<1>3. \/ r.pc = "lDel" /\ Goto(p, "lMeta") /\ lease' = [lease EXCEPT ![u] = None] /\ meta' = meta
      \/ r.pc = "lPop" /\ Goto(p, "lCount") /\ lease' = lease /\ meta' = [meta EXCEPT ![u] = None]
  BY <1>2 DEF ReleaseDel, ReleasePop, At, DelLeaseKey, DelRevokeMeta
<1>4. PICK l \in {"lMeta", "lCount"} : Goto(p, l) /\ (l = "lMeta" <=> r.pc = "lDel")
  BY <1>3
<1>5. PICK next : next = [r EXCEPT !.pc = l]
  OBVIOUS
<1>6. /\ Become(p, next) /\ next.pc = l /\ next.user = u /\ next.before = r.before
      /\ next.cur = r.cur /\ next.sess = r.sess
  BY <1>1, <1>2, <1>4, <1>5 DEF Request, Goto
<1>7. \A v \in User : lease'[v] \in {lease[v], None} /\ meta'[v] \in {meta[v], None}
  BY <1>3 DEF TypeOK, StoreTypeOK
<1>8. l = "lMeta" => lease'[u] = None
  BY <1>1, <1>2, <1>3, <1>4 DEF TypeOK, StoreTypeOK
<1>9. \A v \in User, s \in Session : Recorded(v, s)' => Recorded(v, s)
  <2>1. \A v \in User, s \in Session : Names(lease'[v], s) \/ Names(meta'[v], s) => Recorded(v, s)
    BY <1>7 DEF Recorded, Names
  <2>2. \A s : Carries(next, s) => Carries(r, s)
    BY <1>1, <1>4, <1>6 DEF Carries
  <2>3. \A s \in Session, v \in User : next.user = v /\ Carries(next, s) => Recorded(v, s)
    BY <1>2, <1>6, <2>2 DEF Recorded
  <2> QED
    BY <1>6, <2>1, <2>3, RecordedBefore
<1>10. Knows(r) /\ LeasesAlive
  BY DEF LoginInv
<1>11. LeasesAlive'
  BY <1>1, <1>7, <1>10 DEF LeasesAlive
<1>12. l = "lCount" => lease'[u] = None
  BY <1>1, <1>2, <1>3, <1>4, <1>10 DEF Knows
<1>13. Knows(next)'
  BY <1>1, <1>6, <1>8, <1>10, <1>12 DEF Knows
<1>14. minted' \in [Account -> Nat] /\ \A a \in Account : minted[a] <= minted'[a]
  BY <1>1, SessionTypes
<1> QED
  BY <1>1, <1>6, <1>9, <1>11, <1>13, <1>14, MovesKeep

\* The target of a release is what the lease, or the meta, has recorded.
LEMMA TargetKeeps ==
  ASSUME Alone, TypeOK, LoginInv, NEW p \in Proc, ReleaseMeta(p)
  PROVE  LoginInv'
<1> DEFINE r == req[p]
<1>1. /\ r \in Request /\ r.pc = "lMeta" /\ UNCHANGED <<live, minted, granted>>
      /\ r.user \in User
  BY Locals DEF ReleaseMeta, At
<1>2. CASE Resume(p, r) /\ UNCHANGED <<lease, meta>>
  <2>1. r.ret \in Continuation
    BY <1>1 DEF Request
  <2> QED
    BY <1>1, <1>2, <2>1, ResumeStill
<1>3. PICK u : u = r.user
  OBVIOUS
<1>4. ASSUME NEW m, NEW l \in {"lCount", "lPop"}, lease' = lease,
             meta' \in {meta, [meta EXCEPT ![u] = None]},
             m # None, m = r.cur \/ m = meta[u],
             Become(p, [r EXCEPT !.pc = l, !.acct = m.acct, !.sess = m.sess])
      PROVE  LoginInv'
  <2>1. PICK next : next = [r EXCEPT !.pc = l, !.acct = m.acct, !.sess = m.sess]
    OBVIOUS
  <2>2. /\ Become(p, next) /\ next.pc = l /\ next.user = u /\ next.before = r.before
        /\ next.sess = m.sess
    BY <1>1, <1>3, <1>4, <2>1 DEF Request
  <2>3. \A v \in User : lease'[v] = lease[v] /\ meta'[v] \in {meta[v], None}
    BY <1>4 DEF TypeOK, StoreTypeOK
  <2>4. \A s : m.sess = s => Recorded(u, s)
    <3>1. \A s : m.sess = s => Names(m, s)
      BY <1>4 DEF Names
    <3>2. CASE m = meta[u]
      BY <3>1, <3>2 DEF Recorded
    <3>3. CASE m = r.cur
      <4>1. \A s : m.sess = s => Carries(r, s)
        BY <1>1, <3>1, <3>3 DEF Carries
      <4> QED
        BY <1>3, <4>1 DEF Recorded
    <3> QED
      BY <1>4, <3>2, <3>3
  <2>5. \A v \in User, s \in Session : Recorded(v, s)' => Recorded(v, s)
    <3>1. \A v \in User, s \in Session : Names(lease'[v], s) \/ Names(meta'[v], s) => Recorded(v, s)
      BY <2>3 DEF Recorded, Names
    <3>2. \A s \in Session, v \in User : next.user = v /\ Carries(next, s) => Recorded(v, s)
      BY <1>4, <2>2, <2>4 DEF Carries
    <3> QED
      BY <2>2, <3>1, <3>2, RecordedBefore
  <2>6. Knows(r) /\ LeasesAlive
    BY DEF LoginInv
  <2>7. LeasesAlive' /\ lease'[u] = None
    BY <1>1, <1>3, <1>4, <2>6 DEF LeasesAlive, Knows
  <2>8. Knows(next)'
    BY <1>1, <1>4, <2>2, <2>6, <2>7 DEF Knows
  <2>9. minted' \in [Account -> Nat] /\ \A a \in Account : minted[a] <= minted'[a]
    BY <1>1, SessionTypes
  <2> QED
    BY <1>1, <2>2, <2>5, <2>7, <2>8, <2>9, MovesKeep
<1>5. \/ Resume(p, r) /\ UNCHANGED <<lease, meta>>
      \/ /\ r.cur # None /\ DelRevokeMeta(u)
         /\ Become(p, [r EXCEPT !.pc = "lCount", !.acct = r.cur.acct, !.sess = r.cur.sess])
      \/ /\ meta[u] # None /\ UNCHANGED <<lease, meta>>
         /\ Become(p, [r EXCEPT !.pc = "lPop", !.acct = meta[u].acct, !.sess = meta[u].sess])
  BY <1>3 DEF ReleaseMeta
<1>6. CASE /\ r.cur # None /\ DelRevokeMeta(u)
           /\ Become(p, [r EXCEPT !.pc = "lCount", !.acct = r.cur.acct, !.sess = r.cur.sess])
  BY <1>4, <1>6 DEF DelRevokeMeta
<1>7. CASE /\ meta[u] # None /\ UNCHANGED <<lease, meta>>
           /\ Become(p, [r EXCEPT !.pc = "lPop", !.acct = meta[u].acct, !.sess = meta[u].sess])
  BY <1>4, <1>7
<1> QED
  BY <1>2, <1>5, <1>6, <1>7

LEMMA CountKeeps ==
  ASSUME Alone, TypeOK, LoginInv, NEW p \in Proc, ReleaseCount(p)
  PROVE  LoginInv'
<1> DEFINE r == req[p]
<1>1. /\ r \in Request /\ r.pc = "lCount" /\ UNCHANGED <<live, minted, lease, meta, granted>>
  BY Locals DEF ReleaseCount, At
<1>2. PICK next : next = [r EXCEPT !.pc = "lRevoke", !.last = Holders(r.acct) = {}]
  OBVIOUS
<1>3. /\ Become(p, next) /\ next.pc = "lRevoke" /\ next.user = r.user /\ next.before = r.before
      /\ next.sess = r.sess
  BY <1>1, <1>2 DEF Request, ReleaseCount
<1>4. \A v \in User, s \in Session : Recorded(v, s)' => Recorded(v, s)
  <2>1. \A v \in User, s \in Session : Names(lease'[v], s) \/ Names(meta'[v], s) => Recorded(v, s)
    BY <1>1 DEF Recorded
  <2>2. \A s : Carries(next, s) => Carries(r, s)
    BY <1>1, <1>3 DEF Carries
  <2>3. \A s \in Session, v \in User : next.user = v /\ Carries(next, s) => Recorded(v, s)
    BY <1>3, <2>2 DEF Recorded
  <2> QED
    BY <1>3, <2>1, <2>3, RecordedBefore
<1>5. Knows(r) /\ LeasesAlive
  BY DEF LoginInv
<1>6. PICK u : u = r.user
  OBVIOUS
<1>7. next.user = u /\ lease'[u] = None
  BY <1>1, <1>3, <1>5, <1>6 DEF Knows
<1>8. Knows(next)'
  BY <1>1, <1>3, <1>5, <1>7 DEF Knows
<1>9. LeasesAlive' /\ minted' \in [Account -> Nat] /\ \A a \in Account : minted[a] <= minted'[a]
  BY <1>1, <1>5, SessionTypes DEF LeasesAlive
<1> QED
  BY <1>1, <1>3, <1>4, <1>8, <1>9, MovesKeep

\* The session that is revoked stands for no lease any more.
LEMMA RevokeKeepsAlive ==
  ASSUME Alone, TypeOK, LoginInv, NEW p \in Proc, At(p, "lRevoke"), req[p].user \in User,
         Revoke(req[p].sess), UNCHANGED lease
  PROVE  LeasesAlive'
<1> DEFINE r == req[p]
<1>1. ASSUME NEW v \in User, lease[v] # None, lease[v].sess # None
      PROVE  lease[v].sess # r.sess
  <2>1. SUFFICES ASSUME lease[v].sess = r.sess PROVE FALSE
    OBVIOUS
  <2>2. r.sess \in Session
    <3>1. lease[v] \in Lease
      BY <1>1, SessionTypes
    <3> QED
      BY <1>1, <2>1, <3>1 DEF Lease, MaybeSession
  <2>3. Recorded(v, r.sess)
    BY <1>1, <2>1 DEF Recorded, Names
  <2>4. Recorded(r.user, r.sess)
    BY DEF At, Recorded, Carries
  <2>5. v = r.user
    BY <2>2, <2>3, <2>4 DEF LoginInv, OfOneRenter
  <2> QED
    BY <1>1, <2>5 DEF LoginInv, Knows, At
<1> QED
  BY <1>1 DEF LoginInv, LeasesAlive, Revoke

LEMMA RevocationKeeps ==
  ASSUME Alone, TypeOK, LoginInv, NEW p \in Proc, ReleaseRevoke(p)
  PROVE  LoginInv'
<1> DEFINE r == req[p]
<1>1. /\ r \in Request /\ r.pc = "lRevoke" /\ UNCHANGED <<lease, meta, granted>>
      /\ r.user \in User /\ r.ret \in Continuation
  BY Locals DEF ReleaseRevoke, At, Request
<1>2. \/ UNCHANGED <<live, minted>>
      \/ Revoke(r.sess)
  BY DEF ReleaseRevoke
<1>3. LeasesAlive'
  BY <1>1, <1>2, RevokeKeepsAlive DEF LoginInv, LeasesAlive, At
<1>4. minted' \in [Account -> Nat] /\ \A a \in Account : minted[a] <= minted'[a]
  BY <1>2, SessionTypes DEF Revoke
<1>5. \E next : Become(p, next) /\ next.pc \notin Holding /\ next.before \subseteq r.before
  <2>1. CASE Finish(p)
    <3>1. Idle.pc \notin Holding /\ Idle.before = {}
      BY DEF Idle, Holding
    <3> QED
      BY <2>1, <3>1 DEF Finish
  <2>2. CASE Resume(p, r)
    BY <1>1, <2>2, ResumeTo
  <2>3. CASE Goto(p, "lRotate")
    <3>1. PICK next : next = [r EXCEPT !.pc = "lRotate"]
      OBVIOUS
    <3>2. next.pc = "lRotate" /\ next.before = r.before
      BY <1>1, <3>1 DEF Request
    <3> QED
      BY <2>3, <3>1, <3>2 DEF Goto, Holding
  <2> QED
    BY <2>1, <2>2, <2>3 DEF ReleaseRevoke
<1>6. PICK next : Become(p, next) /\ next.pc \notin Holding /\ next.before \subseteq r.before
  BY <1>5
<1>7. \A s \in next.before : s \in Session /\ s.n <= minted[s.acct]
  BY <1>1, <1>6 DEF LoginInv, Knows, Request
<1> QED
  BY <1>1, <1>3, <1>4, <1>6, <1>7, QuietKeeps

LEMMA RotationKeeps ==
  ASSUME Alone, TypeOK, LoginInv, NEW p \in Proc, ReleaseRotate(p) \/ ReleaseStore(p)
  PROVE  LoginInv'
<1> DEFINE r == req[p]
<1>1. /\ r \in Request /\ UNCHANGED <<lease, meta, granted>> /\ r.ret \in Continuation
  BY Locals DEF ReleaseRotate, ReleaseStore, Request
<1>2. CASE UNCHANGED <<live, minted>> /\ Resume(p, r)
  BY <1>1, <1>2, ResumeStill
<1>3. CASE /\ At(p, "lRotate") /\ Mint(r.acct)
           /\ Become(p, [r EXCEPT !.pc = "lStore", !.mint = NextSession(r.acct)])
  <2>1. r.acct \in Account
    BY <1>1, <1>3 DEF At, Request, TypeOK, ServiceTypeOK, Bound
  <2>2. /\ minted' \in [Account -> Nat] /\ \A b \in Account : minted[b] <= minted'[b]
        /\ live \subseteq live'
    BY <1>3, <2>1, MintGrows
  <2>3. PICK next : next = [r EXCEPT !.pc = "lStore", !.mint = NextSession(r.acct)]
    OBVIOUS
  <2>4. Become(p, next) /\ next.pc = "lStore" /\ next.before = r.before
    BY <1>1, <1>3, <2>3 DEF Request
  <2>5. \A s \in next.before : s \in Session /\ s.n <= minted[s.acct]
    BY <1>1, <2>4 DEF LoginInv, Knows, Request
  <2>6. LeasesAlive'
    BY <1>1, <2>2, LeasesStayAlive DEF LoginInv
  <2> QED
    BY <1>1, <2>2, <2>4, <2>5, <2>6, QuietKeeps DEF Holding
<1>4. \/ UNCHANGED <<live, minted>> /\ Resume(p, r)
      \/ /\ At(p, "lRotate") /\ Mint(r.acct)
         /\ Become(p, [r EXCEPT !.pc = "lStore", !.mint = NextSession(r.acct)])
  BY DEF ReleaseRotate, ReleaseStore
<1> QED
  BY <1>2, <1>3, <1>4

-----------------------------------------------------------------------------
LEMMA LoopKeeps ==
  ASSUME Alone, TypeOK, LoginInv, NEW p \in Proc,
         SweepLease(p) \/ SweepCheck(p) \/ SweepOrphan(p) \/ RemoveNext(p)
  PROVE  LoginInv'
<1> DEFINE r == req[p]
<1>1. /\ r \in Request /\ UNCHANGED <<live, minted, lease, meta, granted>> /\ r.ret \in Continuation
  BY Locals DEF SweepLease, SweepCheck, SweepOrphan, RemoveNext, Request
<1>2. CASE Finish(p) \/ Goto(p, "lGet") \/ Resume(p, r)
  BY <1>1, <1>2, FinishStill, GotoStill, ResumeStill DEF Holding
<1>3. CASE Become(p, [Idle EXCEPT !.pc = "wOrphan", !.ret = "wOrphan", !.todo = OrphanUsers])
  <2>1. PICK next : next = [Idle EXCEPT !.pc = "wOrphan", !.ret = "wOrphan", !.todo = OrphanUsers]
    OBVIOUS
  <2>2. next.pc = "wOrphan" /\ next.before = {}
    BY <2>1 DEF Idle
  <2> QED
    BY <1>1, <1>3, <2>1, <2>2, StillKeeps DEF Holding
<1>4. ASSUME NEW u,
             \/ r.pc = "wLease" /\ Become(p, [r EXCEPT !.todo = @ \ {u}])
             \/ Become(p, [r EXCEPT !.pc = "wCheck", !.todo = @ \ {u}, !.user = u, !.cur = lease[u]])
             \/ Become(p, [r EXCEPT !.pc = "lGet", !.user = u, !.todo = @ \ {u}])
      PROVE  LoginInv'
  <2>1. PICK x, y, z : /\ x = [r EXCEPT !.todo = @ \ {u}]
                       /\ y = [r EXCEPT !.pc = "wCheck", !.todo = @ \ {u}, !.user = u, !.cur = lease[u]]
                       /\ z = [r EXCEPT !.pc = "lGet", !.user = u, !.todo = @ \ {u}]
    OBVIOUS
  <2>2. /\ x.pc = r.pc /\ y.pc = "wCheck" /\ z.pc = "lGet"
        /\ x.before = r.before /\ y.before = r.before /\ z.before = r.before
    BY <1>1, <2>1 DEF Request
  <2>3. \E next : Become(p, next) /\ next.pc \in {"wLease", "wCheck", "lGet"} /\ next.before = r.before
    BY <1>4, <2>1, <2>2
  <2> QED
    BY <1>1, <2>3, StillKeeps DEF Holding
<1>5. \/ Finish(p) \/ Goto(p, "lGet") \/ Resume(p, r)
      \/ Become(p, [Idle EXCEPT !.pc = "wOrphan", !.ret = "wOrphan", !.todo = OrphanUsers])
      \/ \E u :
             \/ r.pc = "wLease" /\ Become(p, [r EXCEPT !.todo = @ \ {u}])
             \/ Become(p, [r EXCEPT !.pc = "wCheck", !.todo = @ \ {u}, !.user = u, !.cur = lease[u]])
             \/ Become(p, [r EXCEPT !.pc = "lGet", !.user = u, !.todo = @ \ {u}])
  <2>1. ASSUME SweepLease(p)
        PROVE  \/ Become(p, [Idle EXCEPT !.pc = "wOrphan", !.ret = "wOrphan", !.todo = OrphanUsers])
               \/ \E u :
                     \/ r.pc = "wLease" /\ Become(p, [r EXCEPT !.todo = @ \ {u}])
                     \/ Become(p, [r EXCEPT !.pc = "wCheck", !.todo = @ \ {u}, !.user = u, !.cur = lease[u]])
    BY <2>1 DEF SweepLease, At
  <2> QED
    BY <2>1 DEF SweepCheck, SweepOrphan, RemoveNext
<1> QED
  BY <1>2, <1>3, <1>4, <1>5

LEMMA BeginKeeps ==
  ASSUME Alone, TypeOK, LoginInv, NEW p \in Proc, Start(p) \/ RemoveList(p)
  PROVE  LoginInv'
<1>1. UNCHANGED <<live, minted, lease, meta, granted>>
  BY DEF Start, StartAcquire, StartRotate, StartRenew, StartStatus, StartRelease,
     StartRemove, StartSweep, RemoveList
<1>2. \E r : r.before = {} /\ r.pc \notin Holding /\ Become(p, r)
  <2>1. ASSUME NEW l \in {"aRead", "nRead", "sRead", "lGet"}, NEW u
        PROVE  LET r == [Idle EXCEPT !.pc = l, !.user = u] IN r.before = {} /\ r.pc \notin Holding
    BY DEF Idle, Holding
  <2>2. ASSUME NEW u
        PROVE  LET r == [Idle EXCEPT !.pc = "sRead", !.ret = "aRead", !.user = u,
                                     !.force = TRUE]
               IN r.before = {} /\ r.pc \notin Holding
    BY DEF Idle, Holding
  <2>3. ASSUME NEW a
        PROVE  LET r == [Idle EXCEPT !.pc = "xList", !.acct = a]
               IN r.before = {} /\ r.pc \notin Holding
    BY DEF Idle, Holding
  <2>4. ASSUME NEW l \in {"wLease", "xNext"}, NEW s
        PROVE  LET r == [Idle EXCEPT !.pc = l, !.ret = l, !.todo = s]
               IN r.before = {} /\ r.pc \notin Holding
    BY DEF Idle, Holding
  <2> QED
    BY <2>1, <2>2, <2>3, <2>4
    DEF Start, StartAcquire, StartRotate, StartRenew, StartStatus, StartRelease,
        StartRemove, StartSweep, RemoveList
<1> QED
  BY <1>1, <1>2, StillKeeps

\* What happens around the handlers takes away records, and adds sessions.
LEMMA AroundKeeps ==
  ASSUME TypeOK, LoginInv, UNCHANGED <<req, granted>>,
         \A u \in User : lease'[u] \in {lease[u], None} /\ meta'[u] \in {meta[u], None},
         live \subseteq live', minted' \in [Account -> Nat],
         \A a \in Account : minted[a] <= minted'[a]
  PROVE  LoginInv'
<1>1. ASSUME NEW u \in User, NEW s, Recorded(u, s)' PROVE Recorded(u, s)
  <2>1. \/ Names(lease'[u], s) \/ Names(meta'[u], s)
        \/ \E q \in Proc : req[q].user = u /\ Carries(req[q], s)
    BY <1>1 DEF Recorded, Names, Carries
  <2> QED
    BY <2>1 DEF Recorded, Names
<1>2. ASSUME NEW s \in Session, s.n <= minted[s.acct] PROVE s.n <= minted'[s.acct]
  <2>1. s.acct \in Account /\ s.n \in Nat /\ minted \in [Account -> Nat]
    BY SessionTypes
  <2> QED
    BY <1>2, <2>1
<1>3. OfOneRenter' /\ Opened' /\ LeasesAlive'
  BY <1>1, <1>2 DEF LoginInv, OfOneRenter, Opened, LeasesAlive
<1>4. ASSUME NEW q \in Proc PROVE Knows(req[q])'
  <2>1. PICK r : r = req[q]
    OBVIOUS
  <2>2. r \in Request /\ Bound(r) /\ Knows(r) /\ req'[q] = r
    BY <2>1 DEF LoginInv, TypeOK, ServiceTypeOK
  <2>3. r.pc \in {"aStore", "aResolve"} => Youngest(r.mint)'
    <3>1. CASE r.pc \in {"aStore", "aResolve"}
      <4>1. PICK m : m = r.mint
        OBVIOUS
      <4>2. Youngest(m)
        BY <2>2, <3>1, <4>1 DEF Knows
      <4>3. Youngest(m)'
        BY <1>1, <4>2 DEF Youngest
      <4> QED
        BY <4>1, <4>3
    <3> QED
      BY <3>1
  <2>4. r.pc \in {"aLease", "aMeta", "aDone"} =>
          /\ r.mint.n <= minted'[r.mint.acct]
          /\ \A v \in User \ {r.user} : ~Recorded(v, r.mint)'
    <3>1. CASE r.pc \in {"aLease", "aMeta", "aDone"}
      <4>1. r.mint \in Session
        BY <2>2, <3>1 DEF Request, Bound, MaybeSession
      <4>2. PICK m : m = r.mint
        OBVIOUS
      <4>3. \A v \in User \ {r.user} : ~Recorded(v, m)'
        BY <1>1, <2>2, <3>1, <4>2 DEF Knows
      <4> QED
        BY <1>2, <2>2, <3>1, <4>1, <4>2, <4>3 DEF Knows
    <3> QED
      BY <3>1
  <2>5. \A s \in r.before : s.n <= minted'[s.acct]
    BY <1>2, <2>2 DEF Knows, Request
  <2>6. r.pc \in {"lMeta", "lPop", "lCount", "lRevoke"} => lease'[r.user] = None
    <3>1. r.pc \in {"lMeta", "lPop", "lCount", "lRevoke"} => r.user \in User
      BY <2>1, <2>2, Locals
    <3> QED
      BY <2>2, <3>1 DEF Knows
  <2>7. Knows(r)'
    BY <2>2, <2>3, <2>4, <2>5, <2>6 DEF Knows
  <2> QED
    BY <2>2, <2>7 DEF Knows
<1> QED
  BY <1>3, <1>4 DEF LoginInv

LEMMA AroundLogin ==
  ASSUME Alone, TypeOK, LoginInv, Environment
  PROVE  LoginInv'
<1> USE SessionTypes
<1>1. ASSUME NEW p \in Proc, Crash(p) PROVE LoginInv'
  BY <1>1, FinishStill DEF Crash
<1>2. ASSUME NEW u \in User, Expire(u) \/ ExpireMeta(u) PROVE LoginInv'
  <2>1. /\ UNCHANGED <<req, granted, live, minted>>
        /\ \A v \in User : lease'[v] \in {lease[v], None} /\ meta'[v] \in {meta[v], None}
    BY <1>2 DEF Expire, ExpireMeta, DelLeaseKey, DelRevokeMeta, TypeOK, StoreTypeOK
  <2> QED
    BY <2>1, AroundKeeps
<1>3. ASSUME NEW a \in Account, SyncToken(a) PROVE LoginInv'
  <2>1. Mint(a) /\ UNCHANGED <<lease, meta, req, granted>>
    BY <1>3 DEF SyncToken
  <2>2. /\ minted' \in [Account -> Nat] /\ \A b \in Account : minted[b] <= minted'[b]
        /\ live \subseteq live'
    BY <2>1, MintGrows
  <2> QED
    BY <2>1, <2>2, AroundKeeps
<1>4. ASSUME NEW a \in Account,
             \/ EndCycle(a) \/ RefreshCycle(a) \/ Unbind(a)
             \/ SetEnabled(a) \/ AddMember(a) \/ CloseCircuit(a) \/ Rebind(a)
      PROVE  LoginInv'
  <2>1. UNCHANGED <<live, minted, lease, meta, req, granted>>
    BY <1>4 DEF EndCycle, RefreshCycle, Unbind, SetEnabled, AddMember, CloseCircuit, Rebind
  <2> QED
    BY <2>1, AroundKeeps
<1> QED
  BY <1>1, <1>2, <1>3, <1>4 DEF Environment

-----------------------------------------------------------------------------
LEMMA LoginInit == Init => LoginInv
<1> SUFFICES ASSUME Init PROVE LoginInv
  OBVIOUS
<1>1. /\ req = [p \in Proc |-> Idle] /\ lease = [u \in User |-> None]
      /\ meta = [u \in User |-> None] /\ granted = [u \in User |-> {}]
  BY DEF Init, StoreInit
<1>2. Idle.pc = "idle" /\ Idle.before = {}
  BY DEF Idle
<1>3. \A u \in User : \A s : ~Recorded(u, s) /\ s \notin granted[u]
  BY <1>1, <1>2 DEF Recorded, Names, Carries
<1>4. \A p \in Proc : Knows(req[p])
  BY <1>1, <1>2 DEF Knows
<1> QED
  BY <1>1, <1>3, <1>4 DEF LoginInv, OfOneRenter, Opened, LeasesAlive

LEMMA LoginStep ==
  ASSUME Alone, TypeOK, LoginInv, [Next]_vars
  PROVE  LoginInv'
<1>1. CASE UNCHANGED vars
  BY <1>1, AroundKeeps, SessionTypes DEF vars
<1>2. CASE Environment
  BY <1>2, AroundLogin
<1>3. ASSUME NEW p \in Proc, Start(p) PROVE LoginInv'
  BY <1>3, BeginKeeps
<1>4. ASSUME NEW p \in Proc, Continue(p) PROVE LoginInv'
  BY <1>4, BeginKeeps, ChoiceKeeps, RefreshKeeps, StoreKeeps, ResolveKeeps, SetLeaseKeeps,
     SetMetaKeeps, GrantKeeps, RenewKeeps, CheckKeepsLogin, RenewalKeeps, DelKeeps, TargetKeeps,
     CountKeeps, RevocationKeeps, RotationKeeps, LoopKeeps
  DEF Continue
<1> QED
  BY <1>1, <1>2, <1>3, <1>4 DEF Next

LEMMA LoginInvariant == ASSUME Alone PROVE Spec => [](TypeOK /\ LoginInv)
<1>1. Init => TypeOK /\ LoginInv
  BY InitTyped, LoginInit
<1>2. TypeOK /\ LoginInv /\ [Next]_vars => (TypeOK /\ LoginInv)'
  BY StepTyped, LoginStep
<1> QED
  BY <1>1, <1>2, PTL DEF Spec

\* While one handler runs at a time, the login of a lease works as long as the
\* lease does, whatever else happens: leases expire, syncs mint sessions, calls to
\* Cursor fail and processes die between any two steps (acquire, renew, release).
THEOREM LeaseLoginsLive == ASSUME Alone PROVE Spec => []LeaseLoginAlive
<1>1. LoginInv => LeaseLoginAlive
  BY DEF LoginInv, LeasesAlive, LeaseLoginAlive
<1> QED
  BY <1>1, LoginInvariant, PTL

\* What takes a session away is a revocation.
LEMMA LiveGrows ==
  ASSUME [Next]_vars
  PROVE  \/ live \subseteq live'
         \/ \E p \in Proc : ReleaseRevoke(p) /\ Revoke(req[p].sess)
<1>1. ASSUME Environment PROVE live \subseteq live'
  BY <1>1 DEF Environment, Expire, ExpireMeta, EndCycle, RefreshCycle, SyncToken, Unbind,
     SetEnabled, AddMember, CloseCircuit, Rebind, Crash, Mint
<1>2. ASSUME NEW p \in Proc, Start(p) PROVE live \subseteq live'
  BY <1>2 DEF Start, StartAcquire, StartRotate, StartRenew, StartStatus, StartRelease,
     StartRemove, StartSweep
<1>3. ASSUME NEW p \in Proc, Continue(p), ~ReleaseRevoke(p) PROVE live \subseteq live'
  BY <1>3 DEF Continue, AcquireRead, AcquireSelect, AcquireCount, AcquireSnapshot,
     AcquireRefresh, AcquireStore, AcquireFail, AcquireResolve, AcquireSetLease,
     AcquireSetMeta, AcquireDone, RenewRead, RenewMeta, RenewCheck, RenewSetLease,
     RenewSetMeta, StatusRead, StatusMeta, StatusCheck, ReleaseGet, ReleaseDel,
     ReleaseMeta, ReleasePop, ReleaseCount, ReleaseRotate, ReleaseStore, SweepLease,
     SweepCheck, SweepOrphan, RemoveList, RemoveNext, Mint
<1>4. ASSUME NEW p \in Proc, ReleaseRevoke(p), ~(live \subseteq live')
      PROVE  Revoke(req[p].sess)
  BY <1>4 DEF ReleaseRevoke
<1> QED
  BY <1>1, <1>2, <1>3, <1>4 DEF Next, vars

\* What kills a session is the release for the renter it was handed to.
LEMMA OnlyItsRelease ==
  ASSUME Alone, TypeOK, LoginInv, [Next]_vars,
         NEW s \in live \ live', NEW v \in User, s \in granted[v]
  PROVE  \E p \in Proc : Moved(p) /\ req[p].user = v
<1>1. PICK p \in Proc : ReleaseRevoke(p) /\ Revoke(req[p].sess)
  BY LiveGrows
<1> DEFINE r == req[p]
<1>2. r \in Request /\ r.pc = "lRevoke" /\ r.user \in User /\ r.ret \in Continuation
  BY <1>1, Locals DEF ReleaseRevoke, At, Request
<1>3. s = r.sess /\ s \in Session
  BY <1>1, SessionTypes DEF Revoke
<1>4. Recorded(r.user, s)
  BY <1>2, <1>3 DEF Recorded, Carries
<1>5. r.user = v
  BY <1>2, <1>3, <1>4 DEF LoginInv, OfOneRenter
<1>6. Moved(p)
  <2>1. \E next : Become(p, next) /\ next.pc # "lRevoke"
    <3>1. CASE Finish(p)
      BY <3>1 DEF Finish, Idle
    <3>2. CASE Resume(p, r)
      BY <1>2, <3>2, ResumeTo DEF Holding
    <3>3. CASE Goto(p, "lRotate")
      <4>1. PICK next : next = [r EXCEPT !.pc = "lRotate"]
        OBVIOUS
      <4>2. next.pc = "lRotate"
        BY <1>2, <4>1 DEF Request
      <4> QED
        BY <3>3, <4>1, <4>2 DEF Goto
    <3> QED
      BY <1>1, <3>1, <3>2, <3>3 DEF ReleaseRevoke
  <2>2. PICK next : Become(p, next) /\ next.pc # "lRevoke"
    BY <2>1
  <2>3. req'[p] = next
    BY <2>2, AloneBecomes
  <2> QED
    BY <1>2, <2>2, <2>3 DEF Moved
<1> QED
  BY <1>5, <1>6

\* While one handler runs at a time, a session dies only in a release for the
\* renter who was given it: returning, sweeping or removing one lease of a shared
\* account logs out nobody else, whatever fails or crashes meanwhile (release).
THEOREM ReleasesSpareOthers == ASSUME Alone PROVE Spec => ReleaseSparesOthers
<1>1. TypeOK /\ LoginInv /\ [Next]_vars =>
        [\A s \in live \ live', v \in User :
            s \in granted[v] => \E p \in Proc : Moved(p) /\ req[p].user = v]_vars
  BY OnlyItsRelease
<1> QED
  BY <1>1, LoginInvariant, PTL DEF Spec, ReleaseSparesOthers

-----------------------------------------------------------------------------
\* The meta of a lease names its session and account.
Mirrored(u) ==
    lease[u] # None => meta[u] # None /\ meta[u].sess = lease[u].sess /\ meta[u].acct = lease[u].acct

\* A handler between the two writes of set_lease, that is, one whose second
\* write will name what the first one named.
Writing(r) == r.pc \in {"aMeta", "nSetMeta"}

Finishes(r) ==
    /\ r.pc = "aMeta" /\ lease[r.user] # None =>
         lease[r.user].sess = r.sess /\ lease[r.user].acct = r.acct
    /\ r.pc = "nSetMeta" /\ lease[r.user] # None =>
         lease[r.user].sess = r.cur.sess /\ lease[r.user].acct = r.cur.acct
    /\ r.pc \in {"lMeta", "lPop"} => lease[r.user] = None

MirrorInv ==
    /\ \A u \in User : Mirrored(u) \/ \E p \in Proc : req[p].user = u /\ Writing(req[p])
    /\ \A p \in Proc : Finishes(req[p])

\* Where a step takes a handler.
LEMMA Turns ==
  ASSUME TypeOK, NEW p \in Proc
  PROVE  /\ \A r : Become(p, r) => req'[p] = r
         /\ \A l : Goto(p, l) => req'[p].pc = l
         /\ Finish(p) => req'[p].pc = "idle"
         /\ NextCandidate(p, req[p]) => req'[p].pc = "aSelect"
         /\ Resume(p, req[p]) => req'[p].pc = req[p].ret
         /\ \A x : Resume(p, [req[p] EXCEPT !.exclude = x]) => req'[p].pc = req[p].ret
<1>1. req \in [Proc -> Request] /\ req[p] \in Request
  BY DEF TypeOK, ServiceTypeOK
<1>2. \A r : Become(p, r) => req'[p] = r
  BY <1>1 DEF Become
<1>3. \A l : Goto(p, l) => req'[p].pc = l
  BY <1>1, <1>2 DEF Goto, Request
<1>4. Finish(p) => req'[p].pc = "idle"
  BY <1>2 DEF Finish, Idle
<1>5. NextCandidate(p, req[p]) => req'[p].pc = "aSelect"
  BY <1>1, <1>2 DEF NextCandidate, Request
<1>6. ASSUME NEW r, Resume(p, r) PROVE req'[p].pc = r.ret
  <2> DEFINE user == IF r.ret = "aRead" THEN r.user ELSE None
             next == [Idle EXCEPT !.pc = r.ret, !.ret = r.ret, !.todo = r.todo, !.user = user,
                                  !.force = r.force, !.exclude = r.exclude]
  <2>1. Idle.pc = "idle" /\ next.pc = r.ret
    BY DEF Idle
  <2>2. Become(p, IF r.ret = "idle" THEN Idle ELSE next)
    BY <1>6 DEF Resume
  <2> HIDE DEF next
  <2> QED
    BY <1>2, <2>1, <2>2
<1>7. \A x : [req[p] EXCEPT !.exclude = x].ret = req[p].ret
  BY <1>1 DEF Request
<1> QED
  BY <1>2, <1>3, <1>4, <1>5, <1>6, <1>7

\* Where the steps lead that take a handler past no write of the store.
LEMMA Ahead ==
  ASSUME TypeOK, NEW p \in Proc
  PROVE  /\ Start(p) \/ RemoveList(p)
              => req'[p].pc \in {"aRead", "nRead", "sRead", "lGet", "xList", "wLease", "xNext"}
         /\ AcquireRead(p) \/ AcquireSelect(p) \/ AcquireCount(p) \/ AcquireSnapshot(p)
              => req'[p].pc \in {"aSelect", "idle", "aCount", "aSnap", "aFail", "aRefresh"}
         /\ AcquireRefresh(p) \/ AcquireStore(p) \/ AcquireFail(p)
              => req'[p].pc \in {"aSelect", "idle", "aStore", "aFail", "aResolve"}
         /\ AcquireResolve(p) \/ AcquireDone(p)
              => req'[p].pc \in {"aSelect", "idle", "aLease"}
         /\ RenewRead(p) \/ RenewMeta(p) \/ RenewCheck(p)
              => req'[p].pc \in {"idle", "nMeta", "nCheck", "lGet", "nLease"}
         /\ StatusRead(p) \/ StatusMeta(p) \/ StatusCheck(p) \/ ReleaseGet(p)
              => req'[p].pc \in {"sMeta", "sCheck", "lDel", "lGet"} \cup Continuation
         /\ ReleaseCount(p) \/ ReleaseRevoke(p) \/ ReleaseRotate(p) \/ ReleaseStore(p)
              => req'[p].pc \in {"lRevoke", "lRotate", "lStore"} \cup Continuation
         /\ SweepLease(p) \/ SweepCheck(p) \/ SweepOrphan(p) \/ RemoveNext(p)
              => req'[p].pc \in {"wLease", "wCheck", "lGet"} \cup Continuation
<1> DEFINE r == req[p]
<1>1. r \in Request /\ r.ret \in Continuation
  BY Locals DEF Request
<1> USE Turns
<1>2. ASSUME Start(p) \/ RemoveList(p)
      PROVE  req'[p].pc \in {"aRead", "nRead", "sRead", "lGet", "xList", "wLease", "xNext"}
  <2>1. ASSUME NEW u \in User, NEW l, NEW next, next = [Idle EXCEPT !.pc = l, !.user = u],
               Become(p, next)
        PROVE  req'[p].pc = l
    <3>1. next.pc = l
      BY <2>1 DEF Idle
    <3> QED
      BY <2>1, <3>1
  <2>2. ASSUME NEW u \in User, StartRotate(p, u) PROVE req'[p].pc = "sRead"
    <3>1. PICK next : next = [Idle EXCEPT !.pc = "sRead", !.ret = "aRead", !.user = u, !.force = TRUE]
      OBVIOUS
    <3>2. next.pc = "sRead"
      BY <3>1 DEF Idle
    <3>3. Become(p, next)
      BY <2>2, <3>1 DEF StartRotate
    <3> QED
      BY <3>2, <3>3
  <2>3. ASSUME NEW a \in Account, StartRemove(p, a) PROVE req'[p].pc = "xList"
    <3>1. PICK next : next = [Idle EXCEPT !.pc = "xList", !.acct = a]
      OBVIOUS
    <3>2. next.pc = "xList"
      BY <3>1 DEF Idle
    <3>3. Become(p, next)
      BY <2>3, <3>1 DEF StartRemove
    <3> QED
      BY <3>2, <3>3
  <2>4. ASSUME StartSweep(p) PROVE req'[p].pc = "wLease"
    <3>1. PICK next : next = [Idle EXCEPT !.pc = "wLease", !.ret = "wLease", !.todo = LeaseUsers]
      OBVIOUS
    <3>2. next.pc = "wLease"
      BY <3>1 DEF Idle
    <3>3. Become(p, next)
      BY <2>4, <3>1 DEF StartSweep
    <3> QED
      BY <3>2, <3>3
  <2>5. ASSUME RemoveList(p) PROVE req'[p].pc = "xNext"
    <3>1. PICK next : next = [Idle EXCEPT !.pc = "xNext", !.ret = "xNext",
                                          !.todo = Holders(req[p].acct)]
      OBVIOUS
    <3>2. next.pc = "xNext"
      BY <3>1 DEF Idle
    <3>3. Become(p, next)
      BY <2>5, <3>1 DEF RemoveList
    <3> QED
      BY <3>2, <3>3
  <2>6. ASSUME NEW u \in User,
               StartAcquire(p, u) \/ StartRenew(p, u) \/ StartStatus(p, u) \/ StartRelease(p, u)
        PROVE  req'[p].pc \in {"aRead", "nRead", "sRead", "lGet"}
    <3>1. PICK l : /\ l \in {"aRead", "nRead", "sRead", "lGet"}
                   /\ Become(p, [Idle EXCEPT !.pc = l, !.user = u])
      BY <2>6 DEF StartAcquire, StartRenew, StartStatus, StartRelease
    <3> QED
      BY <2>1, <3>1
  <2> QED
    BY <1>2, <2>2, <2>3, <2>4, <2>5, <2>6 DEF Start
<1>3. ASSUME AcquireRead(p) \/ AcquireSelect(p) \/ AcquireCount(p) \/ AcquireSnapshot(p)
      PROVE  req'[p].pc \in {"aSelect", "idle", "aCount", "aSnap", "aFail", "aRefresh"}
  <2>1. CASE AcquireRead(p)
    BY <1>1, <2>1 DEF AcquireRead, Request
  <2>2. CASE AcquireSelect(p)
    BY <1>1, <2>2 DEF AcquireSelect, Request
  <2>3. CASE AcquireCount(p)
    BY <1>1, <2>3 DEF AcquireCount, Request
  <2>4. CASE AcquireSnapshot(p)
    BY <1>1, <2>4 DEF AcquireSnapshot, Request
  <2> QED
    BY <1>3, <2>1, <2>2, <2>3, <2>4
<1>4. ASSUME AcquireRefresh(p) \/ AcquireStore(p) \/ AcquireFail(p)
      PROVE  req'[p].pc \in {"aSelect", "idle", "aStore", "aFail", "aResolve"}
  <2>1. CASE AcquireRefresh(p)
    BY <1>1, <2>1 DEF AcquireRefresh, Request
  <2>2. CASE AcquireStore(p) \/ AcquireFail(p)
    BY <2>2 DEF AcquireStore, AcquireFail
  <2> QED
    BY <1>4, <2>1, <2>2
<1>5. ASSUME AcquireResolve(p) \/ AcquireDone(p)
      PROVE  req'[p].pc \in {"aSelect", "idle", "aLease"}
  <2>1. CASE AcquireResolve(p)
    BY <1>1, <2>1 DEF AcquireResolve, Request
  <2>2. CASE AcquireDone(p)
    BY <2>2 DEF AcquireDone
  <2> QED
    BY <1>5, <2>1, <2>2
<1>6. ASSUME RenewRead(p) \/ RenewMeta(p) \/ RenewCheck(p)
      PROVE  req'[p].pc \in {"idle", "nMeta", "nCheck", "lGet", "nLease"}
  <2>1. CASE RenewRead(p)
    BY <1>1, <2>1 DEF RenewRead, Request
  <2>2. CASE RenewMeta(p) \/ RenewCheck(p)
    BY <2>2 DEF RenewMeta, RenewCheck
  <2> QED
    BY <1>6, <2>1, <2>2
<1>7. ASSUME StatusRead(p) \/ StatusMeta(p) \/ StatusCheck(p) \/ ReleaseGet(p)
      PROVE  req'[p].pc \in {"sMeta", "sCheck", "lDel", "lGet"} \cup Continuation
  <2>1. CASE StatusRead(p) \/ ReleaseGet(p)
    BY <1>1, <2>1 DEF StatusRead, ReleaseGet, Request
  <2>2. CASE StatusMeta(p)
    BY <1>1, <2>2 DEF StatusMeta
  <2>3. CASE StatusCheck(p)
    <3>1. Goto(p, "lGet") \/ Finish(p) \/ \E x : Resume(p, [r EXCEPT !.exclude = x])
      BY <2>3 DEF StatusCheck
    <3> QED
      BY <1>1, <3>1 DEF Continuation
  <2> QED
    BY <1>7, <2>1, <2>2, <2>3
<1>8. ASSUME ReleaseCount(p) \/ ReleaseRevoke(p) \/ ReleaseRotate(p) \/ ReleaseStore(p)
      PROVE  req'[p].pc \in {"lRevoke", "lRotate", "lStore"} \cup Continuation
  <2>1. CASE ReleaseCount(p)
    BY <1>1, <2>1 DEF ReleaseCount, Request
  <2>2. CASE ReleaseRevoke(p)
    <3>1. Goto(p, "lRotate") \/ Finish(p) \/ Resume(p, r)
      BY <2>2 DEF ReleaseRevoke
    <3> QED
      BY <1>1, <3>1 DEF Continuation
  <2>3. CASE ReleaseRotate(p)
    <3>1. \/ Resume(p, r)
          \/ Become(p, [r EXCEPT !.pc = "lStore", !.mint = NextSession(r.acct)])
      BY <2>3 DEF ReleaseRotate
    <3> QED
      BY <1>1, <3>1 DEF Request
  <2>4. CASE ReleaseStore(p)
    BY <1>1, <2>4 DEF ReleaseStore
  <2> QED
    BY <1>8, <2>1, <2>2, <2>3, <2>4
<1>9. ASSUME SweepLease(p) \/ SweepCheck(p) \/ SweepOrphan(p) \/ RemoveNext(p)
      PROVE  req'[p].pc \in {"wLease", "wCheck", "lGet"} \cup Continuation
  <2>1. CASE SweepLease(p)
    <3>1. r.pc = "wLease"
      BY <2>1 DEF SweepLease, At
    <3>2. CASE r.todo = {} /\ Become(p, [Idle EXCEPT !.pc = "wOrphan", !.ret = "wOrphan",
                                                     !.todo = OrphanUsers])
      <4>1. PICK next : next = [Idle EXCEPT !.pc = "wOrphan", !.ret = "wOrphan", !.todo = OrphanUsers]
        OBVIOUS
      <4>2. next.pc = "wOrphan"
        BY <4>1 DEF Idle
      <4> QED
        BY <3>2, <4>1, <4>2 DEF Continuation
    <3>3. ASSUME NEW u, Become(p, [r EXCEPT !.todo = @ \ {u}]) PROVE req'[p].pc = "wLease"
      <4>1. PICK next : next = [r EXCEPT !.todo = @ \ {u}]
        OBVIOUS
      <4>2. next.pc = "wLease"
        BY <1>1, <3>1, <4>1 DEF Request
      <4> QED
        BY <3>3, <4>1, <4>2
    <3>4. ASSUME NEW u, Become(p, [r EXCEPT !.pc = "wCheck", !.todo = @ \ {u}, !.user = u,
                                            !.cur = lease[u]])
          PROVE  req'[p].pc = "wCheck"
      <4>1. PICK next : next = [r EXCEPT !.pc = "wCheck", !.todo = @ \ {u}, !.user = u,
                                         !.cur = lease[u]]
        OBVIOUS
      <4>2. next.pc = "wCheck"
        BY <1>1, <4>1 DEF Request
      <4> QED
        BY <3>4, <4>1, <4>2
    <3> QED
      BY <2>1, <3>2, <3>3, <3>4 DEF SweepLease
  <2>2. CASE SweepCheck(p)
    BY <1>1, <2>2 DEF SweepCheck, Continuation
  <2>3. CASE SweepOrphan(p) \/ RemoveNext(p)
    BY <1>1, <2>3 DEF SweepOrphan, RemoveNext, Request, Continuation
  <2> QED
    BY <1>9, <2>1, <2>2, <2>3
<1> QED
  BY <1>2, <1>3, <1>4, <1>5, <1>6, <1>7, <1>8, <1>9

\* Most steps leave the store alone, and the places of set_lease and release
\* between two of their writes.
Aside(p) ==
    /\ UNCHANGED <<lease, meta>> /\ ~Writing(req[p])
    /\ req'[p].pc \notin {"aMeta", "nSetMeta", "lMeta", "lPop"}

LEMMA AsideSteps ==
  ASSUME TypeOK, NEW p \in Proc
  PROVE  /\ Start(p) \/ RemoveList(p) => Aside(p)
         /\ AcquireRead(p) \/ AcquireSelect(p) \/ AcquireCount(p) \/ AcquireSnapshot(p) => Aside(p)
         /\ AcquireRefresh(p) \/ AcquireStore(p) \/ AcquireFail(p) => Aside(p)
         /\ AcquireResolve(p) \/ AcquireDone(p) => Aside(p)
         /\ RenewRead(p) \/ RenewMeta(p) \/ RenewCheck(p) => Aside(p)
         /\ StatusRead(p) \/ StatusMeta(p) \/ StatusCheck(p) \/ ReleaseGet(p) => Aside(p)
         /\ ReleaseCount(p) \/ ReleaseRevoke(p) \/ ReleaseRotate(p) \/ ReleaseStore(p) => Aside(p)
         /\ SweepLease(p) \/ SweepCheck(p) \/ SweepOrphan(p) \/ RemoveNext(p) => Aside(p)
<1> DEFINE r == req[p]
<1>1. ASSUME Start(p) \/ RemoveList(p) PROVE Aside(p)
  <2>1. UNCHANGED <<lease, meta>> /\ ~Writing(r)
    BY <1>1 DEF Start, StartAcquire, StartRotate, StartRenew, StartStatus, StartRelease,
       StartRemove, StartSweep, RemoveList, Accepts, At, Writing
  <2>2. req'[p].pc \in {"aRead", "nRead", "sRead", "lGet", "xList", "wLease", "xNext"}
    BY <1>1, Ahead
  <2> QED
    BY <2>1, <2>2 DEF Aside
<1>2. ASSUME AcquireRead(p) \/ AcquireSelect(p) \/ AcquireCount(p) \/ AcquireSnapshot(p) PROVE Aside(p)
  <2>1. UNCHANGED <<lease, meta>> /\ ~Writing(r)
    BY <1>2 DEF AcquireRead, AcquireSelect, AcquireCount, AcquireSnapshot, At, Writing
  <2>2. req'[p].pc \in {"aSelect", "idle", "aCount", "aSnap", "aFail", "aRefresh"}
    BY <1>2, Ahead
  <2> QED
    BY <2>1, <2>2 DEF Aside
<1>3. ASSUME AcquireRefresh(p) \/ AcquireStore(p) \/ AcquireFail(p) PROVE Aside(p)
  <2>1. UNCHANGED <<lease, meta>> /\ ~Writing(r)
    BY <1>3 DEF AcquireRefresh, AcquireStore, AcquireFail, At, Writing
  <2>2. req'[p].pc \in {"aSelect", "idle", "aStore", "aFail", "aResolve"}
    BY <1>3, Ahead
  <2> QED
    BY <2>1, <2>2 DEF Aside
<1>4. ASSUME AcquireResolve(p) \/ AcquireDone(p) PROVE Aside(p)
  <2>1. UNCHANGED <<lease, meta>> /\ ~Writing(r)
    BY <1>4 DEF AcquireResolve, AcquireDone, At, Writing
  <2>2. req'[p].pc \in {"aSelect", "idle", "aLease"}
    BY <1>4, Ahead
  <2> QED
    BY <2>1, <2>2 DEF Aside
<1>5. ASSUME RenewRead(p) \/ RenewMeta(p) \/ RenewCheck(p) PROVE Aside(p)
  <2>1. UNCHANGED <<lease, meta>> /\ ~Writing(r)
    BY <1>5 DEF RenewRead, RenewMeta, RenewCheck, At, Writing
  <2>2. req'[p].pc \in {"idle", "nMeta", "nCheck", "lGet", "nLease"}
    BY <1>5, Ahead
  <2> QED
    BY <2>1, <2>2 DEF Aside
<1>6. ASSUME StatusRead(p) \/ StatusMeta(p) \/ StatusCheck(p) \/ ReleaseGet(p) PROVE Aside(p)
  <2>1. UNCHANGED <<lease, meta>> /\ ~Writing(r)
    BY <1>6 DEF StatusRead, StatusMeta, StatusCheck, ReleaseGet, At, Writing
  <2>2. req'[p].pc \in {"sMeta", "sCheck", "lDel", "lGet"} \cup Continuation
    BY <1>6, Ahead
  <2> QED
    BY <2>1, <2>2 DEF Aside, Continuation
<1>7. ASSUME ReleaseCount(p) \/ ReleaseRevoke(p) \/ ReleaseRotate(p) \/ ReleaseStore(p) PROVE Aside(p)
  <2>1. UNCHANGED <<lease, meta>> /\ ~Writing(r)
    BY <1>7 DEF ReleaseCount, ReleaseRevoke, ReleaseRotate, ReleaseStore, At, Writing
  <2>2. req'[p].pc \in {"lRevoke", "lRotate", "lStore"} \cup Continuation
    BY <1>7, Ahead
  <2> QED
    BY <2>1, <2>2 DEF Aside, Continuation
<1>8. ASSUME SweepLease(p) \/ SweepCheck(p) \/ SweepOrphan(p) \/ RemoveNext(p) PROVE Aside(p)
  <2>1. UNCHANGED <<lease, meta>> /\ ~Writing(r)
    BY <1>8 DEF SweepLease, SweepCheck, SweepOrphan, RemoveNext, At, Writing
  <2>2. req'[p].pc \in {"wLease", "wCheck", "lGet"} \cup Continuation
    BY <1>8, Ahead
  <2> QED
    BY <2>1, <2>2 DEF Aside, Continuation
<1> QED
  BY <1>1, <1>2, <1>3, <1>4, <1>5, <1>6, <1>7, <1>8

LEMMA AsideMirrors ==
  ASSUME Alone, TypeOK, MirrorInv, NEW p \in Proc, Aside(p)
  PROVE  MirrorInv'
<1>1. \A q \in Proc : q = p
  BY DEF Alone
<1>2. \A u \in User : Mirrored(u)'
  BY <1>1 DEF MirrorInv, Mirrored, Aside
<1>3. \A q \in Proc : Finishes(req[q])'
  BY <1>1 DEF Aside, Finishes
<1> QED
  BY <1>2, <1>3 DEF MirrorInv

\* A step that writes the store for the renter of its handler.
LEMMA WritesMirror ==
  ASSUME Alone, TypeOK, MirrorInv, NEW p \in Proc, NEW u \in User, req[p].user = u,
         \A v \in User \ {u} : lease'[v] = lease[v] /\ meta'[v] = meta[v],
         Mirrored(u)' \/ (req'[p].user = u /\ Writing(req'[p])),
         Finishes(req[p])'
  PROVE  MirrorInv'
<1>1. \A q \in Proc : q = p
  BY DEF Alone
<1>2. ASSUME NEW v \in User \ {u} PROVE Mirrored(v)'
  BY <1>1 DEF MirrorInv, Mirrored
<1>3. \A q \in Proc : Finishes(req[q])'
  BY <1>1
<1>4. Mirrored(u)' \/ \E q \in Proc : (req[q].user = u /\ Writing(req[q]))'
  BY DEF Writing
<1> QED
  BY <1>2, <1>3, <1>4 DEF MirrorInv

LEMMA SetLeaseMirrors ==
  ASSUME Alone, TypeOK, MirrorInv, NEW p \in Proc, AcquireSetLease(p) \/ RenewSetLease(p)
  PROVE  MirrorInv'
<1> DEFINE r == req[p]
<1>1. r \in Request /\ r.pc \in {"aLease", "nLease"} /\ r.user \in User
  BY Locals DEF AcquireSetLease, RenewSetLease, At
<1>2. CASE Finish(p) /\ UNCHANGED <<lease, meta>>
  BY <1>1, <1>2, Turns, AsideMirrors DEF Aside, Writing
<1>3. CASE Goto(p, "aMeta") /\ SetLeaseKey(r.user, Stamp(r.user, r.acct, r.sess))
  <2>1. PICK u, l : u = r.user /\ l = Stamp(r.user, r.acct, r.sess)
    OBVIOUS
  <2>2. lease' = [lease EXCEPT ![u] = l] /\ meta' = meta /\ l.acct = r.acct /\ l.sess = r.sess
    BY <1>3, <2>1 DEF SetLeaseKey, Stamp
  <2>3. req'[p].pc = "aMeta" /\ req'[p].user = u /\ req'[p].acct = r.acct /\ req'[p].sess = r.sess
    BY <1>1, <1>3, <2>1, Turns DEF Goto, Request
  <2>4. lease'[u] = l /\ \A v \in User \ {u} : lease'[v] = lease[v] /\ meta'[v] = meta[v]
    BY <1>1, <2>1, <2>2 DEF TypeOK, StoreTypeOK
  <2>5. Finishes(req[p])'
    BY <2>2, <2>3, <2>4 DEF Finishes
  <2> QED
    BY <1>1, <2>1, <2>3, <2>4, <2>5, WritesMirror DEF Writing
<1>4. CASE Goto(p, "nSetMeta") /\ SetLeaseKey(r.user, Stamp(r.user, r.cur.acct, r.cur.sess))
  <2>1. PICK u, l : u = r.user /\ l = Stamp(r.user, r.cur.acct, r.cur.sess)
    OBVIOUS
  <2>2. lease' = [lease EXCEPT ![u] = l] /\ meta' = meta /\ l.acct = r.cur.acct /\ l.sess = r.cur.sess
    BY <1>4, <2>1 DEF SetLeaseKey, Stamp
  <2>3. req'[p].pc = "nSetMeta" /\ req'[p].user = u /\ req'[p].cur = r.cur
    BY <1>1, <1>4, <2>1, Turns DEF Goto, Request
  <2>4. lease'[u] = l /\ \A v \in User \ {u} : lease'[v] = lease[v] /\ meta'[v] = meta[v]
    BY <1>1, <2>1, <2>2 DEF TypeOK, StoreTypeOK
  <2>5. Finishes(req[p])'
    BY <2>2, <2>3, <2>4 DEF Finishes
  <2> QED
    BY <1>1, <2>1, <2>3, <2>4, <2>5, WritesMirror DEF Writing
<1> QED
  BY <1>2, <1>3, <1>4 DEF AcquireSetLease, RenewSetLease

LEMMA SetMetaMirrors ==
  ASSUME Alone, TypeOK, MirrorInv, NEW p \in Proc, AcquireSetMeta(p) \/ RenewSetMeta(p)
  PROVE  MirrorInv'
<1> DEFINE r == req[p]
<1>1. r \in Request /\ r.pc \in {"aMeta", "nSetMeta"} /\ r.user \in User
  BY Locals DEF AcquireSetMeta, RenewSetMeta, At
<1>2. PICK u, m : /\ u = r.user
                  /\ m = IF r.pc = "aMeta" THEN [acct |-> r.acct, sess |-> r.sess]
                         ELSE [acct |-> r.cur.acct, sess |-> r.cur.sess]
  OBVIOUS
<1>3. meta' = [meta EXCEPT ![u] = m] /\ lease' = lease
  BY <1>2 DEF AcquireSetMeta, RenewSetMeta, SetRevokeMeta, At
<1>4. m # None
  <2>1. r.pc = "aMeta" => r.acct # None
    BY DEF TypeOK, ServiceTypeOK, Bound
  <2>2. r.pc = "nSetMeta" => r.cur # None
    BY DEF TypeOK, ServiceTypeOK, Bound
  <2>3. m \in RevokeMeta
    BY <1>1, <1>2, <2>1, <2>2 DEF RevokeMeta, Request, Lease
  <2> QED
    BY <2>3, NoneIsNoRecord
<1>5. lease[u] # None => lease[u].sess = m.sess /\ lease[u].acct = m.acct
  <2>1. Finishes(r)
    BY DEF MirrorInv
  <2> QED
    BY <1>1, <1>2, <2>1 DEF Finishes
<1>6. meta'[u] = m /\ \A v \in User \ {u} : lease'[v] = lease[v] /\ meta'[v] = meta[v]
  BY <1>1, <1>2, <1>3 DEF TypeOK, StoreTypeOK
<1>7. Mirrored(u)'
  BY <1>3, <1>4, <1>5, <1>6 DEF Mirrored
<1>8. req'[p].pc \in {"aDone", "sRead"}
  <2>1. [Idle EXCEPT !.pc = "sRead", !.user = r.user].pc = "sRead"
    BY DEF Idle
  <2> QED
    BY <2>1, Turns DEF AcquireSetMeta, RenewSetMeta
<1>9. Finishes(req[p])'
  BY <1>8 DEF Finishes
<1> QED
  BY <1>1, <1>2, <1>6, <1>7, <1>9, WritesMirror

LEMMA DelMirrors ==
  ASSUME Alone, TypeOK, MirrorInv, NEW p \in Proc, ReleaseDel(p) \/ ReleaseMeta(p) \/ ReleasePop(p)
  PROVE  MirrorInv'
<1> DEFINE r == req[p]
<1>1. r \in Request /\ r.pc \in {"lDel", "lMeta", "lPop"} /\ r.user \in User /\ r.ret \in Continuation
  BY Locals DEF ReleaseDel, ReleaseMeta, ReleasePop, At, Request
<1>2. PICK u : u = r.user
  OBVIOUS
<1>3. /\ lease' = (IF r.pc = "lDel" THEN [lease EXCEPT ![u] = None] ELSE lease)
      /\ meta' \in {meta, [meta EXCEPT ![u] = None]}
  BY <1>2 DEF ReleaseDel, ReleaseMeta, ReleasePop, At, DelLeaseKey, DelRevokeMeta
<1>4. lease'[u] = None /\ \A v \in User \ {u} : lease'[v] = lease[v] /\ meta'[v] = meta[v]
  <2>1. r.pc \in {"lMeta", "lPop"} => lease[u] = None
    BY <1>2 DEF MirrorInv, Finishes
  <2> QED
    BY <1>1, <1>2, <1>3, <2>1 DEF TypeOK, StoreTypeOK
<1>5. /\ req'[p].pc \in {"lMeta", "lPop", "lCount"} \cup Continuation
      /\ req'[p].pc \in {"lMeta", "lPop"} => req'[p].user = u
  <2>1. CASE ReleaseDel(p) \/ ReleasePop(p)
    <3>1. PICK l : l \in {"lMeta", "lCount"} /\ Become(p, [r EXCEPT !.pc = l])
      BY <2>1 DEF ReleaseDel, ReleasePop, Goto
    <3>2. [r EXCEPT !.pc = l].user = u /\ [r EXCEPT !.pc = l].pc = l
      BY <1>1, <1>2 DEF Request
    <3>3. req'[p] = [r EXCEPT !.pc = l]
      BY <3>1, Turns
    <3> QED
      BY <3>1, <3>2, <3>3
  <2>2. CASE Resume(p, r)
    BY <1>1, <2>2, Turns DEF Continuation
  <2>3. ASSUME NEW m, NEW l \in {"lCount", "lPop"},
               Become(p, [r EXCEPT !.pc = l, !.acct = m.acct, !.sess = m.sess])
        PROVE  req'[p].pc = l /\ req'[p].user = u
    BY <1>1, <1>2, <2>3, Turns DEF Request
  <2> QED
    BY <2>1, <2>2, <2>3 DEF ReleaseMeta
<1>6. Mirrored(u)'
  BY <1>4 DEF Mirrored
<1>7. Finishes(req[p])'
  BY <1>4, <1>5 DEF Finishes, Continuation
<1> QED
  BY <1>1, <1>2, <1>4, <1>6, <1>7, WritesMirror

LEMMA AroundMirrors ==
  ASSUME TypeOK, MirrorInv, "crash" \notin Env, Environment \/ UNCHANGED vars
  PROVE  MirrorInv'
<1>1. req' = req
  BY DEF Environment, Expire, ExpireMeta, EndCycle, RefreshCycle, SyncToken, Unbind,
     SetEnabled, AddMember, CloseCircuit, Rebind, Crash, vars
<1>2. \A u \in User : \/ lease'[u] = None
                      \/ lease'[u] = lease[u] /\ meta'[u] = meta[u]
  <2>1. CASE UNCHANGED <<lease, meta>>
    BY <2>1
  <2>2. ASSUME NEW v \in User, Expire(v) \/ ExpireMeta(v)
        PROVE  \A u \in User : \/ lease'[u] = None
                               \/ lease'[u] = lease[u] /\ meta'[u] = meta[u]
    BY <2>2 DEF Expire, ExpireMeta, DelLeaseKey, DelRevokeMeta, OrphanUsers, TypeOK, StoreTypeOK
  <2> QED
    BY <2>1, <2>2 DEF Environment, EndCycle, RefreshCycle, SyncToken, Unbind,
       SetEnabled, AddMember, CloseCircuit, Rebind, Crash, vars
<1>3. ASSUME NEW u \in User, Mirrored(u) PROVE Mirrored(u)'
  BY <1>2, <1>3 DEF Mirrored
<1>4. ASSUME NEW q \in Proc PROVE Finishes(req[q])'
  <2>1. Finishes(req[q])
    BY DEF MirrorInv
  <2>2. req[q].pc \in {"aMeta", "nSetMeta", "lMeta", "lPop"} => req[q].user \in User
    BY Locals
  <2>3. req'[q] = req[q]
    BY <1>1
  <2> QED
    BY <1>2, <2>1, <2>2, <2>3 DEF Finishes
<1>5. \A u \in User : Mirrored(u)' \/ \E p \in Proc : (req[p].user = u /\ Writing(req[p]))'
  BY <1>1, <1>3 DEF MirrorInv, Writing
<1> QED
  BY <1>4, <1>5 DEF MirrorInv

LEMMA MirrorStep ==
  ASSUME Alone, "crash" \notin Env, TypeOK, MirrorInv, [Next]_vars
  PROVE  MirrorInv'
<1>1. CASE Environment \/ UNCHANGED vars
  BY <1>1, AroundMirrors
<1>2. ASSUME NEW p \in Proc, Start(p) PROVE MirrorInv'
  BY <1>2, AsideSteps, AsideMirrors
<1>3. ASSUME NEW p \in Proc, Continue(p) PROVE MirrorInv'
  BY <1>3, AsideSteps, AsideMirrors, SetLeaseMirrors, SetMetaMirrors, DelMirrors DEF Continue
<1> QED
  BY <1>1, <1>2, <1>3 DEF Next

\* While one handler runs at a time and none is cut off between its writes, the
\* revoke meta of a lease names the lease's session and account: when the lease key
\* expires, what is left behind is the session to revoke (set_lease, clear_lease,
\* pop_revoke_meta).
THEOREM MetasMirrorLeases ==
  ASSUME Alone, "crash" \notin Env
  PROVE  Spec => []MetaMirrorsLease
<1>1. Init => TypeOK /\ MirrorInv
  <2>1. Init => MirrorInv
    BY DEF Init, StoreInit, MirrorInv, Mirrored, Finishes, Idle
  <2> QED
    BY <2>1, InitTyped
<1>2. TypeOK /\ MirrorInv /\ [Next]_vars => (TypeOK /\ MirrorInv)'
  BY StepTyped, MirrorStep
<1>3. MirrorInv => MetaMirrorsLease
  BY DEF MirrorInv, Mirrored, Writing, MetaMirrorsLease
<1> QED
  BY <1>1, <1>2, <1>3, PTL DEF Spec

-----------------------------------------------------------------------------
\* Account a is in the pool.
In(a) == pool[a].state # "removed"

\* Where release_by_account, and the release it calls, may be after listing
\* the leases.
RemovalLabel == {"xNext", "lGet", "lDel", "lMeta", "lPop", "lCount", "lRevoke", "lRotate", "lStore"}

\* Where acquire may still record the account it has chosen.
ChoiceLabel == {"aCount", "aSnap", "aRefresh", "aStore", "aFail", "aResolve", "aLease"}

\* Handler r is removing an account and will come to the lease of renter u.
Covers(r, u) ==
    \/ r.pc = "xList" /\ lease[u].acct = r.acct
    \/ /\ r.ret = "xNext"
       /\ u \in r.todo \/ (r.pc \in {"lGet", "lDel"} /\ r.user = u)

\* The account a handler is to record is in the pool.
Pooled(r) ==
    /\ r.pc \in ChoiceLabel => In(r.acct)
    /\ r.pc \in {"nCheck", "nLease"} => In(r.cur.acct)
    /\ r.ret = "xNext" => r.pc \in RemovalLabel

\* A lease on a removed account is one the removal at work has still to take.
FreeInv ==
    /\ \A u \in User : lease[u] # None => In(lease[u].acct) \/ \E p \in Proc : Covers(req[p], u)
    /\ \A p \in Proc : Pooled(req[p])
    /\ \A a \in Account : row[a].bound

\* Handler r is not removing an account.
Loose(r) == r.pc # "xList" /\ r.ret # "xNext"

LEMMA FreeInvImplies ==
  ASSUME TypeOK, FreeInv
  PROVE  RemovedAccountIsFree
<1> SUFFICES ASSUME \A p \in Proc : At(p, "idle"), NEW a \in Account, pool[a].state = "removed"
             PROVE  Holders(a) = {}
  BY DEF RemovedAccountIsFree
<1>1. ASSUME NEW u \in User, NEW p \in Proc PROVE ~Covers(req[p], u)
  BY DEF FreeInv, Pooled, Covers, At, RemovalLabel
<1>2. ASSUME NEW u \in User, lease[u] # None PROVE lease[u].acct # a
  BY <1>1, <1>2 DEF FreeInv, In
<1> QED
  BY <1>2 DEF Holders

\* A handler that removes nothing leaves all leases on accounts of the pool.
LEMMA LooseLeases ==
  ASSUME Alone, FreeInv, NEW p \in Proc, Loose(req[p])
  PROVE  \A u \in User : lease[u] # None => In(lease[u].acct)
<1>1. \A q \in Proc : q = p
  BY DEF Alone
<1>2. \A u \in User, q \in Proc : ~Covers(req[q], u)
  BY <1>1 DEF Covers, Loose
<1> QED
  BY <1>2 DEF FreeInv

LEMMA FreeStep ==
  ASSUME NEW p \in Proc, Alone, Pooled(req[p])', \A a \in Account : row'[a].bound,
         \A u \in User : lease'[u] # None => In(lease[u].acct)' \/ Covers(req[p], u)'
  PROVE  FreeInv'
<1>1. \A q \in Proc : q = p
  BY DEF Alone
<1>2. \A q \in Proc : Pooled(req[q])'
  BY <1>1
<1>3. ASSUME NEW u \in User, lease'[u] # None
      PROVE  In(lease[u].acct)' \/ \E q \in Proc : Covers(req[q], u)'
  BY <1>3
<1> QED
  BY <1>2, <1>3 DEF FreeInv

\* The members of the pool stay members.
PoolKept == \A a \in Account : In(a) => In(a)'

RowsKept == \A a \in Account : row'[a].bound

LEMMA StillKept ==
  /\ pool' = pool => PoolKept
  /\ FreeInv /\ row' = row => RowsKept
<1>1. pool' = pool => PoolKept
  BY DEF PoolKept, In
<1>2. FreeInv /\ row' = row => RowsKept
  BY DEF FreeInv, RowsKept
<1> QED
  BY <1>1, <1>2

LEMMA LooseStep ==
  ASSUME Alone, TypeOK, FreeInv, NEW p \in Proc, Loose(req[p]), lease' = lease, PoolKept, RowsKept,
         Pooled(req[p])'
  PROVE  FreeInv'
<1>1. \A u \in User : lease[u] # None => In(lease[u].acct)
  BY LooseLeases
<1>2. \A u \in User : lease'[u] # None => In(lease[u].acct)'
  <2> SUFFICES ASSUME NEW u \in User, lease'[u] # None PROVE In(lease[u].acct)'
    OBVIOUS
  <2>1. PICK a : a = lease[u].acct
    OBVIOUS
  <2>2. In(a)
    BY <1>1, <2>1
  <2>4. a \in Account
    BY <2>1 DEF TypeOK, StoreTypeOK, Lease
  <2>3. In(a)' /\ lease'[u].acct = a
    BY <2>1, <2>2, <2>4 DEF PoolKept
  <2> QED
    BY <2>3 DEF In
<1> QED
  BY <1>2, FreeStep DEF RowsKept

\* Where a step takes a handler, and what it keeps.
LEMMA FreeTurns ==
  ASSUME TypeOK, NEW p \in Proc
  PROVE  /\ \A l : Goto(p, l) => /\ req'[p].pc = l /\ req'[p].ret = req[p].ret
                                 /\ req'[p].acct = req[p].acct /\ req'[p].cur = req[p].cur
                                 /\ req'[p].user = req[p].user /\ req'[p].todo = req[p].todo
         /\ Finish(p) => req'[p].pc = "idle" /\ req'[p].ret = "idle"
         /\ NextCandidate(p, req[p]) => req'[p].pc = "aSelect" /\ req'[p].ret = req[p].ret
         /\ \A x : Resume(p, [req[p] EXCEPT !.exclude = x])
              => req'[p].pc = req[p].ret /\ req'[p].ret = req[p].ret
         /\ Resume(p, req[p]) => /\ req'[p].pc = req[p].ret /\ req'[p].ret = req[p].ret
                                 /\ req[p].ret # "idle" => req'[p].todo = req[p].todo
<1>1. req \in [Proc -> Request] /\ req[p] \in Request
  BY DEF TypeOK, ServiceTypeOK
<1>2. \A r : Become(p, r) => req'[p] = r
  BY Turns
<1>3. ASSUME NEW l, Goto(p, l)
      PROVE  /\ req'[p].pc = l /\ req'[p].ret = req[p].ret
             /\ req'[p].acct = req[p].acct /\ req'[p].cur = req[p].cur
             /\ req'[p].user = req[p].user /\ req'[p].todo = req[p].todo
  <2>1. req'[p] = [req[p] EXCEPT !.pc = l]
    BY <1>2, <1>3 DEF Goto
  <2> QED
    BY <1>1, <2>1 DEF Request
<1>4. Finish(p) => req'[p].pc = "idle" /\ req'[p].ret = "idle"
  BY <1>2 DEF Finish, Idle
<1>5. NextCandidate(p, req[p]) => req'[p].pc = "aSelect" /\ req'[p].ret = req[p].ret
  BY <1>1, <1>2 DEF NextCandidate, Request
<1>6. ASSUME NEW r, Resume(p, r)
      PROVE  /\ req'[p].pc = r.ret /\ req'[p].ret = r.ret
             /\ r.ret # "idle" => req'[p].todo = r.todo
  <2>1. PICK next : next = [Idle EXCEPT !.pc = r.ret, !.ret = r.ret, !.todo = r.todo,
                                        !.user = IF r.ret = "aRead" THEN r.user ELSE None,
                                        !.force = r.force, !.exclude = r.exclude]
    OBVIOUS
  <2>2. next.pc = r.ret /\ next.ret = r.ret /\ next.todo = r.todo
    BY <2>1 DEF Idle
  <2>3. Become(p, IF r.ret = "idle" THEN Idle ELSE next)
    BY <1>6, <2>1 DEF Resume
  <2>4. Idle.pc = "idle" /\ Idle.ret = "idle"
    BY DEF Idle
  <2> QED
    BY <1>2, <2>2, <2>3, <2>4
<1>7. \A x : [req[p] EXCEPT !.exclude = x].ret = req[p].ret
  BY <1>1 DEF Request
<1>8. ASSUME NEW x, Resume(p, [req[p] EXCEPT !.exclude = x])
      PROVE  req'[p].pc = req[p].ret /\ req'[p].ret = req[p].ret
  <2>1. PICK r : r = [req[p] EXCEPT !.exclude = x]
    OBVIOUS
  <2>2. r.ret = req[p].ret
    BY <1>1, <2>1 DEF Request
  <2>3. Resume(p, r)
    BY <1>8, <2>1
  <2> QED
    BY <1>6, <2>2, <2>3
<1> QED
  BY <1>3, <1>4, <1>5, <1>6, <1>8

LEMMA LooseAcquire ==
  ASSUME Alone, TypeOK, FreeInv, NEW p \in Proc,
         \/ AcquireRead(p) \/ AcquireSelect(p) \/ AcquireCount(p) \/ AcquireSnapshot(p)
         \/ AcquireRefresh(p) \/ AcquireStore(p) \/ AcquireFail(p) \/ AcquireResolve(p)
         \/ AcquireSetMeta(p) \/ AcquireDone(p)
  PROVE  FreeInv'
<1> DEFINE r == req[p]
<1>1. r \in Request /\ r.pc \in ChoiceLabel \cup {"aRead", "aSelect", "aMeta", "aDone"}
  BY Locals DEF AcquireRead, AcquireSelect, AcquireCount, AcquireSnapshot, AcquireRefresh,
     AcquireStore, AcquireFail, AcquireResolve, AcquireSetMeta, AcquireDone, At, ChoiceLabel
<1>2. Loose(r) /\ Pooled(r) /\ RowsKept
  <2>1. Pooled(r) /\ \A a \in Account : row[a].bound
    BY DEF FreeInv
  <2>2. Loose(r)
    BY <1>1, <2>1 DEF Pooled, Loose, RemovalLabel, ChoiceLabel
  <2>3. CASE row' = row
    BY <2>1, <2>2, <2>3, StillKept
  <2>4. ASSUME NEW a, StoreInvalid(a) \/ \E s : StoreToken(a, s) PROVE RowsKept
    BY <2>1, <2>4 DEF RowsKept, StoreInvalid, StoreToken, TypeOK, ServiceTypeOK, Row
  <2> QED
    BY <2>1, <2>2, <2>3, <2>4 DEF AcquireRead, AcquireSelect, AcquireCount, AcquireSnapshot,
       AcquireRefresh, AcquireStore, AcquireFail, AcquireResolve, AcquireSetMeta, AcquireDone
<1>3. lease' = lease /\ PoolKept
  <2>1. lease' = lease
    BY DEF AcquireRead, AcquireSelect, AcquireCount, AcquireSnapshot, AcquireRefresh,
       AcquireStore, AcquireFail, AcquireResolve, AcquireSetMeta, AcquireDone, SetRevokeMeta
  <2>2. CASE pool' = pool
    BY <2>1, <2>2, StillKept
  <2>3. CASE AcquireFail(p)
    BY <2>3 DEF AcquireFail, PoolKept, In, TypeOK, ServiceTypeOK, Member
  <2>4. CASE AcquireDone(p)
    BY <2>4 DEF AcquireDone, PoolKept, In, TypeOK, ServiceTypeOK, Member
  <2> QED
    BY <2>1, <2>2, <2>3, <2>4 DEF AcquireRead, AcquireSelect, AcquireCount, AcquireSnapshot,
       AcquireRefresh, AcquireStore, AcquireResolve, AcquireSetMeta
\* What is left: the handler goes on outside the choice, or the choice is in
\* the pool.
<1>4. ASSUME req'[p].ret # "xNext", req'[p].pc \notin {"nCheck", "nLease"},
             req'[p].pc \in ChoiceLabel => req'[p].acct \in Account /\ In(req'[p].acct)
      PROVE  FreeInv'
  <2>1. PICK x : x = req'[p]
    OBVIOUS
  <2>2. x.pc \in ChoiceLabel => In(x.acct)'
    BY <1>3, <1>4, <2>1 DEF PoolKept
  <2>3. Pooled(req[p])'
    BY <1>4, <2>1, <2>2 DEF Pooled, In
  <2> QED
    BY <1>2, <1>3, <2>3, LooseStep
<1>5. r.ret # "xNext"
  BY <1>2 DEF Loose
<1>6. ASSUME req'[p].ret \in {r.ret, "idle"},
             req'[p].pc \in {"idle", "aSelect", "aDone"}
      PROVE  FreeInv'
  BY <1>4, <1>5, <1>6 DEF ChoiceLabel
<1>7. ASSUME req'[p].ret = r.ret, req'[p].acct = r.acct, r.pc \in ChoiceLabel,
             req'[p].pc \in ChoiceLabel
      PROVE  FreeInv'
  <2>1. In(r.acct)
    BY <1>2, <1>7 DEF Pooled
  <2>2. r.acct \in Account
    BY <1>1, <1>7 DEF TypeOK, ServiceTypeOK, Bound, Request, ChoiceLabel
  <2> QED
    BY <1>4, <1>5, <1>7, <2>1, <2>2 DEF ChoiceLabel
<1>8. CASE NextCandidate(p, r) \/ Finish(p) \/ Goto(p, "aDone")
  BY <1>6, <1>8, FreeTurns
<1>9. ASSUME NEW l \in ChoiceLabel, Goto(p, l), r.pc \in ChoiceLabel PROVE FreeInv'
  BY <1>7, <1>9, FreeTurns
<1>10. CASE AcquireRead(p)
  <2>1. PICK cur, x : Become(p, [r EXCEPT !.pc = "aSelect", !.cur = cur, !.prefer = x])
    BY <1>10 DEF AcquireRead
  <2>2. PICK next : next = [r EXCEPT !.pc = "aSelect", !.cur = cur, !.prefer = x]
    OBVIOUS
  <2>3. next.pc = "aSelect" /\ next.ret = r.ret
    BY <1>1, <2>2 DEF Request
  <2>4. req'[p] = next
    BY <2>1, <2>2, Turns
  <2> QED
    BY <1>6, <2>3, <2>4
<1>11. CASE AcquireSelect(p)
  <2>1. ASSUME NEW a \in Eligible(r.user, r.exclude), Become(p, [r EXCEPT !.pc = "aCount", !.acct = a])
        PROVE  FreeInv'
    <3>1. PICK next : next = [r EXCEPT !.pc = "aCount", !.acct = a]
      OBVIOUS
    <3>2. next.pc = "aCount" /\ next.ret = r.ret /\ next.acct = a
      BY <1>1, <3>1 DEF Request
    <3>3. req'[p] = next
      BY <2>1, <3>1, Turns
    <3>4. a \in Account /\ In(a)
      BY DEF Eligible, In
    <3> QED
      BY <1>4, <1>5, <3>2, <3>3, <3>4
  <2> QED
    BY <1>8, <1>11, <2>1 DEF AcquireSelect
<1>12. CASE AcquireCount(p)
  <2>1. ASSUME NEW x, Become(p, [r EXCEPT !.pc = "aSnap", !.over = x]) PROVE FreeInv'
    <3>1. PICK next : next = [r EXCEPT !.pc = "aSnap", !.over = x]
      OBVIOUS
    <3>2. next.pc = "aSnap" /\ next.ret = r.ret /\ next.acct = r.acct
      BY <1>1, <3>1 DEF Request
    <3>3. req'[p] = next
      BY <2>1, <3>1, Turns
    <3> QED
      BY <1>7, <1>12, <3>2, <3>3 DEF AcquireCount, At, ChoiceLabel
  <2> QED
    BY <1>8, <1>12, <2>1 DEF AcquireCount
<1>13. CASE AcquireSnapshot(p)
  <2>1. ASSUME NEW x, Become(p, [r EXCEPT !.pc = "aRefresh", !.before = x]) PROVE FreeInv'
    <3>1. PICK next : next = [r EXCEPT !.pc = "aRefresh", !.before = x]
      OBVIOUS
    <3>2. next.pc = "aRefresh" /\ next.ret = r.ret /\ next.acct = r.acct
      BY <1>1, <3>1 DEF Request
    <3>3. req'[p] = next
      BY <2>1, <3>1, Turns
    <3> QED
      BY <1>7, <1>13, <3>2, <3>3 DEF AcquireSnapshot, At, ChoiceLabel
  <2> QED
    BY <1>9, <1>13, <2>1 DEF AcquireSnapshot, At, ChoiceLabel
<1>14. CASE AcquireRefresh(p)
  <2>1. ASSUME NEW x, Become(p, [r EXCEPT !.pc = "aStore", !.mint = x]) PROVE FreeInv'
    <3>1. PICK next : next = [r EXCEPT !.pc = "aStore", !.mint = x]
      OBVIOUS
    <3>2. next.pc = "aStore" /\ next.ret = r.ret /\ next.acct = r.acct
      BY <1>1, <3>1 DEF Request
    <3>3. req'[p] = next
      BY <2>1, <3>1, Turns
    <3> QED
      BY <1>7, <1>14, <3>2, <3>3 DEF AcquireRefresh, At, ChoiceLabel
  <2> QED
    BY <1>8, <1>9, <1>14, <2>1 DEF AcquireRefresh, At, ChoiceLabel
<1>15. CASE AcquireStore(p)
  BY <1>9, <1>15 DEF AcquireStore, At, ChoiceLabel
<1>16. CASE AcquireResolve(p)
  <2>1. ASSUME NEW s, Become(p, [r EXCEPT !.pc = "aLease", !.sess = s, !.before = {}]) PROVE FreeInv'
    <3>1. PICK next : next = [r EXCEPT !.pc = "aLease", !.sess = s, !.before = {}]
      OBVIOUS
    <3>2. next.pc = "aLease" /\ next.ret = r.ret /\ next.acct = r.acct
      BY <1>1, <3>1 DEF Request
    <3>3. req'[p] = next
      BY <2>1, <3>1, Turns
    <3> QED
      BY <1>7, <1>16, <3>2, <3>3 DEF AcquireResolve, At, ChoiceLabel
  <2> QED
    BY <1>8, <1>16, <2>1 DEF AcquireResolve
<1>17. CASE AcquireFail(p) \/ AcquireSetMeta(p) \/ AcquireDone(p)
  BY <1>8, <1>17 DEF AcquireFail, AcquireSetMeta, AcquireDone
<1> QED
  BY <1>10, <1>11, <1>12, <1>13, <1>14, <1>15, <1>16, <1>17

LEMMA LooseRest ==
  ASSUME Alone, TypeOK, FreeInv, NEW p \in Proc,
         \/ RenewRead(p) \/ RenewMeta(p) \/ RenewCheck(p) \/ RenewSetMeta(p)
         \/ StatusRead(p) \/ StatusMeta(p) \/ StatusCheck(p)
         \/ SweepLease(p) \/ SweepCheck(p) \/ SweepOrphan(p)
  PROVE  FreeInv'
<1> DEFINE r == req[p]
<1>1. /\ r \in Request
      /\ r.pc \in {"nRead", "nMeta", "nCheck", "nSetMeta", "sRead", "sMeta", "sCheck",
                   "wLease", "wCheck", "wOrphan"}
  BY Locals DEF RenewRead, RenewMeta, RenewCheck, RenewSetMeta, StatusRead, StatusMeta,
     StatusCheck, SweepLease, SweepCheck, SweepOrphan, At
<1>2. Loose(r) /\ Pooled(r) /\ RowsKept
  <2>1. Pooled(r) /\ \A a \in Account : row[a].bound
    BY DEF FreeInv
  <2>2. Loose(r)
    BY <1>1, <2>1 DEF Pooled, Loose, RemovalLabel
  <2> QED
    BY <2>1, <2>2 DEF RowsKept, RenewRead, RenewMeta, RenewCheck, RenewSetMeta, StatusRead,
       StatusMeta, StatusCheck, SweepLease, SweepCheck, SweepOrphan
<1>3. lease' = lease /\ pool' = pool /\ PoolKept
  BY DEF RenewRead, RenewMeta, RenewCheck, RenewSetMeta, StatusRead, StatusMeta,
     StatusCheck, SweepLease, SweepCheck, SweepOrphan, SetRevokeMeta, PoolKept, In
<1>4. ASSUME req'[p].ret # "xNext", req'[p].pc \notin ChoiceLabel,
             req'[p].pc \in {"nCheck", "nLease"} => In(req'[p].cur.acct)
      PROVE  FreeInv'
  <2>1. Pooled(req[p])'
    BY <1>3, <1>4 DEF Pooled, In
  <2> QED
    BY <1>2, <1>3, <2>1, LooseStep
<1>5. r.ret # "xNext" /\ r.ret \in Continuation
  BY <1>1, <1>2 DEF Loose, Request
<1>6. ASSUME req'[p].ret \in {r.ret, "idle", "wOrphan"},
             req'[p].pc \in {"nMeta", "sRead", "sMeta", "sCheck", "lGet", "wCheck"} \cup Continuation
      PROVE  FreeInv'
  BY <1>4, <1>5, <1>6 DEF ChoiceLabel, Continuation
<1>7. CASE Finish(p) \/ Goto(p, "lGet") \/ Resume(p, r)
  BY <1>5, <1>6, <1>7, FreeTurns DEF Continuation
<1>8. ASSUME NEW x, Resume(p, [r EXCEPT !.exclude = x]) PROVE FreeInv'
  BY <1>5, <1>6, <1>8, FreeTurns DEF Continuation
<1>9. CASE RenewRead(p)
  <2>1. PICK cur, l : /\ cur = lease[r.user] /\ l = IF cur = None THEN "nMeta" ELSE "nCheck"
    OBVIOUS
  <2>2. PICK next : next = [r EXCEPT !.pc = l, !.cur = cur]
    OBVIOUS
  <2>3. next.pc = l /\ next.ret = r.ret /\ next.cur = cur
    BY <1>1, <2>2 DEF Request
  <2>4. Become(p, next)
    BY <1>9, <2>1, <2>2 DEF RenewRead
  <2>5. req'[p] = next
    BY <2>4, Turns
  <2>6. cur # None => In(cur.acct)
    <3>1. r.user \in User
      BY <1>9, Locals DEF RenewRead, At
    <3> QED
      BY <1>2, <2>1, <3>1, LooseLeases
  <2> QED
    BY <1>4, <1>5, <2>1, <2>3, <2>5, <2>6 DEF ChoiceLabel
<1>10. CASE RenewCheck(p)
  <2>1. CASE Goto(p, "nLease")
    <3>1. In(r.cur.acct)
      BY <1>2, <1>10 DEF Pooled, RenewCheck, At
    <3> QED
      BY <1>4, <1>5, <2>1, <3>1, FreeTurns DEF ChoiceLabel
  <2> QED
    BY <1>7, <1>10, <2>1 DEF RenewCheck
<1>11. CASE RenewSetMeta(p)
  <2>1. PICK next : next = [Idle EXCEPT !.pc = "sRead", !.user = r.user]
    OBVIOUS
  <2>2. next.pc = "sRead" /\ next.ret = "idle"
    BY <2>1 DEF Idle
  <2>3. req'[p] = next
    BY <1>11, <2>1, Turns DEF RenewSetMeta
  <2> QED
    BY <1>6, <2>2, <2>3
<1>12. CASE StatusRead(p)
  <2>1. PICK cur, l : /\ cur = lease[r.user] /\ l = IF cur = None THEN "sMeta" ELSE "sCheck"
    OBVIOUS
  <2>2. PICK next : next = [r EXCEPT !.pc = l, !.cur = cur]
    OBVIOUS
  <2>3. next.pc = l /\ next.ret = r.ret
    BY <1>1, <2>2 DEF Request
  <2>4. Become(p, next)
    BY <1>12, <2>1, <2>2 DEF StatusRead
  <2>5. req'[p] = next
    BY <2>4, Turns
  <2> QED
    BY <1>6, <2>1, <2>3, <2>5
<1>13. CASE RenewMeta(p) \/ StatusMeta(p) \/ SweepCheck(p)
  BY <1>7, <1>13 DEF RenewMeta, StatusMeta, SweepCheck
<1>14. CASE StatusCheck(p)
  <2>1. Goto(p, "lGet") \/ Finish(p) \/ \E x : Resume(p, [r EXCEPT !.exclude = x])
    BY <1>14 DEF StatusCheck
  <2> QED
    BY <1>7, <1>8, <2>1
<1>15. ASSUME NEW next, Become(p, next), next.ret \in {r.ret, "wOrphan"},
              next.pc \in {"wLease", "wCheck", "wOrphan", "lGet"}
       PROVE  FreeInv'
  BY <1>6, <1>15, Turns DEF Continuation
<1>16. CASE SweepLease(p)
  <2>1. r.pc = "wLease"
    BY <1>16 DEF SweepLease, At
  <2>2. CASE r.todo = {} /\ Become(p, [Idle EXCEPT !.pc = "wOrphan", !.ret = "wOrphan",
                                                   !.todo = OrphanUsers])
    <3>1. PICK next : next = [Idle EXCEPT !.pc = "wOrphan", !.ret = "wOrphan", !.todo = OrphanUsers]
      OBVIOUS
    <3>2. next.pc = "wOrphan" /\ next.ret = "wOrphan"
      BY <3>1 DEF Idle
    <3> QED
      BY <1>15, <2>2, <3>1, <3>2
  <2>3. ASSUME NEW u, Become(p, [r EXCEPT !.todo = @ \ {u}]) PROVE FreeInv'
    <3>1. PICK next : next = [r EXCEPT !.todo = @ \ {u}]
      OBVIOUS
    <3>2. next.pc = "wLease" /\ next.ret = r.ret
      BY <1>1, <2>1, <3>1 DEF Request
    <3> QED
      BY <1>15, <2>3, <3>1, <3>2
  <2>4. ASSUME NEW u, Become(p, [r EXCEPT !.pc = "wCheck", !.todo = @ \ {u}, !.user = u,
                                          !.cur = lease[u]])
        PROVE  FreeInv'
    <3>1. PICK next : next = [r EXCEPT !.pc = "wCheck", !.todo = @ \ {u}, !.user = u,
                                       !.cur = lease[u]]
      OBVIOUS
    <3>2. next.pc = "wCheck" /\ next.ret = r.ret
      BY <1>1, <3>1 DEF Request
    <3> QED
      BY <1>15, <2>4, <3>1, <3>2
  <2> QED
    BY <1>16, <2>2, <2>3, <2>4 DEF SweepLease
<1>17. CASE SweepOrphan(p)
  <2>1. ASSUME NEW u, Become(p, [r EXCEPT !.pc = "lGet", !.user = u, !.todo = @ \ {u}])
        PROVE  FreeInv'
    <3>1. PICK next : next = [r EXCEPT !.pc = "lGet", !.user = u, !.todo = @ \ {u}]
      OBVIOUS
    <3>2. next.pc = "lGet" /\ next.ret = r.ret
      BY <1>1, <3>1 DEF Request
    <3> QED
      BY <1>15, <2>1, <3>1, <3>2
  <2> QED
    BY <1>7, <1>17, <2>1 DEF SweepOrphan
<1> QED
  BY <1>9, <1>10, <1>11, <1>12, <1>13, <1>14, <1>16, <1>17

LEMMA SetLeaseFree ==
  ASSUME Alone, TypeOK, FreeInv, NEW p \in Proc, AcquireSetLease(p) \/ RenewSetLease(p)
  PROVE  FreeInv'
<1> DEFINE r == req[p]
<1>1. r \in Request /\ r.pc \in {"aLease", "nLease"} /\ r.user \in User
  BY Locals DEF AcquireSetLease, RenewSetLease, At
<1>2. /\ Loose(r) /\ RowsKept /\ pool' = pool
      /\ r.pc = "aLease" => In(r.acct)
      /\ r.pc = "nLease" => In(r.cur.acct)
  <2>1. Pooled(r) /\ \A a \in Account : row[a].bound
    BY DEF FreeInv
  <2>2. row' = row /\ pool' = pool
    BY DEF AcquireSetLease, RenewSetLease
  <2> QED
    BY <1>1, <2>1, <2>2 DEF Pooled, Loose, RemovalLabel, ChoiceLabel, RowsKept
<1>3. \A u \in User : lease[u] # None => In(lease[u].acct)
  BY <1>2, LooseLeases
<1>4. req'[p].pc \in {"idle", "aMeta", "nSetMeta"} /\ req'[p].ret # "xNext"
  BY <1>2, FreeTurns DEF AcquireSetLease, RenewSetLease, Loose
<1>5. Pooled(req[p])'
  BY <1>4 DEF Pooled, ChoiceLabel
<1>6. ASSUME NEW a, In(a), NEW s, SetLeaseKey(r.user, Stamp(r.user, a, s))
      PROVE  \A u \in User : lease'[u] # None => In(lease[u].acct)'
  <2>1. PICK l : l = Stamp(r.user, a, s)
    OBVIOUS
  <2>2. l.acct = a /\ lease' = [lease EXCEPT ![r.user] = l]
    BY <1>6, <2>1 DEF Stamp, SetLeaseKey
  <2>3. \A u \in User : lease'[u] # None => In(lease'[u].acct)
    BY <1>1, <1>3, <1>6, <2>2 DEF TypeOK, StoreTypeOK
  <2> QED
    BY <1>2, <2>3 DEF In
<1>7. ASSUME lease' = lease
      PROVE  \A u \in User : lease'[u] # None => In(lease[u].acct)'
  BY <1>2, <1>3, <1>7 DEF In
<1>8. \A u \in User : lease'[u] # None => In(lease[u].acct)'
  <2>1. CASE AcquireSetLease(p)
    BY <1>2, <1>6, <1>7, <2>1 DEF AcquireSetLease, At
  <2>2. CASE RenewSetLease(p)
    BY <1>2, <1>6, <1>7, <2>2 DEF RenewSetLease, At
  <2> QED
    BY <2>1, <2>2
<1> QED
  BY <1>2, <1>5, <1>8, FreeStep DEF RowsKept

\* What a release, called by the removal or not, must keep.
LEMMA ReleaseStep ==
  ASSUME Alone, TypeOK, FreeInv, NEW p \in Proc, pool' = pool, RowsKept,
         req'[p].ret \in {req[p].ret, "idle"},
         req[p].pc # "xList",
         req'[p].pc \notin ChoiceLabel \cup {"nCheck", "nLease"},
         req[p].ret = "xNext" => req'[p].pc \in RemovalLabel,
         \A u \in User : lease'[u] # None
            => lease'[u] = lease[u] /\ (Covers(req[p], u) => Covers(req[p], u)')
  PROVE  FreeInv'
<1>1. \A q \in Proc : q = p
  BY DEF Alone
<1>2. Pooled(req[p])'
  <2>1. req[p].ret # "idle" \/ req'[p].ret = "idle"
    OBVIOUS
  <2> QED
    BY DEF Pooled, RemovalLabel
<1>3. ASSUME NEW u \in User, lease'[u] # None PROVE In(lease[u].acct)' \/ Covers(req[p], u)'
  <2>1. lease'[u] = lease[u]
    BY <1>3
  <2>2. In(lease[u].acct) \/ Covers(req[p], u)
    BY <1>1, <1>3, <2>1 DEF FreeInv
  <2>3. CASE In(lease[u].acct)
    BY <2>1, <2>3 DEF In
  <2> QED
    BY <1>3, <2>2, <2>3
<1> QED
  BY <1>2, <1>3, FreeStep DEF RowsKept

\* Where the steps of a release lead, and what they do to the leases.
LEMMA ReleaseMoves ==
  ASSUME TypeOK, NEW p \in Proc,
         \/ ReleaseGet(p) \/ ReleaseDel(p) \/ ReleaseMeta(p) \/ ReleasePop(p)
         \/ ReleaseCount(p) \/ ReleaseRevoke(p) \/ ReleaseRotate(p) \/ ReleaseStore(p)
  PROVE  /\ \/ lease' = lease /\ req[p].pc # "lDel"
            \/ lease' = [lease EXCEPT ![req[p].user] = None] /\ req'[p].pc = "lMeta"
         /\ \/ req[p].pc = "lRevoke" /\ ~row[req[p].acct].bound /\ Finish(p)
            \/ /\ req'[p].ret = req[p].ret
               /\ \/ /\ req[p].pc # "lGet" /\ req'[p].todo = req[p].todo
                     /\ req'[p].pc \in {"lMeta", "lPop", "lCount", "lRevoke", "lRotate", "lStore"}
                  \/ /\ req[p].pc = "lGet" /\ req'[p].pc = "lDel"
                     /\ req'[p].user = req[p].user /\ req'[p].todo = req[p].todo
                  \/ /\ req[p].pc # "lGet" /\ req'[p].pc = req[p].ret
                     /\ req[p].ret # "idle" => req'[p].todo = req[p].todo
<1> DEFINE r == req[p]
<1>1. r \in Request
  BY Locals
<1>2. CASE ReleaseGet(p)
  <2>1. PICK next : next = [r EXCEPT !.pc = "lDel", !.cur = lease[r.user]]
    OBVIOUS
  <2>2. next.pc = "lDel" /\ next.ret = r.ret /\ next.user = r.user /\ next.todo = r.todo
    BY <1>1, <2>1 DEF Request
  <2>3. Become(p, next)
    BY <1>2, <2>1 DEF ReleaseGet
  <2>4. req'[p] = next /\ lease' = lease /\ r.pc = "lGet"
    BY <1>2, <2>3, Turns DEF ReleaseGet, At
  <2> QED
    BY <2>2, <2>4
<1>3. CASE ReleaseDel(p)
  BY <1>3, FreeTurns DEF ReleaseDel, DelLeaseKey, At
\* Beyond lDel the leases are left alone.
<1>4. ASSUME NEW next, Become(p, next), next.ret = r.ret, next.todo = r.todo,
             next.pc \in {"lPop", "lCount", "lRevoke", "lStore"}
      PROVE  /\ req'[p].ret = r.ret /\ req'[p].todo = r.todo
             /\ req'[p].pc \in {"lPop", "lCount", "lRevoke", "lStore"}
  BY <1>4, Turns
<1>5. CASE ReleaseMeta(p)
  <2>1. r.pc = "lMeta" /\ lease' = lease
    BY <1>5 DEF ReleaseMeta, At, DelRevokeMeta
  <2>2. ASSUME NEW m, NEW l \in {"lCount", "lPop"},
               Become(p, [r EXCEPT !.pc = l, !.acct = m.acct, !.sess = m.sess])
        PROVE  /\ req'[p].ret = r.ret /\ req'[p].todo = r.todo
               /\ req'[p].pc \in {"lPop", "lCount", "lRevoke", "lStore"}
    <3>1. PICK next : next = [r EXCEPT !.pc = l, !.acct = m.acct, !.sess = m.sess]
      OBVIOUS
    <3>2. next.pc = l /\ next.ret = r.ret /\ next.todo = r.todo
      BY <1>1, <3>1 DEF Request
    <3> QED
      BY <1>4, <2>2, <3>1, <3>2
  <2>3. \/ Resume(p, r)
        \/ \E m : \E l \in {"lCount", "lPop"} :
              Become(p, [r EXCEPT !.pc = l, !.acct = m.acct, !.sess = m.sess])
    BY <1>5 DEF ReleaseMeta
  <2> QED
    BY <2>1, <2>2, <2>3, FreeTurns
<1>6. CASE ReleasePop(p)
  BY <1>6, FreeTurns DEF ReleasePop, At, DelRevokeMeta
<1>7. CASE ReleaseCount(p)
  <2>1. r.pc = "lCount" /\ lease' = lease
    BY <1>7 DEF ReleaseCount, At
  <2>2. PICK x : Become(p, [r EXCEPT !.pc = "lRevoke", !.last = x])
    BY <1>7 DEF ReleaseCount
  <2>3. PICK next : next = [r EXCEPT !.pc = "lRevoke", !.last = x]
    OBVIOUS
  <2>4. next.pc = "lRevoke" /\ next.ret = r.ret /\ next.todo = r.todo
    BY <1>1, <2>3 DEF Request
  <2> QED
    BY <1>4, <2>1, <2>2, <2>3, <2>4
<1>8. CASE ReleaseRevoke(p)
  <2>1. r.pc = "lRevoke" /\ lease' = lease
    BY <1>8 DEF ReleaseRevoke, At
  <2>2. Goto(p, "lRotate") \/ Resume(p, r) \/ (~row[r.acct].bound /\ Finish(p))
    BY <1>8 DEF ReleaseRevoke
  <2> QED
    BY <2>1, <2>2, FreeTurns
<1>9. CASE ReleaseRotate(p)
  <2>1. r.pc = "lRotate" /\ lease' = lease
    BY <1>9 DEF ReleaseRotate, At
  <2>2. ASSUME NEW x, Become(p, [r EXCEPT !.pc = "lStore", !.mint = x])
        PROVE  /\ req'[p].ret = r.ret /\ req'[p].todo = r.todo
               /\ req'[p].pc \in {"lPop", "lCount", "lRevoke", "lStore"}
    <3>1. PICK next : next = [r EXCEPT !.pc = "lStore", !.mint = x]
      OBVIOUS
    <3>2. next.pc = "lStore" /\ next.ret = r.ret /\ next.todo = r.todo
      BY <1>1, <3>1 DEF Request
    <3> QED
      BY <1>4, <2>2, <3>1, <3>2
  <2>3. Resume(p, r) \/ \E x : Become(p, [r EXCEPT !.pc = "lStore", !.mint = x])
    BY <1>9 DEF ReleaseRotate
  <2> QED
    BY <2>1, <2>2, <2>3, FreeTurns
<1>10. CASE ReleaseStore(p)
  BY <1>10, FreeTurns DEF ReleaseStore, At
<1> QED
  BY <1>2, <1>3, <1>5, <1>6, <1>7, <1>8, <1>9, <1>10

LEMMA ReleaseFree ==
  ASSUME Alone, TypeOK, FreeInv, NEW p \in Proc,
         \/ ReleaseGet(p) \/ ReleaseDel(p) \/ ReleaseMeta(p) \/ ReleasePop(p)
         \/ ReleaseCount(p) \/ ReleaseRevoke(p) \/ ReleaseRotate(p) \/ ReleaseStore(p)
  PROVE  FreeInv'
<1> DEFINE r == req[p]
<1>1. /\ r \in Request /\ r.ret \in Continuation
      /\ r.pc \in {"lGet", "lDel", "lMeta", "lPop", "lCount", "lRevoke", "lRotate", "lStore"}
      /\ r.user \in User
  BY Locals DEF ReleaseGet, ReleaseDel, ReleaseMeta, ReleasePop, ReleaseCount, ReleaseRevoke,
     ReleaseRotate, ReleaseStore, At, Request
<1>2. pool' = pool /\ RowsKept /\ \A a \in Account : row[a].bound
  <2>1. \A a \in Account : row[a].bound
    BY DEF FreeInv
  <2>2. ASSUME row' = row PROVE RowsKept
    BY <2>2, StillKept
  <2>3. ASSUME NEW a, StoreInvalid(a) \/ \E s : StoreToken(a, s) PROVE RowsKept
    BY <2>1, <2>3 DEF RowsKept, StoreInvalid, StoreToken, TypeOK, ServiceTypeOK, Row
  <2>4. RowsKept
    BY <2>2, <2>3 DEF ReleaseGet, ReleaseDel, ReleaseMeta, ReleasePop, ReleaseCount,
       ReleaseRevoke, ReleaseRotate, ReleaseStore
  <2>5. pool' = pool
    BY DEF ReleaseGet, ReleaseDel, ReleaseMeta, ReleasePop, ReleaseCount, ReleaseRevoke,
       ReleaseRotate, ReleaseStore
  <2> QED
    BY <2>1, <2>4, <2>5
<1>3. ASSUME req'[p].ret = r.ret,
             \/ /\ req'[p].pc \in {"lDel", "lMeta", "lPop", "lCount", "lRevoke", "lRotate", "lStore"}
                /\ req'[p].todo = r.todo
             \/ req'[p].pc = r.ret /\ (r.ret # "idle" => req'[p].todo = r.todo),
             \A u \in User : lease'[u] # None
                => /\ lease'[u] = lease[u]
                   /\ r.pc \in {"lGet", "lDel"} /\ r.user = u
                        => req'[p].pc \in {"lGet", "lDel"} /\ req'[p].user = u
      PROVE  FreeInv'
  <2>1. /\ req'[p].pc \notin ChoiceLabel \cup {"nCheck", "nLease"}
        /\ r.ret = "xNext" => req'[p].pc \in RemovalLabel /\ req'[p].todo = r.todo
    BY <1>1, <1>3 DEF ChoiceLabel, Continuation, RemovalLabel
  <2>2. ASSUME NEW u \in User, lease'[u] # None
        PROVE  lease'[u] = lease[u] /\ (Covers(r, u) => Covers(req[p], u)')
    <3>1. lease'[u] = lease[u]
      BY <1>3, <2>2
    <3>2. ASSUME Covers(r, u) PROVE Covers(req[p], u)'
      BY <1>1, <1>3, <2>1, <2>2, <3>2 DEF Covers
    <3> QED
      BY <3>1, <3>2
  <2> QED
    BY <1>1, <1>2, <1>3, <2>1, <2>2, ReleaseStep
<1>4. ~(r.pc = "lRevoke" /\ ~row[r.acct].bound)
  <2>1. r.pc = "lRevoke" => r.acct \in Account
    BY <1>1 DEF TypeOK, ServiceTypeOK, Bound, Request
  <2> QED
    BY <1>2, <2>1
<1>5. CASE lease' = lease /\ r.pc # "lDel"
  BY <1>3, <1>4, <1>5, ReleaseMoves
<1>6. CASE lease' = [lease EXCEPT ![r.user] = None] /\ req'[p].pc = "lMeta"
  <2>1. \A u \in User : lease'[u] # None => lease'[u] = lease[u] /\ r.user # u
    BY <1>1, <1>6 DEF TypeOK, StoreTypeOK
  <2>2. req'[p].ret = r.ret /\ req'[p].todo = r.todo
    BY <1>1, <1>4, <1>6, ReleaseMoves DEF Continuation
  <2> QED
    BY <1>3, <1>6, <2>1, <2>2
<1> QED
  BY <1>5, <1>6, ReleaseMoves

LEMMA RemoveFree ==
  ASSUME Alone, TypeOK, FreeInv, NEW p \in Proc, RemoveList(p) \/ RemoveNext(p)
  PROVE  FreeInv'
<1> DEFINE r == req[p]
<1>1. r \in Request /\ \A q \in Proc : q = p
  BY Locals DEF Alone
<1>2. pool' = pool /\ lease' = lease /\ RowsKept
  BY StillKept DEF RemoveList, RemoveNext
<1>3. \A u \in User : lease[u] # None => In(lease[u].acct) \/ Covers(r, u)
  BY <1>1 DEF FreeInv
<1>4. ASSUME NEW next, req'[p] = next, next.pc \in RemovalLabel, next.ret = "xNext",
             \A u \in User : lease[u] # None /\ Covers(r, u)
                => u \in next.todo \/ (next.pc = "lGet" /\ next.user = u)
      PROVE  FreeInv'
  <2>1. Pooled(req[p])'
    BY <1>4 DEF Pooled, RemovalLabel, ChoiceLabel
  <2>2. ASSUME NEW u \in User, lease'[u] # None PROVE In(lease[u].acct)' \/ Covers(req[p], u)'
    BY <1>2, <1>3, <1>4, <2>2 DEF In, Covers
  <2> QED
    BY <1>2, <2>1, <2>2, FreeStep DEF RowsKept
<1>5. CASE RemoveList(p)
  <2>1. PICK next : next = [Idle EXCEPT !.pc = "xNext", !.ret = "xNext", !.todo = Holders(r.acct)]
    OBVIOUS
  <2>2. next.pc = "xNext" /\ next.ret = "xNext" /\ next.todo = Holders(r.acct)
    BY <2>1 DEF Idle
  <2>3. Become(p, next)
    BY <1>5, <2>1 DEF RemoveList
  <2>4. req'[p] = next
    BY <2>3, Turns
  <2>5. r.pc = "xList" /\ r.ret # "xNext"
    BY <1>5 DEF RemoveList, At, FreeInv, Pooled, RemovalLabel
  <2>6. \A u \in User : lease[u] # None /\ Covers(r, u) => u \in next.todo
    BY <2>2, <2>5 DEF Covers, Holders
  <2> QED
    BY <1>4, <2>2, <2>4, <2>6 DEF RemovalLabel
<1>6. CASE RemoveNext(p)
  <2>1. r.pc = "xNext"
    BY <1>6 DEF RemoveNext, At
  <2>2. CASE r.todo = {} /\ Finish(p)
    <3>1. \A u \in User : ~Covers(r, u)
      BY <2>1, <2>2 DEF Covers
    <3>2. Pooled(req[p])'
      BY <2>2, FreeTurns DEF Pooled, ChoiceLabel
    <3>3. \A u \in User : lease'[u] # None => In(lease[u].acct)'
      BY <1>2, <1>3, <3>1 DEF In
    <3> QED
      BY <1>2, <3>2, <3>3, FreeStep DEF RowsKept
  <2>3. ASSUME NEW v \in r.todo,
               Become(p, [r EXCEPT !.pc = "lGet", !.user = v, !.todo = @ \ {v}])
        PROVE  FreeInv'
    <3>1. PICK next : next = [r EXCEPT !.pc = "lGet", !.user = v, !.todo = @ \ {v}]
      OBVIOUS
    <3>2. next.pc = "lGet" /\ next.ret = r.ret /\ next.user = v /\ next.todo = r.todo \ {v}
      BY <1>1, <3>1 DEF Request
    <3>3. req'[p] = next
      BY <2>3, <3>1, Turns
    <3>4. CASE r.ret = "xNext"
      BY <1>4, <2>1, <3>2, <3>3, <3>4 DEF RemovalLabel, Covers
    <3>5. CASE r.ret # "xNext"
      <4>1. Pooled(req[p])'
        BY <3>2, <3>3, <3>5 DEF Pooled, ChoiceLabel
      <4>2. Loose(r)
        BY <2>1, <3>5 DEF Loose
      <4> QED
        BY <1>2, <4>1, <4>2, LooseStep, StillKept
    <3> QED
      BY <3>4, <3>5
  <2> QED
    BY <1>6, <2>2, <2>3 DEF RemoveNext
<1> QED
  BY <1>5, <1>6

LEMMA StartFree ==
  ASSUME Alone, TypeOK, FreeInv, NEW p \in Proc, Start(p)
  PROVE  FreeInv'
<1> DEFINE r == req[p]
<1>1. r \in Request /\ r.pc = "idle" /\ RowsKept
  BY Locals, StillKept DEF Start, StartAcquire, StartRotate, StartRenew, StartStatus,
     StartRelease, StartRemove, StartSweep, Accepts, At
<1>2. Loose(r)
  BY <1>1 DEF FreeInv, Pooled, RemovalLabel, Loose
<1>3. ASSUME NEW next, Become(p, next), UNCHANGED <<lease, pool>>, next.ret # "xNext",
             next.pc \in {"aRead", "sRead", "nRead", "lGet", "wLease"}
      PROVE  FreeInv'
  <2>1. req'[p] = next
    BY <1>3, Turns
  <2>2. Pooled(req[p])'
    BY <1>3, <2>1 DEF Pooled, ChoiceLabel
  <2> QED
    BY <1>1, <1>2, <1>3, <2>2, LooseStep, StillKept
<1>4. ASSUME NEW u \in User, NEW l \in {"aRead", "sRead", "nRead", "lGet"},
             Become(p, [Idle EXCEPT !.pc = l, !.user = u]), UNCHANGED <<lease, pool>>
      PROVE  FreeInv'
  <2>1. PICK next : next = [Idle EXCEPT !.pc = l, !.user = u]
    OBVIOUS
  <2>2. next.pc = l /\ next.ret = "idle"
    BY <2>1 DEF Idle
  <2> QED
    BY <1>3, <1>4, <2>1, <2>2
<1>5. ASSUME NEW u \in User,
             StartAcquire(p, u) \/ StartRenew(p, u) \/ StartStatus(p, u) \/ StartRelease(p, u)
      PROVE  FreeInv'
  BY <1>4, <1>5 DEF StartAcquire, StartRenew, StartStatus, StartRelease
<1>6. ASSUME NEW u \in User, StartRotate(p, u) PROVE FreeInv'
  <2>1. PICK next : next = [Idle EXCEPT !.pc = "sRead", !.ret = "aRead", !.user = u, !.force = TRUE]
    OBVIOUS
  <2>2. next.pc = "sRead" /\ next.ret = "aRead"
    BY <2>1 DEF Idle
  <2>3. Become(p, next) /\ UNCHANGED <<lease, pool>>
    BY <1>6, <2>1 DEF StartRotate
  <2> QED
    BY <1>3, <2>2, <2>3
<1>7. ASSUME StartSweep(p) PROVE FreeInv'
  <2>1. PICK next : next = [Idle EXCEPT !.pc = "wLease", !.ret = "wLease", !.todo = LeaseUsers]
    OBVIOUS
  <2>2. next.pc = "wLease" /\ next.ret = "wLease"
    BY <2>1 DEF Idle
  <2>3. Become(p, next) /\ UNCHANGED <<lease, pool>>
    BY <1>7, <2>1 DEF StartSweep
  <2> QED
    BY <1>3, <2>2, <2>3
\* The removal takes one account out of the pool; its leases are all covered.
<1>8. ASSUME NEW a \in Account, StartRemove(p, a) PROVE FreeInv'
  <2>1. PICK next : next = [Idle EXCEPT !.pc = "xList", !.acct = a]
    OBVIOUS
  <2>2. next.pc = "xList" /\ next.ret = "idle" /\ next.acct = a
    BY <2>1 DEF Idle
  <2>3. Become(p, next) /\ lease' = lease /\ pool' = [pool EXCEPT ![a].state = "removed"]
    BY <1>8, <2>1 DEF StartRemove
  <2>4. req'[p] = next
    BY <2>3, Turns
  <2>5. Pooled(req[p])'
    BY <2>2, <2>4 DEF Pooled, ChoiceLabel
  <2>6. ASSUME NEW u \in User, lease'[u] # None PROVE In(lease[u].acct)' \/ Covers(req[p], u)'
    <3>1. In(lease[u].acct) /\ lease[u].acct \in Account
      BY <1>2, <2>3, <2>6, LooseLeases DEF TypeOK, StoreTypeOK, Lease
    <3>2. CASE lease[u].acct = a
      BY <2>2, <2>3, <2>4, <3>2 DEF Covers
    <3>3. CASE lease[u].acct # a
      BY <2>3, <3>1, <3>3 DEF In, TypeOK, ServiceTypeOK
    <3> QED
      BY <3>2, <3>3
  <2> QED
    BY <1>1, <2>5, <2>6, FreeStep DEF RowsKept
<1> QED
  BY <1>5, <1>6, <1>7, <1>8 DEF Start

LEMMA AroundFree ==
  ASSUME TypeOK, FreeInv, "crash" \notin Env, "unbind" \notin Env, Environment \/ UNCHANGED vars
  PROVE  FreeInv'
<1>1. req' = req
  BY DEF Environment, Expire, ExpireMeta, EndCycle, RefreshCycle, SyncToken, Unbind,
     SetEnabled, AddMember, CloseCircuit, Rebind, Crash, vars
<1>2. \A u \in User : lease'[u] # None => lease'[u] = lease[u]
  <2>1. CASE lease' = lease
    BY <2>1
  <2>2. ASSUME NEW v \in User, Expire(v)
        PROVE  \A u \in User : lease'[u] # None => lease'[u] = lease[u]
    BY <2>2 DEF Expire, DelLeaseKey, TypeOK, StoreTypeOK
  <2> QED
    BY <2>1, <2>2 DEF Environment, ExpireMeta, DelRevokeMeta, EndCycle, RefreshCycle, SyncToken,
       Unbind, SetEnabled, AddMember, CloseCircuit, Rebind, Crash, vars
<1>3. PoolKept
  <2>1. CASE pool' = pool
    BY <2>1, StillKept
  <2>2. ASSUME NEW a \in Account, SetEnabled(a) PROVE PoolKept
    BY <2>2 DEF SetEnabled, PoolKept, In, TypeOK, ServiceTypeOK, Member
  <2>3. ASSUME NEW a \in Account, AddMember(a) PROVE PoolKept
    <3>1. PICK m : m = IF pool[a].state = "removed"
                       THEN [state |-> "enabled", fails |-> 0, open |-> FALSE]
                       ELSE [pool[a] EXCEPT !.state = "enabled"]
      OBVIOUS
    <3>2. m.state = "enabled"
      BY <3>1 DEF TypeOK, ServiceTypeOK, Member
    <3>3. pool' = [pool EXCEPT ![a] = m]
      BY <2>3, <3>1 DEF AddMember
    <3> QED
      BY <3>2, <3>3 DEF PoolKept, In, TypeOK, ServiceTypeOK
  <2>4. ASSUME NEW a \in Account, CloseCircuit(a) PROVE PoolKept
    BY <2>4 DEF CloseCircuit, PoolKept, In, TypeOK, ServiceTypeOK, Member
  <2> QED
    BY <2>1, <2>2, <2>3, <2>4 DEF Environment, Expire, ExpireMeta, EndCycle, RefreshCycle,
       SyncToken, Unbind, Rebind, Crash, vars
<1>4. RowsKept
  <2>1. CASE row' = row
    BY <2>1, StillKept
  <2>2. ASSUME NEW a \in Account, EndCycle(a) \/ RefreshCycle(a) \/ Rebind(a) \/ SyncToken(a)
        PROVE  RowsKept
    <3>1. \A b \in Account : row[b].bound
      BY DEF FreeInv
    <3>2. CASE EndCycle(a)
      BY <3>1, <3>2 DEF EndCycle, RowsKept, TypeOK, ServiceTypeOK, Row
    <3>3. CASE RefreshCycle(a)
      BY <3>1, <3>3 DEF RefreshCycle, RowsKept, TypeOK, ServiceTypeOK, Row
    <3>4. CASE Rebind(a)
      BY <3>1, <3>4 DEF Rebind, RowsKept, TypeOK, ServiceTypeOK, Row
    <3>5. CASE SyncToken(a)
      BY <3>1, <3>5 DEF SyncToken, StoreToken, RowsKept, TypeOK, ServiceTypeOK, Row
    <3> QED
      BY <2>2, <3>2, <3>3, <3>4, <3>5
  <2> QED
    BY <2>1, <2>2 DEF Environment, Expire, ExpireMeta, Unbind, SetEnabled, AddMember,
       CloseCircuit, Crash, vars
<1>5. ASSUME NEW a \in Account, In(a) PROVE In(a)'
  BY <1>3, <1>5 DEF PoolKept
<1>6. ASSUME NEW u \in User, lease'[u] # None
      PROVE  In(lease[u].acct)' \/ \E p \in Proc : Covers(req[p], u)'
  <2>1. lease'[u] = lease[u]
    BY <1>2, <1>6
  <2>2. PICK a \in Account : a = lease[u].acct
    BY <1>6, <2>1 DEF TypeOK, StoreTypeOK, Lease
  <2>3. In(a) \/ \E p \in Proc : Covers(req[p], u)
    BY <1>6, <2>1, <2>2 DEF FreeInv
  <2>4. CASE In(a)
    BY <1>5, <2>1, <2>2, <2>4 DEF In
  <2>5. ASSUME NEW p \in Proc, Covers(req[p], u) PROVE Covers(req[p], u)'
    BY <1>1, <2>1, <2>5 DEF Covers
  <2> QED
    BY <2>3, <2>4, <2>5
<1>7. ASSUME NEW p \in Proc PROVE Pooled(req[p])'
  <2>1. PICK r : r = req[p] /\ req'[p] = r
    BY <1>1
  <2>2. /\ r.pc \in ChoiceLabel => r.acct \in Account
        /\ r.pc \in {"nCheck", "nLease"} => r.cur.acct \in Account
    BY <2>1 DEF TypeOK, ServiceTypeOK, Bound, Request, ChoiceLabel, Lease
  <2>3. Pooled(r)
    BY <2>1 DEF FreeInv
  <2>4. /\ r.pc \in ChoiceLabel => In(r.acct)'
        /\ r.pc \in {"nCheck", "nLease"} => In(r.cur.acct)'
    BY <1>5, <2>2, <2>3 DEF Pooled
  <2> QED
    BY <2>1, <2>3, <2>4 DEF Pooled, In
<1> QED
  BY <1>4, <1>6, <1>7 DEF FreeInv, RowsKept

LEMMA FreeInvariant ==
  ASSUME Alone, "crash" \notin Env, "unbind" \notin Env
  PROVE  Spec => []FreeInv
<1>1. Init => FreeInv
  BY DEF Init, StoreInit, FreeInv, Pooled, Idle, ChoiceLabel
<1>2. ASSUME TypeOK, FreeInv, [Next]_vars PROVE FreeInv'
  <2>1. CASE Environment \/ UNCHANGED vars
    BY <1>2, <2>1, AroundFree
  <2>2. ASSUME NEW p \in Proc, Start(p) PROVE FreeInv'
    BY <1>2, <2>2, StartFree
  <2>3. ASSUME NEW p \in Proc, Continue(p) PROVE FreeInv'
    BY <1>2, <2>3, LooseAcquire, LooseRest, SetLeaseFree, ReleaseFree, RemoveFree DEF Continue
  <2> QED
    BY <1>2, <2>1, <2>2, <2>3 DEF Next
<1> QED
  BY <1>1, <1>2, TypeCorrect, PTL DEF Spec

\* While one handler runs at a time, none of them dies and no account is
\* unbound under it, an account that was removed from the pool has no renters
\* when the removal has answered.
THEOREM RemovedIsFree ==
  ASSUME Alone, "crash" \notin Env, "unbind" \notin Env
  PROVE  Spec => []RemovedAccountIsFree
<1> QED
  BY FreeInvariant, FreeInvImplies, TypeCorrect, PTL

-----------------------------------------------------------------------------
\* The cycle starts a lease is stamped with are no later than those on record.
Stamped(u) ==
    lease[u] # None =>
        /\ lease[u].pool \in Nat /\ lease[u].pool <= row[lease[u].acct].cycle
        /\ \A b \in OwnAccount(u) : lease[u].own \in Nat /\ lease[u].own <= row[b].cycle

StampInv ==
    /\ \A u \in User : Stamped(u)
    /\ \A a \in Account : row[a].bound

ReleaseLabel == {"lGet", "lDel", "lMeta", "lPop", "lCount", "lRevoke", "lRotate", "lStore"}

\* What a sweep goes by still holds when it acts on it.
Sweeps(r) ==
    /\ r.ret = "wLease" =>
         /\ r.pc \in {"wLease", "wCheck"} \cup ReleaseLabel
         /\ r.pc = "wCheck" => lease[r.user] \in {None, r.cur}
         /\ r.pc \in {"lGet", "lDel"} /\ lease[r.user] # None => Due(r.user, lease[r.user])
    /\ r.ret = "wOrphan" =>
         /\ r.pc \in {"wOrphan"} \cup ReleaseLabel
         /\ \A u \in r.todo : lease[u] = None
         /\ r.pc \in {"lGet", "lDel"} => lease[r.user] = None

SweepInv == \A p \in Proc : Sweeps(req[p])

\* A row stays bound, and its cycle runs on, ends, or is replaced by a later one.
RowsGoOn ==
    \A a \in Account :
        /\ row[a].bound /\ row'[a].bound
        /\ \/ row'[a].cycle = row[a].cycle /\ (row[a].ended => row'[a].ended)
           \/ row'[a].cycle > row[a].cycle

LEMMA RowStep ==
  ASSUME TypeOK, StampInv, "unbind" \notin Env, [Next]_vars
  PROVE  RowsGoOn
<1>1. \A a \in Account : row[a].bound /\ row[a].cycle \in Nat
  BY DEF StampInv, TypeOK, ServiceTypeOK, Row
<1>2. CASE row' = row
  BY <1>1, <1>2 DEF RowsGoOn
<1>3. ASSUME NEW a \in Account, StoreInvalid(a) PROVE RowsGoOn
  BY <1>1, <1>3 DEF StoreInvalid, RowsGoOn, TypeOK, ServiceTypeOK, Row
<1>4. ASSUME NEW a \in Account, NEW s, StoreToken(a, s) PROVE RowsGoOn
  BY <1>1, <1>4 DEF StoreToken, RowsGoOn, TypeOK, ServiceTypeOK, Row
<1>5. ASSUME NEW a \in Account, EndCycle(a) PROVE RowsGoOn
  BY <1>1, <1>5 DEF EndCycle, RowsGoOn, TypeOK, ServiceTypeOK, Row
<1>6. ASSUME NEW a \in Account, RefreshCycle(a) PROVE RowsGoOn
  BY <1>1, <1>6 DEF RefreshCycle, RowsGoOn, TypeOK, ServiceTypeOK, Row
<1>7. ASSUME NEW a \in Account, Rebind(a) PROVE RowsGoOn
  BY <1>1, <1>7 DEF Rebind, RowsGoOn, TypeOK, ServiceTypeOK, Row
<1>8. CASE Environment \/ UNCHANGED vars
  BY <1>2, <1>4, <1>5, <1>6, <1>7, <1>8 DEF Environment, Expire, ExpireMeta, SyncToken, Unbind,
     SetEnabled, AddMember, CloseCircuit, Crash, vars
<1>9. ASSUME NEW p \in Proc, Start(p) \/ Continue(p) PROVE RowsGoOn
  <2>1. req[p].pc \in {"aRefresh", "aStore", "lRotate", "lStore"} => req[p].acct \in Account
    BY Locals DEF TypeOK, ServiceTypeOK, Bound, Request
  <2>2. CASE AcquireRefresh(p) \/ AcquireStore(p) \/ ReleaseRotate(p) \/ ReleaseStore(p)
    BY <1>2, <1>3, <1>4, <2>1, <2>2
       DEF AcquireRefresh, AcquireStore, ReleaseRotate, ReleaseStore, At
  <2>3. CASE ~(AcquireRefresh(p) \/ AcquireStore(p) \/ ReleaseRotate(p) \/ ReleaseStore(p))
    <3>1. row' = row
      BY <1>9, <2>3 DEF Start, StartAcquire, StartRotate, StartRenew, StartStatus, StartRelease,
         StartRemove, StartSweep, Continue, AcquireRead, AcquireSelect, AcquireCount,
         AcquireSnapshot, AcquireFail, AcquireResolve, AcquireSetLease, AcquireSetMeta, AcquireDone,
         RenewRead, RenewMeta, RenewCheck, RenewSetLease, RenewSetMeta, StatusRead, StatusMeta,
         StatusCheck, ReleaseGet, ReleaseDel, ReleaseMeta, ReleasePop, ReleaseCount, ReleaseRevoke,
         SweepLease, SweepCheck, SweepOrphan, RemoveList, RemoveNext
    <3> QED
      BY <1>2, <3>1
  <2> QED
    BY <2>2, <2>3
<1> QED
  BY <1>8, <1>9 DEF Next

\* A lease stays, goes, or is stamped anew.
LeaseGoesOn(u) ==
    \/ lease'[u] \in {None, lease[u]}
    \/ row' = row /\ \E a \in Account : \E s : lease'[u] = Stamp(u, a, s)

LEMMA LeaseStep ==
  ASSUME TypeOK, [Next]_vars, NEW u \in User
  PROVE  LeaseGoesOn(u)
<1>1. CASE lease' = lease
  BY <1>1 DEF LeaseGoesOn
<1>2. ASSUME NEW v, DelLeaseKey(v) PROVE LeaseGoesOn(u)
  BY <1>2 DEF DelLeaseKey, LeaseGoesOn, TypeOK, StoreTypeOK
<1>3. ASSUME NEW v, NEW a \in Account, NEW s, SetLeaseKey(v, Stamp(v, a, s)), row' = row
      PROVE  LeaseGoesOn(u)
  <2>1. PICK l : l = Stamp(v, a, s)
    OBVIOUS
  <2>2. lease' = [lease EXCEPT ![v] = l]
    BY <1>3, <2>1 DEF SetLeaseKey
  <2>3. u # v => lease'[u] = lease[u]
    BY <2>2 DEF TypeOK, StoreTypeOK
  <2>4. u = v => lease'[u] = Stamp(u, a, s)
    BY <2>1, <2>2 DEF TypeOK, StoreTypeOK
  <2> QED
    BY <1>3, <2>3, <2>4 DEF LeaseGoesOn
<1>4. CASE Environment \/ UNCHANGED vars
  BY <1>1, <1>2, <1>4 DEF Environment, Expire, ExpireMeta, DelRevokeMeta, EndCycle, RefreshCycle,
     SyncToken, Unbind, SetEnabled, AddMember, CloseCircuit, Rebind, Crash, vars
<1>5. ASSUME NEW p \in Proc, Start(p) \/ Continue(p) PROVE LeaseGoesOn(u)
  <2>1. /\ req[p].pc = "aLease" => req[p].acct \in Account
        /\ req[p].pc = "nLease" => req[p].cur.acct \in Account
    BY Locals DEF TypeOK, ServiceTypeOK, Bound, Request, Lease
  <2>2. CASE AcquireSetLease(p)
    BY <1>1, <1>3, <2>1, <2>2 DEF AcquireSetLease, At
  <2>3. CASE RenewSetLease(p)
    BY <1>1, <1>3, <2>1, <2>3 DEF RenewSetLease, At
  <2>4. CASE ReleaseDel(p)
    BY <1>2, <2>4 DEF ReleaseDel
  <2>5. CASE ~(AcquireSetLease(p) \/ RenewSetLease(p) \/ ReleaseDel(p))
    <3>1. lease' = lease
      BY <1>5, <2>5 DEF Start, StartAcquire, StartRotate, StartRenew, StartStatus, StartRelease,
         StartRemove, StartSweep, Continue, AcquireRead, AcquireSelect, AcquireCount,
         AcquireSnapshot, AcquireRefresh, AcquireStore, AcquireFail, AcquireResolve, AcquireSetMeta,
         AcquireDone, RenewRead, RenewMeta, RenewCheck, RenewSetMeta, StatusRead, StatusMeta,
         StatusCheck, ReleaseGet, ReleaseMeta, ReleasePop, ReleaseCount, ReleaseRevoke,
         ReleaseRotate, ReleaseStore, SweepLease, SweepCheck, SweepOrphan, RemoveList, RemoveNext,
         SetRevokeMeta, DelRevokeMeta
    <3> QED
      BY <1>1, <3>1
  <2> QED
    BY <2>2, <2>3, <2>4, <2>5
<1> QED
  BY <1>4, <1>5 DEF Next

LEMMA StampStep == TypeOK /\ StampInv /\ "unbind" \notin Env /\ [Next]_vars => StampInv'
<1> SUFFICES ASSUME TypeOK, StampInv, "unbind" \notin Env, [Next]_vars PROVE StampInv'
  OBVIOUS
<1>1. RowsGoOn
  BY RowStep
<1>2. \A a \in Account : row[a].cycle \in Nat /\ row'[a].cycle \in Int /\ row'[a].cycle >= row[a].cycle
  <2>1. TypeOK'
    BY StepTyped
  <2>2. \A a \in Account : row[a].cycle \in Nat /\ row'[a].cycle \in Nat
    BY <2>1 DEF TypeOK, ServiceTypeOK, Row
  <2> QED
    BY <1>1, <2>2 DEF RowsGoOn
<1>3. \A u \in User : OwnAccount(u)' = OwnAccount(u)
  BY <1>1 DEF RowsGoOn, OwnAccount
<1>4. ASSUME NEW u \in User, lease'[u] # None, lease'[u] = lease[u] PROVE Stamped(u)'
  <2>1. /\ lease[u].pool \in Nat /\ lease[u].pool <= row[lease[u].acct].cycle
        /\ \A b \in OwnAccount(u) : lease[u].own \in Nat /\ lease[u].own <= row[b].cycle
    BY <1>4 DEF StampInv, Stamped
  <2>2. lease[u].acct \in Account /\ OwnAccount(u) \subseteq Account
    BY <1>4 DEF TypeOK, StoreTypeOK, Lease, OwnAccount
  <2>3. lease'[u].pool <= row'[lease'[u].acct].cycle
    BY <1>2, <1>4, <2>1, <2>2
  <2>4. \A b \in OwnAccount(u) : lease'[u].own \in Nat /\ lease'[u].own <= row'[b].cycle
    BY <1>2, <1>4, <2>1, <2>2
  <2> QED
    BY <1>3, <1>4, <2>1, <2>3, <2>4 DEF Stamped
<1>5. ASSUME NEW u \in User, row' = row, NEW a \in Account, NEW s, lease'[u] = Stamp(u, a, s)
      PROVE  Stamped(u)'
  <2>1. PICK l : l = Stamp(u, a, s)
    OBVIOUS
  <2>2. l.acct = a /\ l.pool = row[a].cycle
    BY <2>1 DEF Stamp
  <2>3. ASSUME NEW b \in OwnAccount(u) PROVE l.own = row[b].cycle
    <3>1. (CHOOSE c \in OwnAccount(u) : TRUE) = b
      <4>1. PICK c : c = CHOOSE x \in OwnAccount(u) : TRUE
        OBVIOUS
      <4>2. c \in OwnAccount(u)
        BY <2>3, <4>1
      <4>3. u # None
        BY NoneIsNoUser
      <4> QED
        BY <2>3, <4>1, <4>2, <4>3, ServiceAssumption DEF OwnAccount
    <3>2. OwnAccount(u) # {}
      BY <2>3
    <3>3. l.own = IF OwnAccount(u) = {} THEN None ELSE row[CHOOSE c \in OwnAccount(u) : TRUE].cycle
      BY <2>1 DEF Stamp
    <3> QED
      BY <3>1, <3>2, <3>3
  <2>4. \A b \in OwnAccount(u) : l.own = row[b].cycle /\ b \in Account
    BY <2>3 DEF OwnAccount
  <2>5. /\ l.pool \in Nat /\ l.pool <= row'[l.acct].cycle
        /\ \A b \in OwnAccount(u) : l.own \in Nat /\ l.own <= row'[b].cycle
    BY <1>2, <1>5, <2>2, <2>4
  <2>6. lease'[u] = l
    BY <1>5, <2>1
  <2> QED
    BY <1>3, <2>5, <2>6 DEF Stamped
<1>6. ASSUME NEW u \in User PROVE Stamped(u)'
  <2>1. LeaseGoesOn(u)
    BY LeaseStep
  <2>2. CASE lease'[u] = None
    BY <2>2 DEF Stamped
  <2> QED
    BY <1>4, <1>5, <2>1, <2>2 DEF LeaseGoesOn
<1> QED
  BY <1>1, <1>6 DEF StampInv, RowsGoOn

\* A lease that is due stays due as long as it is not written again.
LEMMA DueGoesOn ==
  ASSUME TypeOK, StampInv, RowsGoOn, TypeOK', NEW u \in User, lease[u] # None,
         lease'[u] = lease[u], Due(u, lease[u])
  PROVE  Due(u, lease[u])'
<1>1. PICK l : l = lease[u]
  OBVIOUS
<1>2. ASSUME NEW a \in Account, NEW snap \in Nat, snap <= row[a].cycle, CycleReason(a, snap)
      PROVE  CycleReason(a, snap)'
  <2>1. row[a].cycle \in Nat /\ row'[a].cycle \in Nat /\ snap # None
    BY NoneIsNoCycle DEF TypeOK, ServiceTypeOK, Row
  <2>2. CASE row'[a].cycle > row[a].cycle
    <3>1. snap # row'[a].cycle
      BY <1>2, <2>1, <2>2
    <3> QED
      BY <2>1, <3>1 DEF CycleReason
  <2>3. CASE row'[a].cycle = row[a].cycle /\ (row[a].ended => row'[a].ended)
    BY <1>2, <2>3 DEF CycleReason
  <2> QED
    BY <2>2, <2>3 DEF RowsGoOn
<1>3. /\ l.acct \in Account /\ l.pool \in Nat /\ l.pool <= row[l.acct].cycle
      /\ \A b \in OwnAccount(u) : b \in Account /\ l.own \in Nat /\ l.own <= row[b].cycle
  BY <1>1 DEF StampInv, Stamped, TypeOK, StoreTypeOK, Lease, OwnAccount
<1>4. OwnAccount(u)' = OwnAccount(u)
  BY DEF RowsGoOn, OwnAccount
<1>5. Due(u, l)'
  <2>1. BillingMode
    BY DEF Due
  <2>2. CASE CycleReason(l.acct, l.pool)
    BY <1>2, <1>3, <2>1, <2>2 DEF Due
  <2>3. ASSUME NEW b \in OwnAccount(u) \ {l.acct}, CycleReason(b, l.own) PROVE Due(u, l)'
    <3>1. CycleReason(b, l.own)'
      BY <1>2, <1>3, <2>3
    <3> QED
      BY <1>4, <2>1, <2>3, <3>1 DEF Due
  <2>4. CycleReason(l.acct, l.pool) \/ \E b \in OwnAccount(u) \ {l.acct} : CycleReason(b, l.own)
    BY <1>1 DEF Due
  <2> QED
    BY <2>2, <2>3, <2>4
<1> QED
  BY <1>1, <1>5

\* A handler that does not sweep does not come to.
LEMMA KeepsReturn ==
  ASSUME TypeOK, NEW p \in Proc, Continue(p), ~SweepLease(p), ~RemoveList(p)
  PROVE  req'[p].ret \in {req[p].ret, "idle"}
<1> DEFINE r == req[p]
<1>1. r \in Request
  BY Locals
<1>2. CASE \/ ReleaseGet(p) \/ ReleaseDel(p) \/ ReleaseMeta(p) \/ ReleasePop(p)
           \/ ReleaseCount(p) \/ ReleaseRevoke(p) \/ ReleaseRotate(p) \/ ReleaseStore(p)
  BY <1>2, ReleaseMoves, FreeTurns
<1>3. CASE \/ AcquireRead(p) \/ AcquireSelect(p) \/ AcquireCount(p) \/ AcquireSnapshot(p)
           \/ AcquireRefresh(p) \/ AcquireResolve(p)
  <2>1. \/ Finish(p) \/ NextCandidate(p, r)
        \/ \E l : Goto(p, l)
        \/ \E c, x : Become(p, [r EXCEPT !.pc = "aSelect", !.cur = c, !.prefer = x])
        \/ \E a : Become(p, [r EXCEPT !.pc = "aCount", !.acct = a])
        \/ \E x : Become(p, [r EXCEPT !.pc = "aSnap", !.over = x])
        \/ \E s : Become(p, [r EXCEPT !.pc = "aRefresh", !.before = s])
        \/ \E m : Become(p, [r EXCEPT !.pc = "aStore", !.mint = m])
        \/ \E s : Become(p, [r EXCEPT !.pc = "aLease", !.sess = s, !.before = {}])
    BY <1>3 DEF AcquireRead, AcquireSelect, AcquireCount, AcquireSnapshot, AcquireRefresh,
       AcquireResolve
  <2>2. ASSUME NEW c, NEW x, Become(p, [r EXCEPT !.pc = "aSelect", !.cur = c, !.prefer = x])
        PROVE  req'[p].ret = r.ret
    BY <1>1, <2>2, Turns DEF Request
  <2>3. ASSUME NEW a, Become(p, [r EXCEPT !.pc = "aCount", !.acct = a]) PROVE req'[p].ret = r.ret
    BY <1>1, <2>3, Turns DEF Request
  <2>4. ASSUME NEW x, Become(p, [r EXCEPT !.pc = "aSnap", !.over = x]) PROVE req'[p].ret = r.ret
    BY <1>1, <2>4, Turns DEF Request
  <2>5. ASSUME NEW s, Become(p, [r EXCEPT !.pc = "aRefresh", !.before = s])
        PROVE  req'[p].ret = r.ret
    BY <1>1, <2>5, Turns DEF Request
  <2>6. ASSUME NEW m, Become(p, [r EXCEPT !.pc = "aStore", !.mint = m]) PROVE req'[p].ret = r.ret
    BY <1>1, <2>6, Turns DEF Request
  <2>7. ASSUME NEW s, Become(p, [r EXCEPT !.pc = "aLease", !.sess = s, !.before = {}])
        PROVE  req'[p].ret = r.ret
    BY <1>1, <2>7, Turns DEF Request
  <2> QED
    BY <2>1, <2>2, <2>3, <2>4, <2>5, <2>6, <2>7, FreeTurns
<1>4. CASE \/ AcquireStore(p) \/ AcquireFail(p) \/ AcquireSetLease(p) \/ AcquireSetMeta(p)
           \/ AcquireDone(p)
  BY <1>4, FreeTurns DEF AcquireStore, AcquireFail, AcquireSetLease, AcquireSetMeta, AcquireDone
<1>5. CASE RenewRead(p) \/ StatusRead(p)
  <2>1. PICK l, c : Become(p, [r EXCEPT !.pc = l, !.cur = c])
    BY <1>5 DEF RenewRead, StatusRead
  <2> QED
    BY <1>1, <2>1, Turns DEF Request
<1>6. CASE RenewMeta(p) \/ RenewCheck(p) \/ RenewSetLease(p)
  BY <1>6, FreeTurns DEF RenewMeta, RenewCheck, RenewSetLease
<1>7. CASE RenewSetMeta(p)
  <2>1. PICK next : next = [Idle EXCEPT !.pc = "sRead", !.user = r.user]
    OBVIOUS
  <2>2. next.ret = "idle"
    BY <2>1 DEF Idle
  <2>3. req'[p] = next
    BY <1>7, <2>1, Turns DEF RenewSetMeta
  <2> QED
    BY <2>2, <2>3
<1>8. CASE StatusMeta(p) \/ StatusCheck(p) \/ SweepCheck(p)
  <2>1. \/ Goto(p, "lGet") \/ Finish(p) \/ Resume(p, r)
        \/ \E x : Resume(p, [r EXCEPT !.exclude = x])
    BY <1>8 DEF StatusMeta, StatusCheck, SweepCheck
  <2> QED
    BY <2>1, FreeTurns
<1>9. CASE SweepOrphan(p) \/ RemoveNext(p)
  <2>1. Finish(p) \/ \E u : Become(p, [r EXCEPT !.pc = "lGet", !.user = u, !.todo = @ \ {u}])
    BY <1>9 DEF SweepOrphan, RemoveNext
  <2>2. ASSUME NEW u, Become(p, [r EXCEPT !.pc = "lGet", !.user = u, !.todo = @ \ {u}])
        PROVE  req'[p].ret = r.ret
    <3>1. PICK next : next = [r EXCEPT !.pc = "lGet", !.user = u, !.todo = @ \ {u}]
      OBVIOUS
    <3>2. next.ret = r.ret
      BY <1>1, <3>1 DEF Request
    <3> QED
      BY <2>2, <3>1, <3>2, Turns
  <2> QED
    BY <2>1, <2>2, FreeTurns
<1> QED
  BY <1>2, <1>3, <1>4, <1>5, <1>6, <1>7, <1>8, <1>9 DEF Continue

\* The leases a handler goes by: untouched, or gone.
LEMMA SweepGoesOn ==
  ASSUME TypeOK, TypeOK', StampInv, RowsGoOn, NEW r \in Request, Sweeps(r),
         r.ret = "wLease" /\ r.pc \in {"wCheck", "lGet", "lDel"} => r.user \in User,
         r.ret = "wOrphan" /\ r.pc \in {"lGet", "lDel"} => r.user \in User,
         \A u \in User : lease'[u] \in {None, lease[u]}
  PROVE  Sweeps(r)'
<1>1. ASSUME NEW u \in User, lease[u] # None => Due(u, lease[u]), lease'[u] # None
      PROVE  Due(u, lease[u])'
  BY <1>1, DueGoesOn
<1>2. r.ret = "wLease" /\ r.pc \in {"lGet", "lDel"} /\ lease'[r.user] # None => Due(r.user, lease[r.user])'
  <2> SUFFICES ASSUME r.ret = "wLease", r.pc \in {"lGet", "lDel"}, lease'[r.user] # None
               PROVE  Due(r.user, lease[r.user])'
    OBVIOUS
  <2>1. PICK u \in User : u = r.user
    OBVIOUS
  <2>2. lease[u] # None => Due(u, lease[u])
    BY <2>1 DEF Sweeps
  <2>3. Due(u, lease[u])'
    BY <1>1, <2>1, <2>2
  <2> QED
    BY <2>1, <2>3
<1>3. r.ret = "wLease" /\ r.pc = "wCheck" => lease'[r.user] \in {None, r.cur}
  BY DEF Sweeps
<1>4. r.ret = "wOrphan" =>
        /\ \A u \in r.todo : lease'[u] = None
        /\ r.pc \in {"lGet", "lDel"} => lease'[r.user] = None
  BY DEF Sweeps, Request
<1> QED
  BY <1>2, <1>3, <1>4 DEF Sweeps

LEMMA SweepOwnStep ==
  ASSUME TypeOK, TypeOK', StampInv, RowsGoOn, NEW p \in Proc, Sweeps(req[p]), Continue(p)
  PROVE  Sweeps(req[p])'
<1> DEFINE r == req[p]
<1>1. r \in Request /\ r.ret \in Continuation
  BY Locals DEF Request
<1> SUFFICES ASSUME req'[p].ret \in {"wLease", "wOrphan"} PROVE Sweeps(req[p])'
  BY DEF Sweeps
<1>2. CASE SweepLease(p)
  <2>1. r.pc = "wLease" /\ lease' = lease
    BY <1>2 DEF SweepLease, At
  <2>2. CASE Become(p, [Idle EXCEPT !.pc = "wOrphan", !.ret = "wOrphan", !.todo = OrphanUsers])
    <3>1. PICK next : next = [Idle EXCEPT !.pc = "wOrphan", !.ret = "wOrphan", !.todo = OrphanUsers]
      OBVIOUS
    <3>2. next.pc = "wOrphan" /\ next.ret = "wOrphan" /\ next.todo = OrphanUsers
      BY <3>1 DEF Idle
    <3>3. req'[p] = next
      BY <2>2, <3>1, Turns
    <3> QED
      BY <2>1, <3>2, <3>3 DEF Sweeps, OrphanUsers
  <2>3. ASSUME NEW u \in r.todo, Become(p, [r EXCEPT !.todo = @ \ {u}]) PROVE Sweeps(req[p])'
    <3>1. PICK next : next = [r EXCEPT !.todo = @ \ {u}]
      OBVIOUS
    <3>2. next.pc = "wLease" /\ next.ret = r.ret
      BY <1>1, <2>1, <3>1 DEF Request
    <3>3. req'[p] = next
      BY <2>3, <3>1, Turns
    <3>4. r.ret # "wOrphan"
      BY <2>1 DEF Sweeps, ReleaseLabel
    <3> QED
      BY <3>2, <3>3, <3>4 DEF Sweeps
  <2>4. ASSUME NEW u \in r.todo,
               Become(p, [r EXCEPT !.pc = "wCheck", !.todo = @ \ {u}, !.user = u, !.cur = lease[u]])
        PROVE  Sweeps(req[p])'
    <3>1. PICK next : next = [r EXCEPT !.pc = "wCheck", !.todo = @ \ {u}, !.user = u,
                                       !.cur = lease[u]]
      OBVIOUS
    <3>2. next.pc = "wCheck" /\ next.ret = r.ret /\ next.user = u /\ next.cur = lease[u]
      BY <1>1, <3>1 DEF Request
    <3>3. req'[p] = next
      BY <2>4, <3>1, Turns
    <3>4. r.ret # "wOrphan"
      BY <2>1 DEF Sweeps, ReleaseLabel
    <3> QED
      BY <2>1, <3>2, <3>3, <3>4 DEF Sweeps
  <2> QED
    BY <1>2, <2>2, <2>3, <2>4 DEF SweepLease
<1>3. CASE SweepCheck(p)
  <2>1. r.pc = "wCheck" /\ lease' = lease /\ row' = row /\ r.user \in User
    BY <1>3, Locals DEF SweepCheck, At
  <2>2. CASE Resume(p, r)
    BY <2>1, <2>2, FreeTurns DEF Sweeps, ReleaseLabel
  <2>3. CASE Goto(p, "lGet") /\ Due(r.user, r.cur)
    <3>1. PICK u \in User : u = r.user
      BY <2>1
    <3>2. r.ret # "wOrphan" /\ (r.ret = "wLease" => lease[u] \in {None, r.cur})
      BY <2>1, <3>1 DEF Sweeps, ReleaseLabel
    <3>3. r.ret = "wLease" /\ lease[u] # None => Due(u, lease[u])
      BY <2>3, <3>1, <3>2
    <3>4. r.ret = "wLease" /\ lease[u] # None => Due(u, lease[u])'
      BY <2>1, <3>3, DueGoesOn
    <3>5. req'[p].pc = "lGet" /\ req'[p].ret = r.ret /\ req'[p].user = u
      BY <2>3, <3>1, FreeTurns
    <3> QED
      BY <2>1, <3>2, <3>4, <3>5 DEF Sweeps, ReleaseLabel
  <2>4. ~Finish(p)
    BY FreeTurns
  <2> QED
    BY <1>3, <2>2, <2>3, <2>4 DEF SweepCheck
<1>4. CASE SweepOrphan(p)
  <2>1. r.pc = "wOrphan" /\ lease' = lease
    BY <1>4 DEF SweepOrphan, At
  <2>2. ASSUME NEW u \in r.todo, Become(p, [r EXCEPT !.pc = "lGet", !.user = u, !.todo = @ \ {u}])
        PROVE  Sweeps(req[p])'
    <3>1. PICK next : next = [r EXCEPT !.pc = "lGet", !.user = u, !.todo = @ \ {u}]
      OBVIOUS
    <3>2. next.pc = "lGet" /\ next.ret = r.ret /\ next.user = u /\ next.todo = r.todo \ {u}
      BY <1>1, <3>1 DEF Request
    <3>3. req'[p] = next
      BY <2>2, <3>1, Turns
    <3>4. r.ret # "wLease"
      BY <2>1 DEF Sweeps, ReleaseLabel
    <3>5. r.ret = "wOrphan" => \A v \in r.todo : lease[v] = None
      BY DEF Sweeps
    <3> QED
      BY <2>1, <3>2, <3>3, <3>4, <3>5 DEF Sweeps, ReleaseLabel
  <2>3. ~Finish(p)
    BY FreeTurns
  <2> QED
    BY <1>4, <2>2, <2>3 DEF SweepOrphan
<1>5. CASE \/ ReleaseGet(p) \/ ReleaseDel(p) \/ ReleaseMeta(p) \/ ReleasePop(p)
           \/ ReleaseCount(p) \/ ReleaseRevoke(p) \/ ReleaseRotate(p) \/ ReleaseStore(p)
  <2>1. req'[p].ret = r.ret
    BY <1>5, ReleaseMoves, FreeTurns
  <2>2. (r.user \in User /\ row' = row) \/ r.pc \notin {"lGet", "lDel"}
    BY <1>5, Locals DEF ReleaseGet, ReleaseDel, ReleaseMeta, ReleasePop, ReleaseCount, ReleaseRevoke,
       ReleaseRotate, ReleaseStore, At
  <2>3. \A u \in User : lease'[u] \in {None, lease[u]}
    BY <1>5, ReleaseMoves DEF TypeOK, StoreTypeOK
  <2>4. r.ret = "wOrphan" => \A u \in r.todo : lease'[u] = None
    BY <1>1, <2>3 DEF Sweeps, Request
  <2>5. ASSUME req'[p].pc \in {"lMeta", "lPop", "lCount", "lRevoke", "lRotate", "lStore"},
               req'[p].todo = r.todo
        PROVE  Sweeps(req[p])'
    BY <2>1, <2>4, <2>5 DEF Sweeps, ReleaseLabel
  <2>6. ASSUME r.pc = "lGet", req'[p].pc = "lDel", req'[p].user = r.user, req'[p].todo = r.todo
        PROVE  Sweeps(req[p])'
    <3>1. PICK u \in User : u = r.user
      BY <2>2, <2>6
    <3>2. r.ret = "wLease" /\ lease[u] # None => Due(u, lease[u])
      BY <2>6, <3>1 DEF Sweeps
    <3>3. r.ret = "wLease" /\ lease'[u] # None => Due(u, lease[u])'
      BY <2>3, <3>2, DueGoesOn
    <3>4. r.ret = "wOrphan" => lease'[u] = None
      BY <2>3, <2>6, <3>1 DEF Sweeps
    <3> QED
      BY <2>1, <2>4, <2>6, <3>1, <3>3, <3>4 DEF Sweeps, ReleaseLabel
  <2>7. ASSUME req'[p].pc = r.ret, r.ret # "idle" => req'[p].todo = r.todo PROVE Sweeps(req[p])'
    BY <2>1, <2>4, <2>7 DEF Sweeps, ReleaseLabel
  <2>8. ~Finish(p)
    BY FreeTurns
  <2> QED
    BY <1>5, <2>5, <2>6, <2>7, <2>8, ReleaseMoves
<1>6. CASE ~(SweepLease(p) \/ SweepCheck(p) \/ SweepOrphan(p)
             \/ ReleaseGet(p) \/ ReleaseDel(p) \/ ReleaseMeta(p) \/ ReleasePop(p)
             \/ ReleaseCount(p) \/ ReleaseRevoke(p) \/ ReleaseRotate(p) \/ ReleaseStore(p))
  <2>1. r.pc \notin {"wLease", "wCheck", "wOrphan"} \cup ReleaseLabel
    BY <1>6 DEF ReleaseLabel, Continue, AcquireRead, AcquireSelect, AcquireCount, AcquireSnapshot,
       AcquireRefresh, AcquireStore, AcquireFail, AcquireResolve, AcquireSetLease, AcquireSetMeta,
       AcquireDone, RenewRead, RenewMeta, RenewCheck, RenewSetLease, RenewSetMeta, StatusRead,
       StatusMeta, StatusCheck, RemoveList, RemoveNext, At
  <2>2. r.ret \notin {"wLease", "wOrphan"}
    BY <2>1 DEF Sweeps
  <2>3. CASE RemoveList(p)
    <3>1. PICK next : next = [Idle EXCEPT !.pc = "xNext", !.ret = "xNext", !.todo = Holders(r.acct)]
      OBVIOUS
    <3>2. next.ret = "xNext"
      BY <3>1 DEF Idle
    <3>3. Become(p, next)
      BY <2>3, <3>1 DEF RemoveList
    <3> QED
      BY <3>2, <3>3, Turns
  <2>4. CASE ~RemoveList(p)
    BY <1>6, <2>2, <2>4, KeepsReturn
  <2> QED
    BY <2>3, <2>4
<1> QED
  BY <1>2, <1>3, <1>4, <1>5, <1>6

LEMMA SweepStartStep ==
  ASSUME TypeOK, NEW p \in Proc, Start(p)
  PROVE  Sweeps(req[p])'
<1>1. ASSUME NEW next, Become(p, next), next.ret \notin {"wLease", "wOrphan"} PROVE Sweeps(req[p])'
  BY <1>1, Turns DEF Sweeps
<1>2. ASSUME NEW u, NEW l, Become(p, [Idle EXCEPT !.pc = l, !.user = u]) PROVE Sweeps(req[p])'
  <2>1. PICK next : next = [Idle EXCEPT !.pc = l, !.user = u]
    OBVIOUS
  <2>2. next.ret = "idle"
    BY <2>1 DEF Idle
  <2> QED
    BY <1>1, <1>2, <2>1, <2>2
<1>3. ASSUME NEW u,
             StartAcquire(p, u) \/ StartRenew(p, u) \/ StartStatus(p, u) \/ StartRelease(p, u)
      PROVE  Sweeps(req[p])'
  BY <1>2, <1>3 DEF StartAcquire, StartRenew, StartStatus, StartRelease
<1>4. ASSUME NEW u, StartRotate(p, u) PROVE Sweeps(req[p])'
  <2>1. PICK next : next = [Idle EXCEPT !.pc = "sRead", !.ret = "aRead", !.user = u, !.force = TRUE]
    OBVIOUS
  <2>2. next.ret = "aRead"
    BY <2>1 DEF Idle
  <2>3. Become(p, next)
    BY <1>4, <2>1 DEF StartRotate
  <2> QED
    BY <1>1, <2>2, <2>3
<1>5. ASSUME NEW a, StartRemove(p, a) PROVE Sweeps(req[p])'
  <2>1. PICK next : next = [Idle EXCEPT !.pc = "xList", !.acct = a]
    OBVIOUS
  <2>2. next.ret = "idle"
    BY <2>1 DEF Idle
  <2>3. Become(p, next)
    BY <1>5, <2>1 DEF StartRemove
  <2> QED
    BY <1>1, <2>2, <2>3
<1>6. ASSUME StartSweep(p) PROVE Sweeps(req[p])'
  <2>1. PICK next : next = [Idle EXCEPT !.pc = "wLease", !.ret = "wLease", !.todo = LeaseUsers]
    OBVIOUS
  <2>2. next.pc = "wLease" /\ next.ret = "wLease"
    BY <2>1 DEF Idle
  <2>3. Become(p, next)
    BY <1>6, <2>1 DEF StartSweep
  <2>4. req'[p] = next
    BY <2>3, Turns
  <2> QED
    BY <2>2, <2>4 DEF Sweeps
<1> QED
  BY <1>3, <1>4, <1>5, <1>6 DEF Start

LEMMA SweepInvStep ==
  ASSUME Alone, "unbind" \notin Env, TypeOK, StampInv, SweepInv, [Next]_vars
  PROVE  SweepInv'
<1>1. TypeOK' /\ RowsGoOn
  BY StepTyped, RowStep
<1>2. CASE req' = req
  <2> SUFFICES ASSUME NEW p \in Proc PROVE Sweeps(req[p])'
    BY DEF SweepInv
  <2>1. PICK r : r = req[p]
    OBVIOUS
  <2>2. r \in Request /\ Sweeps(r)
    BY <2>1, Locals DEF SweepInv
  <2>3. r.pc \in {"wCheck", "lGet", "lDel"} => r.user \in User
    BY <2>1, Locals
  <2>4. \A u \in User : lease'[u] \in {None, lease[u]}
    <3>1. CASE lease' = lease
      BY <3>1
    <3>2. ASSUME NEW v \in User, Expire(v) PROVE \A u \in User : lease'[u] \in {None, lease[u]}
      BY <3>2 DEF Expire, DelLeaseKey, TypeOK, StoreTypeOK
    <3>3. CASE Environment \/ UNCHANGED vars
      BY <3>1, <3>2, <3>3 DEF Environment, ExpireMeta, DelRevokeMeta, EndCycle, RefreshCycle,
         SyncToken, Unbind, SetEnabled, AddMember, CloseCircuit, Rebind, Crash, vars
    <3>4. ASSUME NEW q \in Proc, Start(q) \/ Continue(q)
          PROVE  \A u \in User : lease'[u] \in {None, lease[u]}
      <4>1. req'[q].pc = req[q].pc
        BY <1>2
      <4>2. ~(AcquireSetLease(q) \/ RenewSetLease(q))
        BY <4>1, FreeTurns DEF AcquireSetLease, RenewSetLease, At
      <4>3. CASE \/ ReleaseGet(q) \/ ReleaseDel(q) \/ ReleaseMeta(q) \/ ReleasePop(q)
                 \/ ReleaseCount(q) \/ ReleaseRevoke(q) \/ ReleaseRotate(q) \/ ReleaseStore(q)
        BY <4>3, ReleaseMoves DEF TypeOK, StoreTypeOK
      <4>4. CASE ~(\/ ReleaseGet(q) \/ ReleaseDel(q) \/ ReleaseMeta(q) \/ ReleasePop(q)
                   \/ ReleaseCount(q) \/ ReleaseRevoke(q) \/ ReleaseRotate(q) \/ ReleaseStore(q))
        <5>1. lease' = lease
          BY <3>4, <4>2, <4>4 DEF Start, StartAcquire, StartRotate, StartRenew, StartStatus,
             StartRelease, StartRemove, StartSweep, Continue, AcquireRead, AcquireSelect,
             AcquireCount, AcquireSnapshot, AcquireRefresh, AcquireStore, AcquireFail,
             AcquireResolve, AcquireSetMeta, AcquireDone, RenewRead, RenewMeta, RenewCheck,
             RenewSetMeta, StatusRead, StatusMeta, StatusCheck, SweepLease, SweepCheck,
             SweepOrphan, RemoveList, RemoveNext, SetRevokeMeta
        <5> QED
          BY <5>1
      <4> QED
        BY <4>3, <4>4
    <3> QED
      BY <3>3, <3>4 DEF Next
  <2>5. Sweeps(r)'
    BY <1>1, <2>2, <2>3, <2>4, SweepGoesOn
  <2>6. req'[p] = r
    BY <1>2, <2>1
  <2> QED
    BY <2>5, <2>6 DEF Sweeps
<1>3. ASSUME NEW p \in Proc, Start(p) \/ Continue(p) PROVE SweepInv'
  <2>1. Sweeps(req[p])'
    BY <1>1, <1>3, SweepStartStep, SweepOwnStep DEF SweepInv
  <2>2. \A q \in Proc : q = p
    BY DEF Alone
  <2>3. \A q \in Proc : Sweeps(req[q])'
    BY <2>1, <2>2
  <2> QED
    BY <2>3 DEF SweepInv
<1>4. ASSUME NEW p \in Proc, Crash(p) PROVE SweepInv'
  <2>1. req'[p].ret = "idle"
    BY <1>4, FreeTurns DEF Crash
  <2>2. \A q \in Proc : q = p
    BY DEF Alone
  <2>3. \A q \in Proc : Sweeps(req[q])'
    BY <2>1, <2>2 DEF Sweeps
  <2> QED
    BY <2>3 DEF SweepInv
<1> QED
  BY <1>2, <1>3, <1>4 DEF Next, Environment, Expire, ExpireMeta, EndCycle, RefreshCycle, SyncToken,
     Unbind, SetEnabled, AddMember, CloseCircuit, Rebind, vars

\* While one handler runs at a time and no account is unbound under it, the
\* sweep deletes no lease but one that is due for its billing cycle, however
\* the cycles run on between its look at the lease and the deletion.
THEOREM SweepIsDue ==
  ASSUME Alone, "unbind" \notin Env
  PROVE  Spec => SweepTakesOnlyDue
<1>1. Init => StampInv /\ SweepInv
  BY DEF Init, StoreInit, StampInv, Stamped, SweepInv, Sweeps, Idle
<1>2. Spec => [](StampInv /\ SweepInv)
  BY <1>1, StampStep, SweepInvStep, TypeCorrect, PTL DEF Spec
<1>3. ASSUME SweepInv
      PROVE  [\A p \in Proc :
                /\ At(p, "lDel") /\ Moved(p) /\ req[p].ret \in {"wLease", "wOrphan"}
                /\ lease[req[p].user] # None
                => Due(req[p].user, lease[req[p].user])]_vars
  BY <1>3 DEF SweepInv, Sweeps, At
<1> QED
  BY <1>2, <1>3, PTL DEF SweepTakesOnlyDue

-----------------------------------------------------------------------------
(* The sweep visits all, and what is due stays due                         *)

LEMMA StampInvariant == ASSUME "unbind" \notin Env PROVE Spec => []StampInv
<1>1. Init => StampInv
  BY DEF Init, StoreInit, StampInv, Stamped
<1> QED
  BY <1>1, StampStep, TypeCorrect, PTL DEF Spec

-----------------------------------------------------------------------------
\* Where a handler may be that a loop of the sweep has called.
Follows(r) ==
    /\ r.ret = "wLease" => r.pc \in {"wLease", "wCheck"} \cup ReleaseLabel
    /\ r.ret = "wOrphan" => r.pc \in {"wOrphan"} \cup ReleaseLabel

FollowInv == \A p \in Proc : Follows(req[p])

\* What a step of a sweep comes to while the account rows stay.
LEMMA SweepContinues ==
  ASSUME TypeOK, NEW p \in Proc, Follows(req[p]), \A a \in Account : row[a].bound, Continue(p),
         req[p].ret \in {"wLease", "wOrphan"}
  PROVE  /\ Follows(req[p])'
         /\ At(p, "idle")' => At(p, "wOrphan") /\ req[p].todo = {}
<1> DEFINE r == req[p]
<1>1. r \in Request
  BY Locals
<1>2. CASE SweepLease(p)
  <2>1. r.pc = "wLease" /\ r.ret = "wLease"
    BY <1>2 DEF SweepLease, At, Follows, ReleaseLabel
  <2>2. CASE Become(p, [Idle EXCEPT !.pc = "wOrphan", !.ret = "wOrphan", !.todo = OrphanUsers])
    <3>1. PICK next : next = [Idle EXCEPT !.pc = "wOrphan", !.ret = "wOrphan", !.todo = OrphanUsers]
      OBVIOUS
    <3>2. next.pc = "wOrphan" /\ next.ret = "wOrphan"
      BY <3>1 DEF Idle
    <3>3. req'[p] = next
      BY <2>2, <3>1, Turns
    <3> QED
      BY <3>2, <3>3 DEF Follows, At
  <2>3. ASSUME NEW u, Become(p, [r EXCEPT !.todo = @ \ {u}])
        PROVE  req'[p].ret = "wLease" /\ req'[p].pc = "wLease"
    <3>1. PICK next : next = [r EXCEPT !.todo = @ \ {u}]
      OBVIOUS
    <3>2. next.pc = "wLease" /\ next.ret = "wLease"
      BY <1>1, <2>1, <3>1 DEF Request
    <3> QED
      BY <2>3, <3>1, <3>2, Turns
  <2>4. ASSUME NEW u,
               Become(p, [r EXCEPT !.pc = "wCheck", !.todo = @ \ {u}, !.user = u, !.cur = lease[u]])
        PROVE  req'[p].ret = "wLease" /\ req'[p].pc = "wCheck"
    <3>1. PICK next : next = [r EXCEPT !.pc = "wCheck", !.todo = @ \ {u}, !.user = u,
                                       !.cur = lease[u]]
      OBVIOUS
    <3>2. next.pc = "wCheck" /\ next.ret = "wLease"
      BY <1>1, <2>1, <3>1 DEF Request
    <3> QED
      BY <2>4, <3>1, <3>2, Turns
  <2> QED
    BY <1>2, <2>2, <2>3, <2>4 DEF SweepLease, Follows, At
<1>3. CASE SweepCheck(p)
  <2>1. r.pc = "wCheck" /\ r.ret = "wLease"
    BY <1>3 DEF SweepCheck, At, Follows, ReleaseLabel
  <2>2. r.cur.acct \in Account
    BY <1>1, <2>1 DEF TypeOK, ServiceTypeOK, Bound, Request, Lease
  <2>3. Goto(p, "lGet") \/ Resume(p, r)
    BY <1>3, <2>2 DEF SweepCheck, ReasonRaises
  <2>4. req'[p].ret = "wLease" /\ req'[p].pc \in {"lGet", "wLease"}
    BY <2>1, <2>3, FreeTurns
  <2> QED
    BY <2>4 DEF Follows, At, ReleaseLabel
<1>4. CASE SweepOrphan(p)
  <2>1. r.pc = "wOrphan" /\ r.ret = "wOrphan"
    BY <1>4 DEF SweepOrphan, At, Follows, ReleaseLabel
  <2>2. ASSUME NEW u, Become(p, [r EXCEPT !.pc = "lGet", !.user = u, !.todo = @ \ {u}])
        PROVE  req'[p].ret = "wOrphan" /\ req'[p].pc = "lGet"
    <3>1. PICK next : next = [r EXCEPT !.pc = "lGet", !.user = u, !.todo = @ \ {u}]
      OBVIOUS
    <3>2. next.pc = "lGet" /\ next.ret = "wOrphan"
      BY <1>1, <2>1, <3>1 DEF Request
    <3> QED
      BY <2>2, <3>1, <3>2, Turns
  <2>3. CASE r.todo = {} /\ Finish(p)
    <3>1. req'[p].pc = "idle" /\ req'[p].ret = "idle"
      BY <2>3, FreeTurns
    <3> QED
      BY <2>1, <2>3, <3>1 DEF Follows, At
  <2> QED
    BY <1>4, <2>2, <2>3 DEF SweepOrphan, Follows, At, ReleaseLabel
<1>5. CASE \/ ReleaseGet(p) \/ ReleaseDel(p) \/ ReleaseMeta(p) \/ ReleasePop(p)
           \/ ReleaseCount(p) \/ ReleaseRevoke(p) \/ ReleaseRotate(p) \/ ReleaseStore(p)
  <2>1. r.pc = "lRevoke" => r.acct \in Account
    BY <1>1 DEF TypeOK, ServiceTypeOK, Bound, Request
  <2>2. /\ req'[p].ret = r.ret
        /\ req'[p].pc \in {"lDel", "lMeta", "lPop", "lCount", "lRevoke", "lRotate", "lStore", r.ret}
    BY <1>5, <2>1, ReleaseMoves
  <2> QED
    BY <2>2 DEF Follows, At, ReleaseLabel
<1>6. CASE ~(SweepLease(p) \/ SweepCheck(p) \/ SweepOrphan(p)
             \/ ReleaseGet(p) \/ ReleaseDel(p) \/ ReleaseMeta(p) \/ ReleasePop(p)
             \/ ReleaseCount(p) \/ ReleaseRevoke(p) \/ ReleaseRotate(p) \/ ReleaseStore(p))
  <2>1. r.pc \notin {"wLease", "wCheck", "wOrphan"} \cup ReleaseLabel
    BY <1>6 DEF ReleaseLabel, Continue, AcquireRead, AcquireSelect, AcquireCount, AcquireSnapshot,
       AcquireRefresh, AcquireStore, AcquireFail, AcquireResolve, AcquireSetLease, AcquireSetMeta,
       AcquireDone, RenewRead, RenewMeta, RenewCheck, RenewSetLease, RenewSetMeta, StatusRead,
       StatusMeta, StatusCheck, RemoveList, RemoveNext, At
  <2> QED
    BY <2>1 DEF Follows
<1> QED
  BY <1>2, <1>3, <1>4, <1>5, <1>6

\* A handler that enters a sweep's loop enters it at the top.
LEMMA OthersFollow ==
  ASSUME TypeOK, NEW p \in Proc, Follows(req[p]), \A a \in Account : row[a].bound,
         Start(p) \/ Continue(p)
  PROVE  Follows(req[p])'
<1>1. CASE Start(p)
  <2>1. Sweeps(req[p])'
    BY <1>1, SweepStartStep
  <2> QED
    BY <2>1 DEF Sweeps, Follows
<1>2. CASE Continue(p) /\ req[p].ret \in {"wLease", "wOrphan"}
  BY <1>2, SweepContinues
<1>3. CASE Continue(p) /\ req[p].ret \notin {"wLease", "wOrphan"}
  <2>1. CASE SweepLease(p)
    <3>1. req[p] \in Request /\ req[p].pc = "wLease"
      BY <2>1, Locals DEF SweepLease, At
    <3>2. \/ Become(p, [Idle EXCEPT !.pc = "wOrphan", !.ret = "wOrphan", !.todo = OrphanUsers])
          \/ \E u : \E next : /\ Become(p, next)
                              /\ \/ next = [req[p] EXCEPT !.todo = @ \ {u}]
                                 \/ next = [req[p] EXCEPT !.pc = "wCheck", !.todo = @ \ {u},
                                                          !.user = u, !.cur = lease[u]]
      BY <2>1 DEF SweepLease
    <3>3. CASE Become(p, [Idle EXCEPT !.pc = "wOrphan", !.ret = "wOrphan", !.todo = OrphanUsers])
      <4>1. PICK next : next = [Idle EXCEPT !.pc = "wOrphan", !.ret = "wOrphan",
                                            !.todo = OrphanUsers]
        OBVIOUS
      <4>2. next.pc = "wOrphan" /\ next.ret = "wOrphan"
        BY <4>1 DEF Idle
      <4> QED
        BY <3>3, <4>1, <4>2, Turns DEF Follows
    <3>4. ASSUME NEW u, NEW next, Become(p, next),
                 \/ next = [req[p] EXCEPT !.todo = @ \ {u}]
                 \/ next = [req[p] EXCEPT !.pc = "wCheck", !.todo = @ \ {u},
                                          !.user = u, !.cur = lease[u]]
          PROVE  Follows(req[p])'
      <4>1. next.ret = req[p].ret
        BY <3>1, <3>4 DEF Request
      <4> QED
        BY <1>3, <3>4, <4>1, Turns DEF Follows
    <3> QED
      BY <3>2, <3>3, <3>4
  <2>2. CASE RemoveList(p)
    <3>1. PICK next : next = [Idle EXCEPT !.pc = "xNext", !.ret = "xNext",
                                          !.todo = Holders(req[p].acct)]
      OBVIOUS
    <3>2. next.ret = "xNext"
      BY <3>1 DEF Idle
    <3>3. req'[p] = next
      BY <2>2, <3>1, Turns DEF RemoveList
    <3> QED
      BY <3>2, <3>3 DEF Follows
  <2>3. CASE ~SweepLease(p) /\ ~RemoveList(p)
    <3>1. req'[p].ret \in {req[p].ret, "idle"}
      BY <1>3, <2>3, KeepsReturn
    <3> QED
      BY <1>3, <3>1 DEF Follows
  <2> QED
    BY <2>1, <2>2, <2>3
<1> QED
  BY <1>1, <1>2, <1>3

\* A step is one handler's, or the environment's that touches none but to kill it.
LEMMA OneMoves ==
  ASSUME TypeOK, [Next]_vars, NEW q \in Proc, req'[q] # req[q]
  PROVE  Start(q) \/ Continue(q) \/ Crash(q)
<1>1. \A p \in Proc : \A r : Become(p, r) /\ req'[q] # req[q] => p = q
  BY DEF Become, TypeOK, ServiceTypeOK
<1>2. ASSUME NEW p \in Proc, Crash(p) PROVE p = q
  BY <1>1, <1>2 DEF Crash, Finish
<1>3. ASSUME NEW p \in Proc, Start(p) PROVE p = q
  BY <1>1, <1>3 DEF Start, StartAcquire, StartRotate, StartRenew, StartStatus, StartRelease,
     StartRemove, StartSweep
<1>4. ASSUME NEW p \in Proc, Continue(p) PROVE p = q
  <2>1. \E r : Become(p, r)
    BY <1>4 DEF Continue, AcquireRead, AcquireSelect, AcquireCount, AcquireSnapshot,
       AcquireRefresh, AcquireStore, AcquireFail, AcquireResolve, AcquireSetLease,
       AcquireSetMeta, AcquireDone, RenewRead, RenewMeta, RenewCheck, RenewSetLease,
       RenewSetMeta, StatusRead, StatusMeta, StatusCheck, ReleaseGet, ReleaseDel,
       ReleaseMeta, ReleasePop, ReleaseCount, ReleaseRevoke, ReleaseRotate, ReleaseStore,
       SweepLease, SweepCheck, SweepOrphan, RemoveList, RemoveNext, Goto, Finish, Resume,
       NextCandidate
  <2> QED
    BY <1>1, <2>1
<1> QED
  BY <1>2, <1>3, <1>4 DEF Next, Environment, Expire, ExpireMeta, EndCycle, RefreshCycle, SyncToken,
     Unbind, SetEnabled, AddMember, CloseCircuit, Rebind, vars

LEMMA FollowStep ==
  ASSUME TypeOK, StampInv, FollowInv, [Next]_vars
  PROVE  FollowInv'
<1> SUFFICES ASSUME NEW p \in Proc PROVE Follows(req[p])'
  BY DEF FollowInv
<1>1. Follows(req[p]) /\ \A a \in Account : row[a].bound
  BY DEF FollowInv, StampInv
<1>2. CASE req'[p] = req[p]
  BY <1>1, <1>2 DEF Follows
<1>3. CASE Crash(p)
  BY <1>3, FreeTurns DEF Crash, Follows
<1> QED
  BY <1>1, <1>2, <1>3, OneMoves, OthersFollow

\* However many handlers run beside it, a sweep that is not killed and whose
\* account rows stay ends only after it has been through both of its lists: no
\* renter it fails to reclaim keeps it from the others.
THEOREM SweepIsComplete ==
  ASSUME "crash" \notin Env, "unbind" \notin Env
  PROVE  Spec => SweepVisitsAll
<1>1. Init => FollowInv
  BY DEF Init, FollowInv, Follows, Idle
<1>2. Spec => [](TypeOK /\ StampInv /\ FollowInv)
  BY <1>1, FollowStep, StampInvariant, TypeCorrect, PTL DEF Spec
<1>3. ASSUME TypeOK, StampInv, FollowInv, [Next]_vars
      PROVE  [\A p \in Proc :
                req[p].ret \in {"wLease", "wOrphan"} /\ At(p, "idle")'
                => At(p, "wOrphan") /\ req[p].todo = {}]_vars
  <2> SUFFICES ASSUME NEW p \in Proc, req[p].ret \in {"wLease", "wOrphan"}, At(p, "idle")'
               PROVE  At(p, "wOrphan") /\ req[p].todo = {}
    OBVIOUS
  <2>1. Follows(req[p]) /\ \A a \in Account : row[a].bound
    BY <1>3 DEF FollowInv, StampInv
  <2>2. req[p].pc # "idle"
    BY <2>1 DEF Follows, ReleaseLabel
  <2>3. req'[p] # req[p] /\ ~Start(p)
    BY <2>2 DEF At, Start, StartAcquire, StartRotate, StartRenew, StartStatus, StartRelease,
       StartRemove, StartSweep, Accepts
  <2>4. Continue(p)
    BY <1>3, <2>3, OneMoves DEF Crash
  <2> QED
    BY <1>3, <2>1, <2>4, SweepContinues
<1> QED
  BY <1>2, <1>3, PTL DEF SweepVisitsAll, Spec

-----------------------------------------------------------------------------
RenewLabel == {"nRead", "nMeta", "nCheck", "nLease", "nSetMeta"}

\* The login acquire is about to record is not the one on record.
Fresh(r) ==
    /\ r.pc \notin RenewLabel
    /\ r.pc = "aLease" /\ r.sess # None => ~Names(lease[r.user], r.sess)

FreshInv == \A p \in Proc : Fresh(req[p])

\* Who writes a lease writes the account and the session he carries.
LEMMA LeaseWritten ==
  ASSUME TypeOK, [Next]_vars, NEW u \in User, lease'[u] \notin {None, lease[u]}
  PROVE  \E p \in Proc : /\ req[p].user = u
                         /\ \/ /\ req[p].pc = "aLease"
                               /\ lease'[u].sess = req[p].sess /\ lease'[u].acct = req[p].acct
                            \/ req[p].pc = "nLease" /\ lease'[u].acct = req[p].cur.acct
<1>1. lease' # lease
  OBVIOUS
<1>2. ASSUME NEW v PROVE ~DelLeaseKey(v)
  BY DEF DelLeaseKey, TypeOK, StoreTypeOK
<1>3. ASSUME NEW v, NEW a, NEW s, SetLeaseKey(v, Stamp(v, a, s))
      PROVE  v = u /\ lease'[u].sess = s /\ lease'[u].acct = a
  <2>1. PICK l : l = Stamp(v, a, s)
    OBVIOUS
  <2>2. l.sess = s /\ l.acct = a
    BY <2>1 DEF Stamp
  <2>3. lease' = [lease EXCEPT ![v] = l]
    BY <1>3, <2>1 DEF SetLeaseKey
  <2> QED
    BY <2>2, <2>3 DEF TypeOK, StoreTypeOK
<1>4. ~Environment /\ ~UNCHANGED vars
  BY <1>1, <1>2 DEF Environment, Expire, ExpireMeta, DelRevokeMeta, EndCycle, RefreshCycle,
     SyncToken, Unbind, SetEnabled, AddMember, CloseCircuit, Rebind, Crash, vars
<1>5. ASSUME NEW p \in Proc, Start(p) \/ Continue(p)
      PROVE  AcquireSetLease(p) \/ RenewSetLease(p)
  <2>1. ~ReleaseDel(p)
    BY <1>2 DEF ReleaseDel
  <2> QED
    BY <1>1, <1>5, <2>1 DEF Start, StartAcquire, StartRotate, StartRenew, StartStatus,
       StartRelease, StartRemove, StartSweep, Continue, AcquireRead, AcquireSelect, AcquireCount,
       AcquireSnapshot, AcquireRefresh, AcquireStore, AcquireFail, AcquireResolve, AcquireSetMeta,
       AcquireDone, RenewRead, RenewMeta, RenewCheck, RenewSetMeta, StatusRead, StatusMeta,
       StatusCheck, ReleaseGet, ReleaseMeta, ReleasePop, ReleaseCount, ReleaseRevoke,
       ReleaseRotate, ReleaseStore, SweepLease, SweepCheck, SweepOrphan, RemoveList, RemoveNext,
       SetRevokeMeta, DelRevokeMeta
<1>6. PICK p \in Proc : AcquireSetLease(p) \/ RenewSetLease(p)
  BY <1>4, <1>5 DEF Next
<1>7. CASE AcquireSetLease(p)
  BY <1>1, <1>3, <1>7 DEF AcquireSetLease, At
<1>8. CASE RenewSetLease(p)
  BY <1>1, <1>3, <1>8 DEF RenewSetLease, At
<1> QED
  BY <1>6, <1>7, <1>8

\* No handler comes to renew that was not started to, and only the resolution
\* of the session comes to record it.
LEMMA NeverRenews ==
  ASSUME TypeOK, NEW p \in Proc, req[p].pc \notin RenewLabel, "renew" \notin Ops[p],
         Start(p) \/ Continue(p)
  PROVE  /\ req'[p].pc \notin RenewLabel
         /\ req'[p].pc = "aLease" => AcquireResolve(p)
<1> DEFINE r == req[p]
<1>1. CASE Start(p)
  <2>1. ASSUME NEW u \in User, NEW l \in {"aRead", "sRead", "lGet"},
               Become(p, [Idle EXCEPT !.pc = l, !.user = u])
        PROVE  req'[p].pc = l
    <3>1. PICK next : next = [Idle EXCEPT !.pc = l, !.user = u]
      OBVIOUS
    <3>2. next.pc = l
      BY <3>1 DEF Idle
    <3> QED
      BY <2>1, <3>1, <3>2, Turns
  <2>2. ASSUME NEW u \in User,
               StartAcquire(p, u) \/ StartRenew(p, u) \/ StartStatus(p, u) \/ StartRelease(p, u)
        PROVE  req'[p].pc \in {"aRead", "sRead", "lGet"}
    BY <2>1, <2>2 DEF StartAcquire, StartRenew, StartStatus, StartRelease, Accepts
  <2>3. ASSUME NEW u \in User, StartRotate(p, u) PROVE req'[p].pc = "sRead"
    <3>1. PICK next : next = [Idle EXCEPT !.pc = "sRead", !.ret = "aRead", !.user = u, !.force = TRUE]
      OBVIOUS
    <3>2. next.pc = "sRead"
      BY <3>1 DEF Idle
    <3>3. Become(p, next)
      BY <2>3, <3>1 DEF StartRotate
    <3> QED
      BY <3>2, <3>3, Turns
  <2>4. ASSUME NEW a \in Account, StartRemove(p, a) PROVE req'[p].pc = "xList"
    <3>1. PICK next : next = [Idle EXCEPT !.pc = "xList", !.acct = a]
      OBVIOUS
    <3>2. next.pc = "xList"
      BY <3>1 DEF Idle
    <3>3. Become(p, next)
      BY <2>4, <3>1 DEF StartRemove
    <3> QED
      BY <3>2, <3>3, Turns
  <2>5. ASSUME StartSweep(p) PROVE req'[p].pc = "wLease"
    <3>1. PICK next : next = [Idle EXCEPT !.pc = "wLease", !.ret = "wLease", !.todo = LeaseUsers]
      OBVIOUS
    <3>2. next.pc = "wLease"
      BY <3>1 DEF Idle
    <3>3. Become(p, next)
      BY <2>5, <3>1 DEF StartSweep
    <3> QED
      BY <3>2, <3>3, Turns
  <2> QED
    BY <1>1, <2>2, <2>3, <2>4, <2>5 DEF Start, RenewLabel
<1>2. ~(RenewRead(p) \/ RenewMeta(p) \/ RenewCheck(p) \/ RenewSetLease(p) \/ RenewSetMeta(p))
  BY DEF RenewRead, RenewMeta, RenewCheck, RenewSetLease, RenewSetMeta, At, RenewLabel
<1>3. CASE AcquireResolve(p)
  BY <1>3, Ahead DEF RenewLabel
<1>4. CASE AcquireRead(p) \/ AcquireSelect(p) \/ AcquireCount(p) \/ AcquireSnapshot(p)
  BY <1>4, Ahead DEF RenewLabel
<1>5. CASE AcquireRefresh(p) \/ AcquireStore(p) \/ AcquireFail(p)
  BY <1>5, Ahead DEF RenewLabel
<1>6. CASE AcquireSetLease(p) \/ AcquireSetMeta(p) \/ AcquireDone(p)
  BY <1>6, Turns DEF AcquireSetLease, AcquireSetMeta, AcquireDone, RenewLabel
<1>7. CASE StatusRead(p) \/ StatusMeta(p) \/ StatusCheck(p)
  BY <1>7, Ahead DEF RenewLabel, Continuation
<1>8. CASE \/ ReleaseGet(p) \/ ReleaseDel(p) \/ ReleaseMeta(p) \/ ReleasePop(p)
           \/ ReleaseCount(p) \/ ReleaseRevoke(p) \/ ReleaseRotate(p) \/ ReleaseStore(p)
  <2>1. r.ret \in Continuation
    BY Locals DEF Request
  <2>2. req'[p].pc \in {"idle", "lDel", "lMeta", "lPop", "lCount", "lRevoke", "lRotate", "lStore", r.ret}
    BY <1>8, ReleaseMoves, Turns
  <2> QED
    BY <2>1, <2>2 DEF RenewLabel, Continuation
<1>9. CASE SweepLease(p) \/ SweepCheck(p) \/ SweepOrphan(p) \/ RemoveNext(p)
  BY <1>9, Ahead DEF RenewLabel, Continuation
<1>10. CASE RemoveList(p)
  <2>1. PICK next : next = [Idle EXCEPT !.pc = "xNext", !.ret = "xNext", !.todo = Holders(r.acct)]
    OBVIOUS
  <2>2. next.pc = "xNext"
    BY <2>1 DEF Idle
  <2>3. Become(p, next)
    BY <1>10, <2>1 DEF RemoveList
  <2> QED
    BY <2>2, <2>3, Turns DEF RenewLabel
<1> QED
  BY <1>1, <1>2, <1>3, <1>4, <1>5, <1>6, <1>7, <1>8, <1>9, <1>10 DEF Continue

\* The session resolved is the one acquire has opened, or a younger one.
LEMMA ResolvesFresh ==
  ASSUME Alone, TypeOK, LoginInv, NEW p \in Proc, AcquireResolve(p),
         req'[p].pc = "aLease"
  PROVE  Fresh(req[p])'
<1> DEFINE r == req[p]
<1>1. r \in Request /\ r.pc = "aResolve" /\ lease' = lease /\ r.user \in User
  BY Locals DEF AcquireResolve, At
<1>2. /\ r.mint \in live /\ r.mint.acct = r.acct
      /\ \A b \in r.before : b.acct = r.acct => b.n < r.mint.n
      /\ Youngest(r.mint)
  BY <1>1 DEF LoginInv, Knows
<1>3. ~NextCandidate(p, r)
  BY Turns
<1>4. PICK s \in PickNewSession(LiveOf(r.acct), r.before) \cup {None} :
        Become(p, [r EXCEPT !.pc = "aLease", !.sess = s, !.before = {}])
  BY <1>2, <1>3 DEF AcquireResolve
<1>5. ASSUME s # None PROVE ~Names(lease[r.user], s)
  <2>1. LiveOf(r.acct) \subseteq Session /\ r.mint \in LiveOf(r.acct)
    BY <1>2, SessionTypes DEF LiveOf
  <2>2. r.mint.n \in Nat
    BY <1>2, SessionTypes
  <2>3. r.mint \notin r.before
    BY <1>2, <2>2
  <2>4. s \in LiveOf(r.acct) /\ r.mint.n <= s.n
    BY <1>4, <1>5, <2>1, <2>3, PickYoung
  <2>5. s \in Session /\ s.acct = r.acct /\ ~(s.n < r.mint.n)
    BY <2>2, <2>4, SessionTypes DEF LiveOf
  <2>6. ~Recorded(r.user, s)
    BY <1>1, <1>2, <2>5 DEF Youngest
  <2> QED
    BY <2>6 DEF Recorded
<1>6. PICK next : next = [r EXCEPT !.pc = "aLease", !.sess = s, !.before = {}]
  OBVIOUS
<1>7. next.pc = "aLease" /\ next.sess = s /\ next.user = r.user
  BY <1>1, <1>6 DEF Request
<1>8. req'[p] = next
  BY <1>4, <1>6, Turns
<1> QED
  BY <1>1, <1>5, <1>7, <1>8 DEF Fresh, Names, RenewLabel

LEMMA FreshStep ==
  ASSUME Alone, \A p \in Proc : "renew" \notin Ops[p],
         TypeOK, LoginInv, FreshInv, [Next]_vars
  PROVE  FreshInv'
<1> SUFFICES ASSUME NEW p \in Proc PROVE Fresh(req[p])'
  BY DEF FreshInv
<1>1. Fresh(req[p])
  BY DEF FreshInv
<1>2. CASE req'[p] = req[p]
  <2>1. ASSUME req[p].pc = "aLease", req[p].sess # None PROVE ~Names(lease[req[p].user], req[p].sess)'
    <3>1. PICK u \in User : u = req[p].user
      BY <2>1, Locals
    <3>2. lease'[u] \in {None, lease[u]}
      <4>1. ASSUME lease'[u] \notin {None, lease[u]} PROVE FALSE
        <5>1. lease'[u].sess = req[p].sess
          BY <2>1, <4>1, LeaseWritten DEF Alone
        <5>2. req'[p].pc = "aLease" /\ lease' # lease
          BY <1>2, <2>1, <4>1
        <5>3. Next
          BY <5>2 DEF vars
        <5>4. ~Environment
          <6>1. \A v : ~DelLeaseKey(v)
            BY <4>1 DEF DelLeaseKey, TypeOK, StoreTypeOK
          <6> QED
            BY <5>2, <6>1 DEF Environment, Expire, ExpireMeta, DelRevokeMeta, EndCycle, RefreshCycle,
               SyncToken, Unbind, SetEnabled, AddMember, CloseCircuit, Rebind, Crash
        <5>5. Start(p) \/ Continue(p)
          BY <5>3, <5>4 DEF Next, Alone
        <5>6. AcquireResolve(p)
          BY <1>1, <5>2, <5>5, NeverRenews DEF Fresh
        <5> QED
          BY <5>2, <5>6 DEF AcquireResolve
      <4> QED
        BY <4>1
    <3> QED
      BY <1>1, <1>2, <2>1, <3>1, <3>2 DEF Fresh, Names
  <2> QED
    BY <1>1, <1>2, <2>1 DEF Fresh
<1>3. CASE Crash(p)
  BY <1>3, Turns DEF Crash, Fresh, RenewLabel
<1>4. CASE Start(p) \/ Continue(p)
  <2>1. req'[p].pc \notin RenewLabel /\ (req'[p].pc = "aLease" => AcquireResolve(p))
    BY <1>1, <1>4, NeverRenews DEF Fresh
  <2> QED
    BY <2>1, ResolvesFresh DEF Fresh
<1> QED
  BY <1>2, <1>3, <1>4, OneMoves

\* While one handler runs at a time and nobody renews, a lease that has come to
\* the end of its billing cycle, or of its renter's, stays due until it is given
\* up: acquiring again never extends the login on record, it replaces it.
THEOREM DueLeasesStayDue ==
  ASSUME Alone, "unbind" \notin Env, \A p \in Proc : "renew" \notin Ops[p]
  PROVE  Spec => DueStaysDue
<1>1. Init => FreshInv
  BY DEF Init, FreshInv, Fresh, RenewLabel, Idle
<1>2. Spec => [](TypeOK /\ LoginInv /\ StampInv /\ FreshInv)
  BY <1>1, FreshStep, LoginInvariant, StampInvariant, PTL DEF Spec
<1>3. ASSUME TypeOK, LoginInv, StampInv, FreshInv, [Next]_vars
      PROVE  [\A u \in User :
                /\ lease[u] # None /\ Due(u, lease[u]) /\ lease[u].sess # None
                /\ lease'[u] # None /\ lease'[u].sess = lease[u].sess
                => Due(u, lease[u])']_vars
  <2> SUFFICES ASSUME NEW u \in User, lease[u] # None, Due(u, lease[u]), lease[u].sess # None,
                      lease'[u] # None, lease'[u].sess = lease[u].sess
               PROVE  Due(u, lease[u])'
    OBVIOUS
  <2>1. lease'[u] = lease[u]
    <3>1. ASSUME NEW p \in Proc, req[p].user = u, req[p].pc = "aLease",
                 lease'[u].sess = req[p].sess
          PROVE  FALSE
      BY <1>3, <3>1 DEF FreshInv, Fresh, Names
    <3>2. \A p \in Proc : req[p].pc # "nLease"
      BY <1>3 DEF FreshInv, Fresh, RenewLabel
    <3> QED
      BY <1>3, <3>1, <3>2, LeaseWritten
  <2>2. RowsGoOn /\ TypeOK'
    BY <1>3, RowStep, StepTyped
  <2> QED
    BY <1>3, <2>1, <2>2, DueGoesOn
<1> QED
  BY <1>2, <1>3, PTL DEF DueStaysDue, Spec

=============================================================================
