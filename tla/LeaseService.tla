---------------------------- MODULE LeaseService ----------------------------
(***************************************************************************)
(* The lease life cycle of backend/app/api/cursor/proxy: the handlers of   *)
(* _CursorLeaseService (acquire, rotate, renew, status, release, the       *)
(* hourly sweep, the release that follows a pool removal) over the Redis   *)
(* lease keys, the account and pool rows and the Cursor auth service.      *)
(*                                                                         *)
(* The handlers are coroutines.  There is no lock anywhere, so every await *)
(* is a point where another handler, or the Celery worker, may run.  A     *)
(* handler is a process here: req[p] holds where it stands and its local   *)
(* variables, and each action is one of its Redis commands, row accesses   *)
(* or calls to Cursor (a scan, or a row read with the scan after it, is    *)
(* taken in one step).                                                     *)
(***************************************************************************)
EXTENDS LeaseStore

CONSTANTS
    Proc,        \* the handlers that may run at the same time
    Ops,         \* Ops[p]: the operations process p serves
    Env,         \* what the environment may do
    Limit,       \* Limit[a]: renters account a's tier allows, 0 = no limit
    Threshold,   \* circuit_fail_threshold
    BillingMode, \* lease_expiry_mode is billing_cycle
    ExcludeSelf, \* exclude_self_account
    Owner,       \* Owner[a]: the renter whose own account a is, or None
    MaxCycle     \* bound: the billing cycles of an account

Operation == {"acquire", "rotate", "renew", "status", "release", "sweep", "remove"}
Disturbance == {"expire", "metaExpire", "unbind", "cycle", "sync", "toggle",
                "recover", "denied", "httpError", "crash"}

ASSUME ServiceAssumption ==
    /\ IsFiniteSet(Proc)
    /\ Ops \in [Proc -> SUBSET Operation]
    /\ Env \subseteq Disturbance
    /\ Limit \in [Account -> Nat]
    /\ Threshold \in Nat \ {0}
    /\ BillingMode \in BOOLEAN
    /\ ExcludeSelf \in BOOLEAN
    /\ Owner \in [Account -> User \cup {None}]
    /\ \A a, b \in Account : Owner[a] = Owner[b] /\ Owner[a] # None => a = b
    /\ MaxCycle \in Nat

VARIABLES
    row,     \* row[a]: the CursorAccount row
    pool,    \* pool[a]: the CursorPoolMember row
    req,     \* req[p]: the handler process p is running
    granted  \* ghost. granted[u]: sessions of the credentials sent to renter u

vars == <<live, minted, lease, meta, row, pool, req, granted>>

-----------------------------------------------------------------------------
\* bound: the row exists; ok: bind_status; at: session of the stored access
\* token; cycle, ended: start of its billing cycle, and whether it is over.
Row == [bound : BOOLEAN, ok : BOOLEAN, at : Session, cycle : 0..MaxCycle,
        ended : BOOLEAN]

\* fails: circuit_fail_count, as far as the threshold; open: circuit_open_until
\* lies in the future.
Member == [state : {"enabled", "disabled", "removed"}, fails : 0..Threshold, open : BOOLEAN]

Label == {"idle",
          "aRead", "aSelect", "aCount", "aSnap", "aRefresh", "aStore", "aFail", "aResolve",
          "aLease", "aMeta", "aDone",
          "nRead", "nMeta", "nCheck", "nLease", "nSetMeta",
          "sRead", "sMeta", "sCheck",
          "lGet", "lDel", "lMeta", "lPop", "lCount", "lRevoke", "lRotate", "lStore",
          "wLease", "wCheck", "wOrphan", "xList", "xNext"}

\* Where a handler goes on when status or release, called as a subroutine,
\* returns.
Continuation == {"idle", "aRead", "wLease", "wOrphan", "xNext"}

Request ==
    [pc : Label, ret : Continuation,
     user : User \cup {None},      \* request_user_id
     force : BOOLEAN,              \* force_rotate
     exclude : SUBSET Account,     \* exclude
     prefer : Account \cup {None}, \* prefer_account_id
     cur : Lease \cup {None},      \* current: the lease read at the start
     acct : Account \cup {None},   \* candidate.account_id, or account_id
     over : BOOLEAN,               \* pool_account's cycle had ended when read
     before : SUBSET Session,      \* before_ids
     mint : MaybeSession,          \* session of the access token obtained
     sess : MaybeSession,          \* cursor_session_id
     last : BOOLEAN,               \* rotate_pool_oauth
     todo : SUBSET User]           \* users a loop has still to visit

Idle ==
    [pc |-> "idle", ret |-> "idle", user |-> None, force |-> FALSE,
     exclude |-> {}, prefer |-> None, cur |-> None, acct |-> None,
     over |-> FALSE, before |-> {}, mint |-> None, sess |-> None,
     last |-> FALSE, todo |-> {}]

\* Where a handler stands, the locals it goes on to use are assigned.
Bound(r) ==
    /\ r.pc \notin {"idle", "wLease", "wOrphan", "xList", "xNext"} => r.user # None
    /\ r.pc \in {"aCount", "aSnap", "aRefresh", "aStore", "aFail", "aResolve", "aLease",
                 "aMeta", "aDone", "lPop", "lCount", "lRevoke", "lRotate", "lStore",
                 "xList"} => r.acct # None
    /\ r.pc \in {"aStore", "aResolve", "aLease", "aMeta", "aDone", "lStore"}
         => r.mint # None
    /\ r.pc \in {"nCheck", "nLease", "nSetMeta", "sCheck", "wCheck"} => r.cur # None

ServiceTypeOK ==
    /\ row \in [Account -> Row]
    /\ pool \in [Account -> Member]
    /\ req \in [Proc -> Request]
    /\ \A p \in Proc : Bound(req[p])
    /\ granted \in [User -> SUBSET Session]

TypeOK == AuthTypeOK /\ StoreTypeOK /\ ServiceTypeOK

Init ==
    /\ AuthInit
    /\ StoreInit
    /\ row = [a \in Account |->
                [bound |-> TRUE, ok |-> TRUE, at |-> [acct |-> a, n |-> 1],
                 cycle |-> 0, ended |-> FALSE]]
    /\ pool = [a \in Account |-> [state |-> "enabled", fails |-> 0, open |-> FALSE]]
    /\ req = [p \in Proc |-> Idle]
    /\ granted = [u \in User |-> {}]

-----------------------------------------------------------------------------
\* Handler p goes on as r.
Become(p, r) == req' = [req EXCEPT ![p] = r]
Goto(p, label) == Become(p, [req[p] EXCEPT !.pc = label])
Finish(p) == Become(p, Idle)

\* A subroutine returns: to its caller's loop, or the handler answers.
Resume(p, r) ==
    Become(p, IF r.ret = "idle" THEN Idle
              ELSE [Idle EXCEPT !.pc = r.ret, !.ret = r.ret, !.todo = r.todo,
                                !.user = IF r.ret = "aRead" THEN r.user ELSE None,
                                !.force = r.force, !.exclude = r.exclude])

At(p, label) == req[p].pc = label

\* A request of operation op may enter process p.
Accepts(p, op) == At(p, "idle") /\ op \in Ops[p]

\* Mutants: the bound is off by one; the renter himself is counted.
FullOffByOne(a, u) == Limit[a] > 0 /\ Cardinality(Holders(a) \ {u}) > Limit[a]
FullCountsSelf(a, u) == Limit[a] > 0 /\ Cardinality(Holders(a)) >= Limit[a]

\* account_renter_capacity_full, with the count of the other renters.
Full(a, u) == Limit[a] > 0 /\ Cardinality(Holders(a) \ {u}) >= Limit[a]

\* The candidates of select_account.
Eligible(u, exclude) ==
    {a \in Account \ exclude :
        /\ row[a].bound /\ row[a].ok
        /\ pool[a].state = "enabled" /\ ~pool[a].open
        /\ ~(ExcludeSelf /\ Owner[a] = u)
        /\ ~Full(a, u)}

\* The renter's own account, if there is one (user_id is unique).
OwnAccount(u) == {a \in Account : Owner[a] = u /\ row[a].bound}

\* _lease_meta_extra: the cycle starts the lease is stamped with.
Stamp(u, a, s) ==
    [acct |-> a, sess |-> s, pool |-> row[a].cycle,
     own |-> IF OwnAccount(u) = {} THEN None
             ELSE row[CHOOSE b \in OwnAccount(u) : TRUE].cycle]

\* Mutant: a cycle that was replaced by the next one is not noticed.
CycleEndedOnly(a, snap) == row[a].ended

\* _reason_for_account_cycle: account a's cycle is over, or is another one
\* than the snapshot says.
CycleReason(a, snap) == row[a].ended \/ (snap # None /\ snap # row[a].cycle)

\* billing_reclaim_reason, for a lease whose account row exists.
Due(u, l) ==
    /\ BillingMode
    /\ \/ CycleReason(l.acct, l.pool)
       \/ \E b \in OwnAccount(u) \ {l.acct} : CycleReason(b, l.own)

\* It reads the account row, and raises NotExistError when it is gone.
ReasonRaises(l) == BillingMode /\ ~row[l.acct].bound

\* A request to Cursor: what a refresh of account a may come to.
RefreshOutcome(a) ==
    (IF CanMint(a) THEN {"ok"} ELSE {"error"})
        \cup (Env \cap {"denied"})
        \cup (IF "httpError" \in Env THEN {"error"} ELSE {})

\* The token, of session s, and the bind status that ensure_oauth_credentials
\* stores.
StoreToken(a, s) == row' = [row EXCEPT ![a].at = s, ![a].ok = TRUE]
StoreInvalid(a) == row' = [row EXCEPT ![a].ok = FALSE]

-----------------------------------------------------------------------------
(* acquire, and the second half of rotate                                  *)

StartAcquire(p, u) ==
    /\ Accepts(p, "acquire")
    /\ Become(p, [Idle EXCEPT !.pc = "aRead", !.user = u])
    /\ UNCHANGED <<live, minted, lease, meta, row, pool, granted>>

\* current, and the account to stay on unless the renter asked to leave it.
AcquireRead(p) ==
    /\ At(p, "aRead")
    /\ LET r == req[p]
           cur == lease[r.user]
           stay == ~r.force /\ cur # None /\ cur.acct \notin r.exclude
       IN Become(p, [r EXCEPT !.pc = "aSelect", !.cur = cur,
                              !.prefer = IF stay THEN cur.acct ELSE None])
    /\ UNCHANGED <<live, minted, lease, meta, row, pool, granted>>

\* select_account.  Which of the candidates is best depends on usage data:
\* any may be.
AcquireSelect(p) ==
    /\ At(p, "aSelect")
    /\ LET r == req[p]
           candidates == Eligible(r.user, r.exclude)
       IN \/ /\ candidates = {}
             /\ Finish(p)
          \/ \E a \in candidates :
                /\ r.prefer \in candidates => a = r.prefer
                /\ Become(p, [r EXCEPT !.pc = "aCount", !.acct = a])
    /\ UNCHANGED <<live, minted, lease, meta, row, pool, granted>>

\* The loop turns to the next candidate.
NextCandidate(p, r) ==
    Become(p, [r EXCEPT !.pc = "aSelect", !.exclude = @ \cup {r.acct},
                        !.prefer = None, !.acct = None, !.over = FALSE,
                        !.before = {}, !.mint = None, !.sess = None])

\* pool_account is read and the other renters counted again.
AcquireCount(p) ==
    /\ At(p, "aCount")
    /\ LET r == req[p]
           sticky == r.cur # None /\ r.cur.acct = r.acct
       IN \/ ~row[r.acct].bound /\ Finish(p)
          \/ /\ row[r.acct].bound
             /\ ~sticky /\ Full(r.acct, r.user)
             /\ NextCandidate(p, r)
          \/ /\ row[r.acct].bound
             /\ sticky \/ ~Full(r.acct, r.user)
             /\ Become(p, [r EXCEPT !.pc = "aSnap", !.over = row[r.acct].ended])
    /\ UNCHANGED <<live, minted, lease, meta, row, pool, granted>>

\* The sessions listed before the refresh; none when the listing fails.
AcquireSnapshot(p) ==
    /\ At(p, "aSnap")
    /\ LET r == req[p]
           listed == row[r.acct].at \in live
       IN \/ ~row[r.acct].bound /\ Goto(p, "aFail")
          \/ /\ row[r.acct].bound /\ listed
             /\ Become(p, [r EXCEPT !.pc = "aRefresh", !.before = LiveOf(r.acct)])
          \/ /\ row[r.acct].bound
             /\ ~listed \/ "httpError" \in Env
             /\ Goto(p, "aRefresh")
    /\ UNCHANGED <<live, minted, lease, meta, row, pool, granted>>

\* ensure_oauth_credentials(force_refresh=True).  A rejected refresh token
\* invalidates the binding; any other failure leaves acquire altogether.
AcquireRefresh(p) ==
    /\ At(p, "aRefresh")
    /\ LET r == req[p]
           a == req[p].acct
       IN \/ /\ ~(row[a].bound /\ row[a].ok)
             /\ Goto(p, "aFail")
             /\ UNCHANGED <<live, minted, row>>
          \/ /\ row[a].bound /\ row[a].ok
             /\ \/ /\ "ok" \in RefreshOutcome(a)
                   /\ Mint(a)
                   /\ Become(p, [r EXCEPT !.pc = "aStore", !.mint = NextSession(a)])
                   /\ UNCHANGED row
                \/ /\ "denied" \in RefreshOutcome(a)
                   /\ StoreInvalid(a)
                   /\ Goto(p, "aFail")
                   /\ UNCHANGED <<live, minted>>
                \/ /\ "error" \in RefreshOutcome(a)
                   /\ Finish(p)
                   /\ UNCHANGED <<live, minted, row>>
    /\ UNCHANGED <<lease, meta, pool, granted>>

\* The new token is stored; the update of a deleted row raises.
AcquireStore(p) ==
    /\ At(p, "aStore")
    /\ LET r == req[p]
       IN IF row[r.acct].bound
          THEN Goto(p, "aResolve") /\ StoreToken(r.acct, r.mint)
          ELSE Goto(p, "aFail") /\ UNCHANGED row
    /\ UNCHANGED <<live, minted, lease, meta, pool, granted>>

\* record_account_failure: the circuit opens when the count reaches the
\* threshold, and the next candidate is tried.
AcquireFail(p) ==
    /\ At(p, "aFail")
    /\ LET r == req[p]
           a == req[p].acct
           fails == pool[a].fails + 1
       IN /\ NextCandidate(p, r)
          /\ pool' = IF pool[a].state = "removed" THEN pool
                     ELSE [pool EXCEPT ![a].fails = IF fails > Threshold
                                                    THEN Threshold ELSE fails,
                                       ![a].open = @ \/ fails >= Threshold]
    /\ UNCHANGED <<live, minted, lease, meta, row, granted>>

\* The session the new token is believed to be bound to; then the check that
\* the account's cycle had not ended.
AcquireResolve(p) ==
    /\ At(p, "aResolve")
    /\ LET r == req[p]
           found == IF r.mint \in live THEN PickNewSession(LiveOf(r.acct), r.before)
                    ELSE {None}
       IN \E s \in found \cup (IF "httpError" \in Env THEN {None} ELSE {}) :
            IF r.over THEN NextCandidate(p, r)
            ELSE Become(p, [r EXCEPT !.pc = "aLease", !.sess = s, !.before = {}])
    /\ UNCHANGED <<live, minted, lease, meta, row, pool, granted>>

\* The cycle snapshot and the first write of set_lease.
AcquireSetLease(p) ==
    /\ At(p, "aLease")
    /\ LET r == req[p]
       IN \/ ~row[r.acct].bound /\ Finish(p) /\ UNCHANGED <<lease, meta>>
          \/ /\ row[r.acct].bound
             /\ SetLeaseKey(r.user, Stamp(r.user, r.acct, r.sess))
             /\ Goto(p, "aMeta")
    /\ UNCHANGED <<live, minted, row, pool, granted>>

\* Mutant: the revoke meta is not written.
AcquireSkipsMeta(p) ==
    /\ At(p, "aMeta")
    /\ Goto(p, "aDone")
    /\ UNCHANGED <<live, minted, lease, meta, row, pool, granted>>

AcquireSetMeta(p) ==
    /\ At(p, "aMeta")
    /\ LET r == req[p]
       IN SetRevokeMeta(r.user, [acct |-> r.acct, sess |-> r.sess])
    /\ Goto(p, "aDone")
    /\ UNCHANGED <<live, minted, row, pool, granted>>

\* Mutant: the session on record is taken for the one handed out.
AcquireGrantsRecorded(p) ==
    /\ At(p, "aDone")
    /\ granted' = [granted EXCEPT ![req[p].user] = @ \cup {req[p].sess}]
    /\ Finish(p)
    /\ UNCHANGED <<live, minted, lease, meta, row, pool>>

\* record_account_success, and the answer with the credentials.
AcquireDone(p) ==
    /\ At(p, "aDone")
    /\ LET r == req[p]
       IN /\ pool' = IF pool[r.acct].state = "removed" THEN pool
                     ELSE [pool EXCEPT ![r.acct].fails = 0, ![r.acct].open = FALSE]
          /\ granted' = [granted EXCEPT ![r.user] = @ \cup {r.mint}]
    /\ Finish(p)
    /\ UNCHANGED <<live, minted, lease, meta, row>>

-----------------------------------------------------------------------------
(* renew                                                                   *)

StartRenew(p, u) ==
    /\ Accepts(p, "renew")
    /\ Become(p, [Idle EXCEPT !.pc = "nRead", !.user = u])
    /\ UNCHANGED <<live, minted, lease, meta, row, pool, granted>>

RenewRead(p) ==
    /\ At(p, "nRead")
    /\ LET cur == lease[req[p].user]
       IN Become(p, [req[p] EXCEPT !.pc = IF cur = None THEN "nMeta" ELSE "nCheck",
                                   !.cur = cur])
    /\ UNCHANGED <<live, minted, lease, meta, row, pool, granted>>

\* Without a lease a leftover revoke meta is released, and renew fails.
RenewMeta(p) ==
    /\ At(p, "nMeta")
    /\ IF meta[req[p].user] = None THEN Finish(p) ELSE Goto(p, "lGet")
    /\ UNCHANGED <<live, minted, lease, meta, row, pool, granted>>

RenewCheck(p) ==
    /\ At(p, "nCheck")
    /\ LET r == req[p]
       IN IF ReasonRaises(r.cur) THEN Finish(p)
          ELSE Goto(p, IF Due(r.user, r.cur) THEN "lGet" ELSE "nLease")
    /\ UNCHANGED <<live, minted, lease, meta, row, pool, granted>>

\* Mutant: the account is read again, the session is not.
RenewMixesReads(p) ==
    /\ At(p, "nLease")
    /\ LET r == req[p]
           a == IF lease[r.user] = None THEN r.cur.acct ELSE lease[r.user].acct
       IN SetLeaseKey(r.user, Stamp(r.user, a, r.cur.sess))
    /\ Goto(p, "nSetMeta")
    /\ UNCHANGED <<live, minted, row, pool, granted>>

\* The snapshot is taken anew and the lease read at the start written again.
RenewSetLease(p) ==
    /\ At(p, "nLease")
    /\ LET r == req[p]
       IN \/ ~row[r.cur.acct].bound /\ Finish(p) /\ UNCHANGED <<lease, meta>>
          \/ /\ row[r.cur.acct].bound
             /\ SetLeaseKey(r.user, Stamp(r.user, r.cur.acct, r.cur.sess))
             /\ Goto(p, "nSetMeta")
    /\ UNCHANGED <<live, minted, row, pool, granted>>

\* The last write of set_lease; renew ends with a status.
RenewSetMeta(p) ==
    /\ At(p, "nSetMeta")
    /\ LET r == req[p]
       IN /\ SetRevokeMeta(r.user, [acct |-> r.cur.acct, sess |-> r.cur.sess])
          /\ Become(p, [Idle EXCEPT !.pc = "sRead", !.user = r.user])
    /\ UNCHANGED <<live, minted, row, pool, granted>>

-----------------------------------------------------------------------------
(* status, and the first half of rotate                                    *)

StartStatus(p, u) ==
    /\ Accepts(p, "status")
    /\ Become(p, [Idle EXCEPT !.pc = "sRead", !.user = u])
    /\ UNCHANGED <<live, minted, lease, meta, row, pool, granted>>

\* The rotate endpoint asks for the status, excludes the account it names and
\* acquires with force_rotate.
StartRotate(p, u) ==
    /\ Accepts(p, "rotate")
    /\ Become(p, [Idle EXCEPT !.pc = "sRead", !.ret = "aRead", !.user = u,
                              !.force = TRUE])
    /\ UNCHANGED <<live, minted, lease, meta, row, pool, granted>>

StatusRead(p) ==
    /\ At(p, "sRead")
    /\ LET cur == lease[req[p].user]
       IN Become(p, [req[p] EXCEPT !.pc = IF cur = None THEN "sMeta" ELSE "sCheck",
                                   !.cur = cur])
    /\ UNCHANGED <<live, minted, lease, meta, row, pool, granted>>

\* No lease key: a revoke meta means that the lease expired.
StatusMeta(p) ==
    /\ At(p, "sMeta")
    /\ IF meta[req[p].user] # None THEN Goto(p, "lGet") ELSE Resume(p, req[p])
    /\ UNCHANGED <<live, minted, lease, meta, row, pool, granted>>

\* The TTL is read (none left: the key is gone), then the billing cycle.
StatusCheck(p) ==
    /\ At(p, "sCheck")
    /\ LET r == req[p]
       IN CASE lease[r.user] = None -> Goto(p, "lGet")
            [] lease[r.user] # None /\ ReasonRaises(r.cur) -> Finish(p)
            [] lease[r.user] # None /\ ~ReasonRaises(r.cur) ->
                 IF Due(r.user, r.cur) THEN Goto(p, "lGet")
                 ELSE Resume(p, [r EXCEPT !.exclude = @ \cup {r.cur.acct}])
    /\ UNCHANGED <<live, minted, lease, meta, row, pool, granted>>

-----------------------------------------------------------------------------
(* release: by the renter, by an administrator, or as a subroutine         *)

StartRelease(p, u) ==
    /\ Accepts(p, "release")
    /\ Become(p, [Idle EXCEPT !.pc = "lGet", !.user = u])
    /\ UNCHANGED <<live, minted, lease, meta, row, pool, granted>>

\* clear_lease: GET, then DEL.
ReleaseGet(p) ==
    /\ At(p, "lGet")
    /\ Become(p, [req[p] EXCEPT !.pc = "lDel", !.cur = lease[req[p].user]])
    /\ UNCHANGED <<live, minted, lease, meta, row, pool, granted>>

\* Mutant: the key stays.
ReleaseKeepsKey(p) ==
    /\ At(p, "lDel")
    /\ Goto(p, "lMeta")
    /\ UNCHANGED <<live, minted, lease, meta, row, pool, granted>>

ReleaseDel(p) ==
    /\ At(p, "lDel")
    /\ DelLeaseKey(req[p].user)
    /\ Goto(p, "lMeta")
    /\ UNCHANGED <<live, minted, row, pool, granted>>

\* What to revoke comes from the lease that was read; from the revoke meta
\* when there was none.  The meta goes in either case.
ReleaseMeta(p) ==
    /\ At(p, "lMeta")
    /\ LET r == req[p]
           target(m, label) == [r EXCEPT !.pc = label, !.acct = m.acct, !.sess = m.sess]
       IN \/ /\ r.cur # None
             /\ DelRevokeMeta(r.user)
             /\ Become(p, target(r.cur, "lCount"))
          \/ /\ r.cur = None /\ meta[r.user] # None
             /\ Become(p, target(meta[r.user], "lPop"))
             /\ UNCHANGED <<lease, meta>>
          \/ /\ r.cur = None /\ meta[r.user] = None
             /\ Resume(p, r)
             /\ UNCHANGED <<lease, meta>>
    /\ UNCHANGED <<live, minted, row, pool, granted>>

\* The second command of pop_revoke_meta.
ReleasePop(p) ==
    /\ At(p, "lPop")
    /\ DelRevokeMeta(req[p].user)
    /\ Goto(p, "lCount")
    /\ UNCHANGED <<live, minted, row, pool, granted>>

\* The pool's own credentials are rotated when nobody is left on the account.
ReleaseCount(p) ==
    /\ At(p, "lCount")
    /\ Become(p, [req[p] EXCEPT !.pc = "lRevoke", !.last = Holders(req[p].acct) = {}])
    /\ UNCHANGED <<live, minted, lease, meta, row, pool, granted>>

\* Mutant: the session is left to the rotation when nobody else is there.
ReleaseRevokesShared(p) ==
    /\ At(p, "lRevoke")
    /\ LET r == req[p]
       IN IF r.last THEN Goto(p, "lRotate") /\ UNCHANGED <<live, minted>>
          ELSE /\ IF r.sess = None THEN UNCHANGED <<live, minted>> ELSE Revoke(r.sess)
               /\ Resume(p, r)
    /\ UNCHANGED <<lease, meta, row, pool, granted>>

\* _revoke_lease_session: with the stored access token; a refusal is logged
\* and forgotten, a missing account row raises.
ReleaseRevoke(p) ==
    /\ At(p, "lRevoke")
    /\ LET r == req[p]
           onward == IF r.last THEN Goto(p, "lRotate") ELSE Resume(p, r)
           authorised == row[r.acct].bound /\ row[r.acct].at \in live
       IN \/ /\ r.sess = None
             /\ onward /\ UNCHANGED <<live, minted>>
          \/ /\ r.sess # None /\ ~row[r.acct].bound
             /\ Finish(p) /\ UNCHANGED <<live, minted>>
          \/ /\ r.sess # None /\ authorised
             /\ Revoke(r.sess) /\ onward
          \/ /\ r.sess # None /\ row[r.acct].bound
             /\ ~authorised \/ "httpError" \in Env
             /\ onward /\ UNCHANGED <<live, minted>>
    /\ UNCHANGED <<lease, meta, row, pool, granted>>

\* ensure_oauth_credentials(force_refresh=True), every failure swallowed.
ReleaseRotate(p) ==
    /\ At(p, "lRotate")
    /\ LET r == req[p]
           a == req[p].acct
           usable == row[a].bound /\ row[a].ok
       IN \/ /\ usable /\ "ok" \in RefreshOutcome(a)
             /\ Mint(a)
             /\ Become(p, [r EXCEPT !.pc = "lStore", !.mint = NextSession(a)])
             /\ UNCHANGED row
          \/ /\ usable /\ "denied" \in RefreshOutcome(a)
             /\ StoreInvalid(a) /\ Resume(p, r)
             /\ UNCHANGED <<live, minted>>
          \/ /\ ~usable \/ "error" \in RefreshOutcome(a)
             /\ Resume(p, r)
             /\ UNCHANGED <<live, minted, row>>
    /\ UNCHANGED <<lease, meta, pool, granted>>

ReleaseStore(p) ==
    /\ At(p, "lStore")
    /\ LET r == req[p]
       IN /\ IF row[r.acct].bound THEN StoreToken(r.acct, r.mint) ELSE UNCHANGED row
          /\ Resume(p, r)
    /\ UNCHANGED <<live, minted, lease, meta, pool, granted>>

-----------------------------------------------------------------------------
(* reclaim_due_to_billing_cycle, run by Celery, and the pool removal       *)

StartSweep(p) ==
    /\ Accepts(p, "sweep")
    /\ Become(p, [Idle EXCEPT !.pc = "wLease", !.ret = "wLease", !.todo = LeaseUsers])
    /\ UNCHANGED <<live, minted, lease, meta, row, pool, granted>>

\* Mutants: a lease that stays is visited again and again; the orphans are
\* forgotten.
SweepRevisits(p) ==
    /\ At(p, "wLease")
    /\ LET r == req[p]
       IN \/ /\ r.todo = {}
             /\ Become(p, [Idle EXCEPT !.pc = "wOrphan", !.ret = "wOrphan",
                                       !.todo = OrphanUsers])
          \/ \E u \in r.todo :
                Become(p, IF lease[u] = None THEN [r EXCEPT !.todo = @ \ {u}]
                          ELSE [r EXCEPT !.pc = "wCheck", !.user = u, !.cur = lease[u]])
    /\ UNCHANGED <<live, minted, lease, meta, row, pool, granted>>

SweepForgetsOrphans(p) ==
    /\ At(p, "wLease")
    /\ LET r == req[p]
       IN \/ r.todo = {} /\ Finish(p)
          \/ \E u \in r.todo \cap LeaseUsers :
                Become(p, [r EXCEPT !.pc = "wCheck", !.todo = @ \ {u},
                                    !.user = u, !.cur = lease[u]])
    /\ UNCHANGED <<live, minted, lease, meta, row, pool, granted>>

\* The next lease of the list; after the last one, the list of the orphans.
SweepLease(p) ==
    /\ At(p, "wLease")
    /\ LET r == req[p]
       IN \/ /\ r.todo = {}
             /\ Become(p, [Idle EXCEPT !.pc = "wOrphan", !.ret = "wOrphan",
                                       !.todo = OrphanUsers])
          \/ \E u \in r.todo :
                Become(p, IF lease[u] = None THEN [r EXCEPT !.todo = @ \ {u}]
                          ELSE [r EXCEPT !.pc = "wCheck", !.todo = @ \ {u},
                                         !.user = u, !.cur = lease[u]])
    /\ UNCHANGED <<live, minted, lease, meta, row, pool, granted>>

\* Mutants: whatever is on the list is reclaimed; the renter's own cycle is
\* not looked at.
SweepTakesAll(p) ==
    /\ At(p, "wCheck")
    /\ Goto(p, "lGet")
    /\ UNCHANGED <<live, minted, lease, meta, row, pool, granted>>

SweepSkipsOwnCycle(p) ==
    /\ At(p, "wCheck")
    /\ LET r == req[p]
       IN IF CycleReason(r.cur.acct, r.cur.pool) THEN Goto(p, "lGet") ELSE Resume(p, r)
    /\ UNCHANGED <<live, minted, lease, meta, row, pool, granted>>

\* An exception here ends the task: nothing in the loop catches it.
SweepCheck(p) ==
    /\ At(p, "wCheck")
    /\ LET r == req[p]
       IN IF ReasonRaises(r.cur) THEN Finish(p)
          ELSE IF Due(r.user, r.cur) THEN Goto(p, "lGet") ELSE Resume(p, r)
    /\ UNCHANGED <<live, minted, lease, meta, row, pool, granted>>

\* Mutant: the list of the orphans is dropped.
SweepDropsOrphans(p) ==
    /\ At(p, "wOrphan")
    /\ Finish(p)
    /\ UNCHANGED <<live, minted, lease, meta, row, pool, granted>>

SweepOrphan(p) ==
    /\ At(p, "wOrphan")
    /\ LET r == req[p]
       IN \/ r.todo = {} /\ Finish(p)
          \/ \E u \in r.todo :
                Become(p, [r EXCEPT !.pc = "lGet", !.user = u, !.todo = @ \ {u}])
    /\ UNCHANGED <<live, minted, lease, meta, row, pool, granted>>

\* Mutant: the leases of the removed account are left alone.
RemoveKeepsLeases(p, a) ==
    /\ Accepts(p, "remove")
    /\ pool[a].state # "removed"
    /\ pool' = [pool EXCEPT ![a].state = "removed"]
    /\ UNCHANGED <<live, minted, lease, meta, row, req, granted>>

\* remove_member commits, then release_by_account lists the leases.
StartRemove(p, a) ==
    /\ Accepts(p, "remove")
    /\ pool[a].state # "removed"
    /\ pool' = [pool EXCEPT ![a].state = "removed"]
    /\ Become(p, [Idle EXCEPT !.pc = "xList", !.acct = a])
    /\ UNCHANGED <<live, minted, lease, meta, row, granted>>

RemoveList(p) ==
    /\ At(p, "xList")
    /\ Become(p, [Idle EXCEPT !.pc = "xNext", !.ret = "xNext",
                              !.todo = Holders(req[p].acct)])
    /\ UNCHANGED <<live, minted, lease, meta, row, pool, granted>>

RemoveNext(p) ==
    /\ At(p, "xNext")
    /\ LET r == req[p]
       IN \/ r.todo = {} /\ Finish(p)
          \/ \E u \in r.todo :
                Become(p, [r EXCEPT !.pc = "lGet", !.user = u, !.todo = @ \ {u}])
    /\ UNCHANGED <<live, minted, lease, meta, row, pool, granted>>

-----------------------------------------------------------------------------
(* What happens around the handlers                                        *)

\* The TTL of a lease key, and of a revoke meta, runs out.  The meta's is
\* 48 hours longer.
Expire(u) ==
    /\ "expire" \in Env /\ lease[u] # None
    /\ DelLeaseKey(u)
    /\ UNCHANGED <<live, minted, row, pool, req, granted>>

ExpireMeta(u) ==
    /\ "metaExpire" \in Env /\ u \in OrphanUsers
    /\ DelRevokeMeta(u)
    /\ UNCHANGED <<live, minted, row, pool, req, granted>>

\* The billing cycle of account a passes its last day.
EndCycle(a) ==
    /\ "cycle" \in Env /\ row[a].bound /\ ~row[a].ended
    /\ row' = [row EXCEPT ![a].ended = TRUE]
    /\ UNCHANGED <<live, minted, lease, meta, pool, req, granted>>

\* A usage sync finds the next cycle.
RefreshCycle(a) ==
    /\ "cycle" \in Env /\ row[a].bound /\ row[a].cycle < MaxCycle
    /\ row' = [row EXCEPT ![a].cycle = @ + 1, ![a].ended = FALSE]
    /\ UNCHANGED <<live, minted, lease, meta, pool, req, granted>>

\* A usage sync meets a dead access token and recovers by a refresh.
SyncToken(a) ==
    /\ "sync" \in Env /\ row[a].bound /\ row[a].at \notin live
    /\ Mint(a) /\ StoreToken(a, NextSession(a))
    /\ UNCHANGED <<lease, meta, pool, req, granted>>

\* unbind deletes the account row for good.
Unbind(a) ==
    /\ "unbind" \in Env /\ row[a].bound
    /\ row' = [row EXCEPT ![a].bound = FALSE]
    /\ UNCHANGED <<live, minted, lease, meta, pool, req, granted>>

\* update_member switches a member on or off; add_member enables it, and
\* clears the circuit of one that had been removed.
SetEnabled(a) ==
    /\ "toggle" \in Env /\ pool[a].state # "removed"
    /\ \E s \in {"enabled", "disabled"} : pool' = [pool EXCEPT ![a].state = s]
    /\ UNCHANGED <<live, minted, lease, meta, row, req, granted>>

AddMember(a) ==
    /\ "toggle" \in Env /\ row[a].bound /\ row[a].ok
    /\ pool' = [pool EXCEPT ![a] =
                  IF @.state = "removed"
                  THEN [state |-> "enabled", fails |-> 0, open |-> FALSE]
                  ELSE [@ EXCEPT !.state = "enabled"]]
    /\ UNCHANGED <<live, minted, lease, meta, row, req, granted>>

\* The circuit's time is over.
CloseCircuit(a) ==
    /\ "recover" \in Env /\ pool[a].open
    /\ pool' = [pool EXCEPT ![a].open = FALSE]
    /\ UNCHANGED <<live, minted, lease, meta, row, req, granted>>

\* A usage sync, or a new OAuth binding, makes the account usable again.
Rebind(a) ==
    /\ "recover" \in Env /\ row[a].bound /\ ~row[a].ok
    /\ row' = [row EXCEPT ![a].ok = TRUE]
    /\ UNCHANGED <<live, minted, lease, meta, pool, req, granted>>

\* The worker process serving p dies.
Crash(p) ==
    /\ "crash" \in Env /\ ~At(p, "idle")
    /\ Finish(p)
    /\ UNCHANGED <<live, minted, lease, meta, row, pool, granted>>

-----------------------------------------------------------------------------
Start(p) ==
    \/ \E u \in User :
          \/ StartAcquire(p, u) \/ StartRotate(p, u) \/ StartRenew(p, u)
          \/ StartStatus(p, u) \/ StartRelease(p, u)
    \/ \E a \in Account : StartRemove(p, a)
    \/ StartSweep(p)

\* A handler that was started goes on.
Continue(p) ==
    \/ AcquireRead(p) \/ AcquireSelect(p) \/ AcquireCount(p) \/ AcquireSnapshot(p)
    \/ AcquireRefresh(p) \/ AcquireStore(p) \/ AcquireFail(p)
    \/ AcquireResolve(p) \/ AcquireSetLease(p) \/ AcquireSetMeta(p) \/ AcquireDone(p)
    \/ RenewRead(p) \/ RenewMeta(p) \/ RenewCheck(p) \/ RenewSetLease(p)
    \/ RenewSetMeta(p)
    \/ StatusRead(p) \/ StatusMeta(p) \/ StatusCheck(p)
    \/ ReleaseGet(p) \/ ReleaseDel(p) \/ ReleaseMeta(p) \/ ReleasePop(p)
    \/ ReleaseCount(p) \/ ReleaseRevoke(p) \/ ReleaseRotate(p)
    \/ ReleaseStore(p)
    \/ SweepLease(p) \/ SweepCheck(p) \/ SweepOrphan(p)
    \/ RemoveList(p) \/ RemoveNext(p)

Environment ==
    \/ \E u \in User : Expire(u) \/ ExpireMeta(u)
    \/ \E a \in Account :
          \/ EndCycle(a) \/ RefreshCycle(a) \/ SyncToken(a) \/ Unbind(a)
          \/ SetEnabled(a) \/ AddMember(a) \/ CloseCircuit(a) \/ Rebind(a)
    \/ \E p \in Proc : Crash(p)

Next == Environment \/ \E p \in Proc : Start(p) \/ Continue(p)

Spec == Init /\ [][Next]_vars

\* A started handler is scheduled until it returns, and Celery beat starts
\* the sweep again and again.
Fairness ==
    /\ \A p \in Proc : WF_vars(Continue(p))
    /\ \A p \in Proc : WF_vars(StartSweep(p))

FairSpec == Spec /\ Fairness

=============================================================================
