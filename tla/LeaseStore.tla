----------------------------- MODULE LeaseStore -----------------------------
(***************************************************************************)
(* The lease keys of ProxyRedisStore: lease:{user}, the active lease of a  *)
(* renter, which Redis drops when its TTL ends; and lease_revoke:{user},   *)
(* the record of what to revoke, which outlives the lease key by a grace   *)
(* of 48 hours.  One operator per Redis command: nothing joins two of them *)
(* into a transaction, so whoever uses them takes a step for each.         *)
(*                                                                         *)
(* The set lease_acct:{account} is written and never read to decide        *)
(* anything (the holders are recomputed from the lease keys), so it is     *)
(* left out.                                                               *)
(***************************************************************************)
EXTENDS CursorAuth

CONSTANT User  \* ids of the renters

ASSUME NoneIsNoUser == None \notin User
ASSUME FiniteUser == IsFiniteSet(User)

\* pool, own: start of the billing cycle of the pool account and of the
\* renter's own account when the lease was last written (None: unknown).
CycleSnap == Nat \cup {None}
Lease == [acct : Account, sess : MaybeSession, pool : CycleSnap, own : CycleSnap]
RevokeMeta == [acct : Account, sess : MaybeSession]

ASSUME NoneIsNoRecord == None \notin Lease /\ None \notin RevokeMeta
ASSUME NoneIsNoCycle == None \notin Nat

VARIABLES
    lease,  \* lease[u]: the value of lease:{u}, or None
    meta    \* meta[u]: the value of lease_revoke:{u}, or None

storeVars == <<lease, meta>>

StoreTypeOK ==
    /\ lease \in [User -> Lease \cup {None}]
    /\ meta \in [User -> RevokeMeta \cup {None}]

StoreInit ==
    /\ lease = [u \in User |-> None]
    /\ meta = [u \in User |-> None]

\* get_lease_holders: the users whose lease key names account a.
Holders(a) == {u \in User : lease[u] # None /\ lease[u].acct = a}

\* The first and the last write of set_lease.
SetLeaseKey(u, l) == lease' = [lease EXCEPT ![u] = l] /\ UNCHANGED meta
SetRevokeMeta(u, m) == meta' = [meta EXCEPT ![u] = m] /\ UNCHANGED lease

DelLeaseKey(u) == lease' = [lease EXCEPT ![u] = None] /\ UNCHANGED meta
DelRevokeMeta(u) == meta' = [meta EXCEPT ![u] = None] /\ UNCHANGED lease

\* What list_leases and list_orphan_revoke_metas return.
LeaseUsers == {u \in User : lease[u] # None}
OrphanUsers == {u \in User : lease[u] = None /\ meta[u] # None}

=============================================================================
