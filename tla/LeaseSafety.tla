---------------------------- MODULE LeaseSafety ----------------------------
(***************************************************************************)
(* What the lease service should guarantee.  Most of it holds while one    *)
(* handler runs at a time; the README says which part survives handlers    *)
(* that interleave, and the runs show both.                                *)
(***************************************************************************)
EXTENDS LeaseService

\* Process p has a step of the lease service behind it.
Moved(p) == req'[p] # req[p]

\* A handler is between reading what to release for u and the end of release.
Releasing(u) ==
    \E p \in Proc : req[p].user = u /\ req[p].pc \in
        {"lGet", "lDel", "lMeta", "lPop", "lCount", "lRevoke", "lRotate", "lStore"}

-----------------------------------------------------------------------------
\* The session a lease, a revoke meta or a handler names is one of the account
\* it names: a revocation is always sent with the access token of the account
\* the session belongs to (release, renew and acquire copy the two together).
SessionOfItsAccount ==
    /\ \A u \in User :
          /\ lease[u] # None /\ lease[u].sess # None => lease[u].sess.acct = lease[u].acct
          /\ meta[u] # None /\ meta[u].sess # None => meta[u].sess.acct = meta[u].acct
    /\ \A p \in Proc : req[p].sess # None => req[p].sess.acct = req[p].acct

\* The number of renters of an account exceeds its tier's limit by at most the
\* number of handlers that may run beside the one that grants (the check of
\* acquire and its set_lease are not one step).
CapacityBound ==
    \A a \in Account :
        Limit[a] > 0 => Cardinality(Holders(a)) < Limit[a] + Cardinality(Proc)

\* The lease service implements the contract, with one grant of slack for
\* every handler but one.
Contract == INSTANCE LeaseContract WITH
    holder <- [u \in User |-> IF lease[u] = None THEN None ELSE lease[u].acct],
    Slack <- Cardinality(Proc) - 1

ImplementsContract == Contract!Spec

-----------------------------------------------------------------------------
\* Once set_lease is through, the revoke meta names the session and account of
\* the lease, so that an expiry of the lease key leaves the target behind.
MetaMirrorsLease ==
    \A u \in User :
        \/ lease[u] = None
        \/ meta[u] # None /\ meta[u].sess = lease[u].sess /\ meta[u].acct = lease[u].acct
        \/ \E p \in Proc : req[p].user = u /\ req[p].pc \in {"aMeta", "nSetMeta"}

\* While a renter has a lease nobody is reclaiming, the login it stands for
\* works; a lease does not outlive the revocation of its session.
LeaseLoginAlive ==
    \A u \in User :
        lease[u] # None /\ lease[u].sess # None /\ ~Releasing(u)
            => lease[u].sess \in live

\* A session dies only in a release for the renter it was handed to: renters
\* of the same account do not lose their logins when one of them returns it.
ReleaseSparesOthers ==
    [][\A s \in live \ live', v \in User :
          s \in granted[v] => \E p \in Proc : Moved(p) /\ req[p].user = v]_vars

\* A release kills the session recorded for the renter (the bound on refreshes
\* aside: an account that cannot be refreshed keeps a dead token).
ReleaseKillsLogin ==
    [][\A p \in Proc :
          At(p, "lRevoke") /\ Moved(p) /\ req[p].sess # None
              => req[p].sess \notin live' \/ ~CanMint(req[p].acct)]_vars

\* The sweep deletes a lease key only when the lease is due for its billing
\* cycle (or when the key has gone already): never one that is running.
SweepTakesOnlyDue ==
    [][\A p \in Proc :
          /\ At(p, "lDel") /\ Moved(p) /\ req[p].ret \in {"wLease", "wOrphan"}
          /\ lease[req[p].user] # None
          => Due(req[p].user, lease[req[p].user])]_vars

\* A sweep ends only after it has visited every lease and every orphan of its
\* lists: a renter it cannot reclaim does not keep it from the others.
SweepVisitsAll ==
    [][\A p \in Proc :
          req[p].ret \in {"wLease", "wOrphan"} /\ At(p, "idle")'
              => At(p, "wOrphan") /\ req[p].todo = {}]_vars

\* Once a lease is due for its billing cycle it stays due until it is given
\* up: the login it records is not carried into the next cycle.
DueStaysDue ==
    [][\A u \in User :
          /\ lease[u] # None /\ Due(u, lease[u]) /\ lease[u].sess # None
          /\ lease'[u] # None /\ lease'[u].sess = lease[u].sess
          => Due(u, lease[u])']_vars

\* An account that was removed from the pool has no renters, when no handler
\* is at work.
RemovedAccountIsFree ==
    (\A p \in Proc : At(p, "idle"))
        => \A a \in Account : pool[a].state = "removed" => Holders(a) = {}

\* A renter who asks again without rotating is not moved off an account that
\* could go on serving him: other renters do not displace him.
RenterKeepsAccount ==
    [][\A p \in Proc :
          At(p, "aSelect") /\ Moved(p) /\ req[p].prefer # None
              => LET a == req[p].prefer
                 IN \/ req'[p].acct = a
                    \/ ~row[a].bound \/ ~row[a].ok
                    \/ pool[a].state # "enabled" \/ pool[a].open
                    \/ ExcludeSelf /\ Owner[a] = req[p].user]_vars

-----------------------------------------------------------------------------
\* Every handler returns: the loops of acquire and of the sweep come to an end.
HandlersReturn == \A p \in Proc : ~At(p, "idle") ~> At(p, "idle")

\* The revoke target of an expired lease is eventually taken by a release
\* (the sweep's, if nothing else comes first).
OrphanIsSwept ==
    \A u \in User : u \in OrphanUsers ~> u \notin OrphanUsers

\* A lease that is due for the end of a billing cycle, of its account or of the
\* renter's own, is eventually given up, whatever its renter goes on asking for.
DueLeaseIsReclaimed ==
    \A u \in User :
        lease[u] # None /\ Due(u, lease[u]) ~> lease[u] = None \/ ~Due(u, lease[u])

=============================================================================
