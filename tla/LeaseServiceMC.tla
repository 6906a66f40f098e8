--------------------------- MODULE LeaseServiceMC ---------------------------
(***************************************************************************)
(* Instances of the lease service for TLC: who runs what, in which         *)
(* environment, on accounts of which tier.                                 *)
(***************************************************************************)
EXTENDS LeaseSafety, TLC

CONSTANTS p1, p2, worker, a1, a2, u1

\* One process serves everything: handlers do not overlap.
SerialOps == [p \in Proc |-> Operation]
NoRenewOps == [p \in Proc |-> Operation \ {"renew"}]

\* Two web handlers overlap.
LeasingOps == (p1 :> {"rotate", "renew"}) @@ (p2 :> {"acquire", "release"})
RenewOps == [p \in Proc |-> {"acquire", "renew", "release"}]
WritingOps == (p1 :> {"acquire", "renew"}) @@ (p2 :> {"acquire"})

\* A web handler and the Celery worker overlap.
WorkerOps == (p1 :> Operation \ {"sweep", "remove"}) @@ (worker :> {"sweep"})

Exclusive == [a \in Account |-> 1]
Unlimited == [a \in Account |-> 0]

\* Pool accounts of people who rent nothing, or of the renters themselves.
Strangers == [a \in Account |-> None]
OneOwner == (a1 :> None) @@ (a2 :> u1)

AccountSymmetry == Permutations(Account)
RenterSymmetry == Permutations(User)
Symmetry == Permutations(User) \cup Permutations(Account)

=============================================================================
