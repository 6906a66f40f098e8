--------------------------- MODULE LeaseContract ---------------------------
(***************************************************************************)
(* What the platform promises of a lease, whatever stores and handlers     *)
(* bring it about: a renter holds one pool account at a time, and an       *)
(* account whose tier sets a limit is granted to no more renters than the  *)
(* limit, give or take Slack grants decided at the same time.              *)
(***************************************************************************)
EXTENDS Integers, FiniteSets

CONSTANTS
    User, Account, None,
    Limit,  \* Limit[a]: renters account a may have, 0 = no limit
    Slack   \* grants by which concurrent decisions may exceed it

VARIABLE holder  \* holder[u]: the account u rents, or None

Renters(a) == {u \in User : holder[u] = a}

Init == holder = [u \in User |-> None]

Grant(u, a) ==
    /\ Limit[a] > 0 => Cardinality(Renters(a) \ {u}) < Limit[a] + Slack
    /\ holder' = [holder EXCEPT ![u] = a]

\* The renter gives the account back, the lease expires, or it is reclaimed.
End(u) == holder' = [holder EXCEPT ![u] = None]

Next == \E u \in User : End(u) \/ \E a \in Account : Grant(u, a)

Spec == Init /\ [][Next]_holder

=============================================================================
