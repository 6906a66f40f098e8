----------------------------- MODULE CursorAuth -----------------------------
(***************************************************************************)
(* External: the Cursor authentication service, as backend/app uses it     *)
(* through CursorClient.  Every refresh of an account's OAuth credentials  *)
(* opens a session of that account and binds the new access token to it;   *)
(* an access token works while its session lives; revoking the session     *)
(* kills the token at once, and the refresh token survives.                *)
(*                                                                         *)
(* A session is identified by its account and its rank among the sessions  *)
(* the account ever had, which is also the order of their createdAt.       *)
(***************************************************************************)
EXTENDS Integers, FiniteSets

CONSTANTS
    Account,    \* ids of the Cursor accounts bound on the platform
    None,       \* absence of a record, a session, an account or a user
    MaxSession  \* bound: the sessions opened per account

ASSUME MaxSessionAssumption == MaxSession \in Nat \ {0}

Session == [acct : Account, n : 1..MaxSession]
MaybeSession == Session \cup {None}

\* The sentinel is none of the things it stands in for.
ASSUME NoneAssumption ==
    /\ None \notin Account
    /\ None \notin Session

VARIABLES
    live,   \* the sessions not yet revoked
    minted  \* minted[a]: how many sessions account a has had

authVars == <<live, minted>>

LiveOf(a) == {s \in live : s.acct = a}

\* The session a refresh of account a opens next.
NextSession(a) == [acct |-> a, n |-> minted[a] + 1]

\* Past the bound the service answers with an error instead of a token.
CanMint(a) == minted[a] < MaxSession

Mint(a) ==
    /\ CanMint(a)
    /\ minted' = [minted EXCEPT ![a] = @ + 1]
    /\ live' = live \cup {NextSession(a)}

\* Mutant: every session of the account goes.
RevokeAll(s) ==
    /\ live' = live \ LiveOf(s.acct)
    /\ UNCHANGED minted

Revoke(s) ==
    /\ live' = live \ {s}
    /\ UNCHANGED minted

\* The set that holds the session of S with the latest createdAt, or None.
Newest(S) ==
    IF S = {} THEN {None} ELSE {s \in S : \A t \in S : t.n <= s.n}

\* Mutant: createdAt is sorted the other way, and the earlier list ignored.
PickOldestSession(sessions, before) ==
    IF sessions = {} THEN {None} ELSE {s \in sessions : \A t \in sessions : s.n <= t.n}

\* CursorClient.pick_new_session_id: a session that was not there before the
\* refresh, or, when there is none, the newest of them all.
PickNewSession(sessions, before) ==
    Newest(IF sessions \ before # {} THEN sessions \ before ELSE sessions)

AuthTypeOK ==
    /\ live \subseteq Session
    /\ minted \in [Account -> 0..MaxSession]
    /\ \A s \in live : s.n <= minted[s.acct]

\* Every account is bound with one session, that of its stored token.
AuthInit ==
    /\ minted = [a \in Account |-> 1]
    /\ live = {[acct |-> a, n |-> 1] : a \in Account}

=============================================================================
