--------------------------- MODULE AccountBinding ---------------------------
(***************************************************************************)
(* How a user's Cursor account is bound, kept and given up:                *)
(* backend/app/api/cursor/oauth_store.py and, in service.py, the OAuth     *)
(* calls, _upsert_account, unbind, the outcome of sync_account_record and  *)
(* the notification of a binding that went bad.  What a sync makes of the  *)
(* usage is UsageLedger's.  A handler awaits Cursor, or the database,      *)
(* between any two steps, and works from the row it read before.           *)
(***************************************************************************)
EXTENDS Integers, Sequences, FiniteSets

CONSTANTS
    None,
    User,
    Login,    \* logins at Cursor
    LoginId,  \* OAuth sessions that may be open at a time
    Web,      \* processes that serve users
    Worker,   \* processes that run sync_all_accounts
    MaxId,    \* bound: rows there may be
    MaxDeaths \* bound: logins that end

Proc == Web \cup Worker

ASSUME BindingAssumption ==
    /\ None \notin User \cup Login
    /\ Web \cap Worker = {}
    /\ MaxId \in Nat /\ MaxDeaths \in Nat

VARIABLES
    session, \* the OAuth sessions in Redis, with the login approved for each
    dead,    \* logins whose tokens Cursor rejects
    row,     \* CursorAccount of a user
    ids,     \* the last primary key given out
    op,      \* the call process p is in
    told,    \* ghost. the user knows that his binding went bad
    raced    \* ghost. a binding was made while a sync of the account was under way

vars == <<session, dead, row, ids, op, told, raced>>

-----------------------------------------------------------------------------
\* login: whose tokens the row holds; uid: whose cursor_user_id; notified: told
\* within the last 24 hours.
Status == {"OK", "TOKEN_INVALID", "ACCOUNT_ABNORMAL"}
Row == [id : 1..MaxId, login : Login, uid : Login, status : Status, notified : BOOLEAN]

\* copy: what a call goes on to use of the row it has read; login: what Cursor granted; todo: users whose
\* rows the worker has yet to sync, and rows: its copy of them.
Copy == [id : 1..MaxId, login : Login \cup {None}]

ASSUME NoneAssumption == None \notin Row \cup Copy

CopyOf(a) == IF a = None THEN None ELSE [id |-> a.id, login |-> a.login]
KeyOf(a) == IF a = None THEN None ELSE [id |-> a.id, login |-> None]

Idle == [pc |-> "idle", id |-> None, user |-> None, login |-> None, copy |-> None,
         todo |-> {}, rows |-> [u \in User |-> None]]

Label == {"idle", "ask", "write", "sync", "notify", "stamp", "delete"}
Syncing == {"sync", "notify", "stamp"}

\* Every variable holds what its comment says; a sync holds the row it is for.
TypeOK ==
    /\ session \in [LoginId -> [user : User, login : Login \cup {None}] \cup {None}]
    /\ dead \subseteq Login
    /\ row \in [User -> Row \cup {None}]
    /\ ids \in 0..MaxId
    /\ \A p \in Proc :
         LET r == op[p]
         IN  /\ r.pc \in Label
             /\ r.pc \in {"ask", "write"} => r.id \in LoginId
             /\ r.pc = "write" => r.login \in Login
             /\ r.pc \in Syncing => r.copy \in Copy /\ r.user \in User
             /\ r.pc = "sync" => r.copy.login \in Login
             /\ r.rows \in [User -> Copy \cup {None}]
    /\ told \in [User -> BOOLEAN] /\ raced \in [User -> BOOLEAN]

Init ==
    /\ session = [l \in LoginId |-> None]
    /\ dead = {}
    /\ row = [u \in User |-> None]
    /\ ids = 0
    /\ op = [p \in Proc |-> Idle]
    /\ told = [u \in User |-> FALSE]
    /\ raced = [u \in User |-> FALSE]

-----------------------------------------------------------------------------
Become(p, r) == op' = [op EXCEPT ![p] = r]
Goto(p, label) == Become(p, [op[p] EXCEPT !.pc = label])
Free(p) == op[p].pc = "idle"

\* The id is a new one: none that is open or in any call.
start_oauth(u, l) ==
    /\ session[l] = None /\ \A p \in Proc : op[p].id # l
    /\ session' = [session EXCEPT ![l] = [user |-> u, login |-> None]]
    /\ UNCHANGED <<dead, row, ids, op, told, raced>>

\* cancel_oauth deletes the session, or its 300 seconds are over.
CancelOrExpire(l) ==
    /\ session[l] # None
    /\ session' = [session EXCEPT ![l] = None]
    /\ UNCHANGED <<dead, row, ids, op, told, raced>>

-----------------------------------------------------------------------------
\* poll_oauth looks at the session once, before it asks Cursor.
StartPoll(p, l) ==
    /\ p \in Web /\ Free(p)
    /\ session[l] # None
    /\ Become(p, [Idle EXCEPT !.pc = "ask", !.id = l, !.user = session[l].user])
    /\ UNCHANGED <<session, dead, row, ids, told, raced>>

\* The user has approved in the browser, at Cursor, with one of his logins, or
\* has not yet.  _upsert_account begins by reading his row.
PollAnswer(p) ==
    LET r == op[p]
        open == session[r.id] # None
    IN  /\ r.pc = "ask"
        /\ \/ /\ open => session[r.id].login = None
              /\ Become(p, Idle) /\ UNCHANGED session
           \/ \E g \in Login :
                /\ open => session[r.id].login \in {None, g}
                /\ session' = IF open THEN [session EXCEPT ![r.id].login = g] ELSE session
                /\ Become(p, [r EXCEPT !.pc = "write", !.login = g, !.copy = KeyOf(row[r.user])])
        /\ UNCHANGED <<dead, row, ids, told, raced>>

Bound(id, login) == [id |-> id, login |-> login, uid |-> login, status |-> "OK", notified |-> FALSE]

\* Whether process p works for user u from a copy of his row.
HasCopy(p, u) == \/ op[p].pc \in Syncing /\ op[p].user = u
                 \/ u \in op[p].todo

\* Whether the row with this key is there.
Present(u, id) == row[u] # None /\ row[u].id = id

\* The row that is there keeps the user id of the login before.
UpsertKeepsUid(p) ==
    LET r == op[p]
        u == r.user
    IN  /\ r.pc = "write"
        /\ \/ /\ r.copy # None
              /\ row' = IF row[u] = None THEN row
                        ELSE [row EXCEPT ![u].login = r.login, ![u].status = "OK"]
              /\ UNCHANGED ids
           \/ /\ r.copy = None
              /\ ids < MaxId
              /\ IF row[u] # None THEN UNCHANGED <<row, ids>>
                 ELSE row' = [row EXCEPT ![u] = Bound(ids + 1, r.login)] /\ ids' = ids + 1
        /\ IF row'[u] = None \/ row'[u].login # r.login THEN Become(p, Idle)
           ELSE Become(p, [r EXCEPT !.pc = "sync", !.copy = CopyOf(row'[u])])
        /\ raced' = [raced EXCEPT ![u] = \E q \in Proc \ {p} : HasCopy(q, u)]
        /\ told' = [told EXCEPT ![u] = FALSE]
        /\ UNCHANGED <<session, dead>>

\* The sync is given the row that was read before the write.
UpsertSyncsOldCopy(p) ==
    LET r == op[p]
        u == r.user
    IN  /\ r.pc = "write"
        /\ r.copy = None /\ row[u] = None /\ ids < MaxId
        /\ row' = [row EXCEPT ![u] = Bound(ids + 1, r.login)] /\ ids' = ids + 1
        /\ Goto(p, "sync")
        /\ raced' = [raced EXCEPT ![u] = FALSE]
        /\ told' = [told EXCEPT ![u] = FALSE]
        /\ UNCHANGED <<session, dead>>

\* _upsert_account: the row it has found is updated by its key, or one is made;
\* that it has gone meanwhile, or come, raises.
UpsertWrite(p) ==
    LET r == op[p]
        u == r.user
        found == r.copy # None
        raises == IF found THEN ~Present(u, r.copy.id) ELSE row[u] # None
        new == IF found THEN [Bound(r.copy.id, r.login) EXCEPT !.notified = row[u].notified]
               ELSE Bound(ids + 1, r.login)
    IN  /\ r.pc = "write"
        /\ \/ raises /\ Become(p, Idle) /\ UNCHANGED <<row, ids, told, raced>>
           \/ /\ ~raises /\ (~found => ids < MaxId)
              /\ row' = [row EXCEPT ![u] = new]
              /\ ids' = IF found THEN ids ELSE ids + 1
              /\ told' = [told EXCEPT ![u] = FALSE]
              /\ raced' = [raced EXCEPT ![u] = \E q \in Proc \ {p} : HasCopy(q, u)]
              /\ Become(p, [r EXCEPT !.pc = "sync", !.login = None, !.copy = CopyOf(new)])
        /\ UNCHANGED <<session, dead>>

-----------------------------------------------------------------------------
sync_my_account(p, u) ==
    /\ p \in Web /\ Free(p)
    /\ row[u] # None
    /\ Become(p, [Idle EXCEPT !.pc = "sync", !.user = u, !.copy = CopyOf(row[u])])
    /\ UNCHANGED <<session, dead, row, ids, told, raced>>

Rest(p, r) ==
    IF r.todo = {} THEN Become(p, Idle)
    ELSE \E u \in r.todo : Become(p, [Idle EXCEPT !.pc = "sync", !.user = u,
            !.copy = r.rows[u], !.todo = r.todo \ {u}, !.rows = [r.rows EXCEPT ![u] = None]])

sync_all_accounts(p) ==
    LET bound == {u \in User : row[u] # None}
    IN  /\ p \in Worker /\ Free(p)
        /\ bound # {}
        /\ Rest(p, [Idle EXCEPT !.todo = bound, !.rows = [u \in User |-> CopyOf(row[u])]])
        /\ UNCHANGED <<session, dead, row, ids, told, raced>>

\* After a sync the worker turns to the next account, and the poll that bound the
\* account deletes its session,
SyncEnds(p, r) ==
    /\ session' = IF r.id = None THEN session ELSE [session EXCEPT ![r.id] = None]
    /\ Rest(p, r)

\* unless the sync raises.
SyncRaises(p, r) == Rest(p, r) /\ UNCHANGED session

\* Cursor answers, with tokens of its own if the access token was rejected or
\* ran out.  A login that has ended is rejected, or forbidden; any call may fail
\* in passing, which leaves the status alone.  Only the fields the sync has
\* values for are written, by the row's key, over whatever the row holds now.
sync_account_record(p) ==
    LET r == op[p]
        u == r.user
        ended == r.copy.login \in dead
        outcomes == {None} \cup IF ended THEN {"TOKEN_INVALID", "ACCOUNT_ABNORMAL"} ELSE {"OK"}
    IN  /\ r.pc = "sync"
        /\ IF Present(u, r.copy.id)
           THEN \E answer \in outcomes, fresh \in BOOLEAN :
                  LET status == IF answer = None THEN row[u].status ELSE answer
                  IN  /\ fresh => ~ended
                      /\ row' = [row EXCEPT ![u].login = IF fresh THEN r.copy.login ELSE @,
                              ![u].uid = IF fresh \/ answer = "OK" THEN r.copy.login ELSE @,
                              ![u].status = status]
                      /\ told' = [told EXCEPT ![u] = @ /\ status # "OK"]
                      /\ Become(p, [r EXCEPT !.pc = "notify", !.copy = KeyOf(@)])
                      /\ UNCHANGED session
           ELSE UNCHANGED <<row, told>> /\ SyncRaises(p, r)
        /\ UNCHANGED <<dead, ids, raced>>

\* Only an account in trouble is worth telling of, not a login that ended.
NotifyAbnormalOnly(a) == a.status = "ACCOUNT_ABNORMAL" /\ ~a.notified

should_notify(a) == a.status # "OK" /\ ~a.notified

\* The row is read again, and the user told unless he was lately.
notify_abnormal(p) ==
    LET r == op[p]
        a == row[r.user]
    IN  /\ r.pc = "notify"
        /\ IF Present(r.user, r.copy.id) /\ should_notify(a)
           THEN told' = [told EXCEPT ![r.user] = TRUE] /\ Goto(p, "stamp") /\ UNCHANGED session
           ELSE UNCHANGED told /\ SyncEnds(p, r)
        /\ UNCHANGED <<dead, row, ids, raced>>

NotifyStamp(p) ==
    LET r == op[p]
        u == r.user
        there == Present(u, r.copy.id)
    IN  /\ r.pc = "stamp"
        /\ IF there THEN row' = [row EXCEPT ![u].notified = TRUE] /\ SyncEnds(p, r)
           ELSE UNCHANGED row /\ SyncRaises(p, r)
        /\ UNCHANGED <<dead, ids, told, raced>>

\* A request is cut off after 45 seconds.
Cancel(p) ==
    /\ p \in Web /\ op[p].pc \in Syncing /\ op[p].id = None
    /\ Become(p, Idle)
    /\ UNCHANGED <<session, dead, row, ids, told, raced>>

-----------------------------------------------------------------------------
\* unbind reads the row, cleans up at Cursor and deletes it.
StartUnbind(p, u) ==
    /\ p \in Web /\ Free(p)
    /\ row[u] # None
    /\ Become(p, [Idle EXCEPT !.pc = "delete", !.user = u, !.copy = KeyOf(row[u])])
    /\ UNCHANGED <<session, dead, row, ids, told, raced>>

UnbindDelete(p) ==
    LET r == op[p]
        u == r.user
    IN  /\ r.pc = "delete"
        /\ IF Present(u, r.copy.id)
           THEN /\ row' = [row EXCEPT ![u] = None]
                /\ told' = [told EXCEPT ![u] = FALSE] /\ raced' = [raced EXCEPT ![u] = FALSE]
           ELSE UNCHANGED <<row, told, raced>>
        /\ Become(p, Idle)
        /\ UNCHANGED <<session, dead, ids>>

\* The review of bindings marks an account whose circuit failed too often.
MarkInvalid(u) ==
    /\ row[u] # None /\ row[u].status = "OK"
    /\ row' = [row EXCEPT ![u].status = "TOKEN_INVALID"]
    /\ UNCHANGED <<session, dead, ids, op, told, raced>>

\* Cursor ends a login.
LoginEnds(g) ==
    /\ g \notin dead /\ Cardinality(dead) < MaxDeaths
    /\ dead' = dead \cup {g}
    /\ UNCHANGED <<session, row, ids, op, told, raced>>

\* 24 hours after a notification.
CooldownEnds(u) ==
    /\ row[u] # None /\ row[u].notified
    /\ row' = [row EXCEPT ![u].notified = FALSE]
    /\ UNCHANGED <<session, dead, ids, op, told, raced>>

-----------------------------------------------------------------------------
Step(p) ==
    \/ PollAnswer(p) \/ UpsertWrite(p)
    \/ sync_account_record(p) \/ notify_abnormal(p) \/ NotifyStamp(p)
    \/ UnbindDelete(p)

Next ==
    \/ \E p \in Proc :
         \/ Step(p) \/ Cancel(p) \/ sync_all_accounts(p)
         \/ \E u \in User : sync_my_account(p, u) \/ StartUnbind(p, u)
         \/ \E l \in LoginId : StartPoll(p, l)
    \/ \E l \in LoginId :
         \/ CancelOrExpire(l)
         \/ \E u \in User : start_oauth(u, l)
    \/ \E u \in User : MarkInvalid(u) \/ CooldownEnds(u)
    \/ \E g \in Login : LoginEnds(g)

Spec == Init /\ [][Next]_vars

\* A call that has begun goes on, the beat starts the worker again and again,
\* and 24 hours pass.
Fairness ==
    /\ \A p \in Proc : WF_vars(Step(p))
    /\ \A p \in Worker : WF_vars(sync_all_accounts(p))
    /\ \A u \in User : WF_vars(CooldownEnds(u))

FairSpec == Spec /\ Fairness

-----------------------------------------------------------------------------
\* The tokens of a row and the user id its session cookies are made of belong
\* to one login, unless the account was bound anew while a sync was under way
\* that had read it before.
RowOfOneLogin ==
    \A u \in User : row[u] # None /\ ~raced[u] => row[u].login = row[u].uid

\* A user whose binding went bad is told, unless it is repaired or given up:
\* neither the 24 hours of silence after an earlier notification nor another
\* handler that overlaps, is cut off or works from an older row keeps it from
\* him for good (notify_abnormal).
BadBindingIsTold ==
    \A u \in User : row[u] # None /\ row[u].status # "OK"
        ~> told[u] \/ row[u] = None \/ row[u].status = "OK"

=============================================================================
