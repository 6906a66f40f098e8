--------------------------- MODULE BindingProofs ---------------------------
(***************************************************************************)
(* Proofs about AccountBinding, for any users, logins, handlers and bounds: *)
(* its state is well formed, and a row mixes two logins only when it was   *)
(* bound while a sync of it was under way.                                 *)
(***************************************************************************)
EXTENDS AccountBinding, TLAPS

\* The locals of a call, of whatever kind.
Request ==
    [pc : Label, id : LoginId \cup {None}, user : User \cup {None}, login : Login \cup {None},
     copy : [id : 1..MaxId, login : Login \cup {None}] \cup {None},
     todo : SUBSET User, rows : [User -> Copy \cup {None}]]

\* Where a call stands, what it goes on to use is there; the copies the worker
\* holds for later are such that a sync can start from them.
Ready(r) ==
    /\ r.pc \in {"ask", "write", "delete"} => r.user \in User /\ r.todo = {}
    /\ r.pc \in {"ask", "write"} => r.id \in LoginId
    /\ r.pc = "write" => r.login \in Login
    /\ r.pc \in Syncing => r.copy \in Copy /\ r.user \in User
    /\ r.pc = "sync" => r.copy.login \in Login
    /\ \A u \in r.todo : r.rows[u] \in Copy /\ r.rows[u].login \in Login

CallsInv == op \in [Proc -> Request] /\ \A p \in Proc : Ready(op[p])

TablesInv ==
    /\ session \in [LoginId -> [user : User, login : Login \cup {None}] \cup {None}]
    /\ dead \subseteq Login
    /\ row \in [User -> Row \cup {None}]
    /\ ids \in 0..MaxId
    /\ told \in [User -> BOOLEAN]
    /\ raced \in [User -> BOOLEAN]

TypeInv == TablesInv /\ CallsInv

-----------------------------------------------------------------------------
LEMMA TypeInvImplies == TypeInv => TypeOK
  BY DEF TypeInv, TablesInv, CallsInv, TypeOK, Ready, Request, Label, Syncing

LEMMA IdleReady == Idle \in Request /\ Ready(Idle)
  BY DEF Idle, Request, Ready, Label, Syncing

LEMMA CopyTyped ==
  ASSUME NEW a \in Row \cup {None}
  PROVE  /\ KeyOf(a) \in Copy \cup {None} /\ CopyOf(a) \in Copy \cup {None}
         /\ a # None => KeyOf(a) \in Copy /\ CopyOf(a) \in Copy /\ CopyOf(a).login \in Login
  BY DEF Row, Copy, KeyOf, CopyOf

LEMMA BecomeTyped ==
  ASSUME CallsInv, NEW p \in Proc, NEW r \in Request, Ready(r), Become(p, r)
  PROVE  CallsInv'
<1>1. op' = [op EXCEPT ![p] = r] /\ op \in [Proc -> Request]
  BY DEF CallsInv, Become
<1>2. op' \in [Proc -> Request]
  BY <1>1
<1>3. ASSUME NEW q \in Proc PROVE Ready(op'[q])
  BY <1>1 DEF CallsInv
<1> QED
  BY <1>2, <1>3 DEF CallsInv, Ready

\* The worker that takes up the next copy can sync from it.
LEMMA RestTyped ==
  ASSUME CallsInv, NEW p \in Proc, NEW r \in Request, Rest(p, r),
         \A u \in r.todo : r.rows[u] \in Copy /\ r.rows[u].login \in Login
  PROVE  CallsInv'
<1>1. CASE Become(p, Idle)
  BY <1>1, IdleReady, BecomeTyped
<1>2. ASSUME NEW u \in r.todo,
             Become(p, [Idle EXCEPT !.pc = "sync", !.user = u, !.copy = r.rows[u],
                            !.todo = r.todo \ {u}, !.rows = [r.rows EXCEPT ![u] = None]])
      PROVE  CallsInv'
  <2> DEFINE next == [Idle EXCEPT !.pc = "sync", !.user = u, !.copy = r.rows[u],
                            !.todo = r.todo \ {u}, !.rows = [r.rows EXCEPT ![u] = None]]
  <2>1. u \in User /\ r.rows \in [User -> Copy \cup {None}] /\ r.todo \subseteq User
    BY DEF Request
  <2>2. /\ next.pc = "sync" /\ next.user = u /\ next.copy = r.rows[u] /\ next.id = None
        /\ next.login = None /\ next.todo = r.todo \ {u} /\ next.rows = [r.rows EXCEPT ![u] = None]
    BY DEF Idle
  <2>3. next \in Request
    BY <2>1 DEF Idle, Request, Label, Copy
  <2>4. Ready(next)
    <3>1. \A v \in next.todo : next.rows[v] = r.rows[v] /\ v \in r.todo
      BY <2>1, <2>2
    <3> HIDE DEF next
    <3> QED
      BY <2>1, <2>2, <3>1 DEF Ready, Syncing
  <2> QED
    BY <1>2, <2>3, <2>4, BecomeTyped
<1> QED
  BY <1>1, <1>2 DEF Rest

LEMMA TypeInit == Init => TypeInv
  BY IdleReady, BindingAssumption DEF Init, TypeInv, TablesInv, CallsInv

LEMMA TypeStep == TypeInv /\ [Next]_vars => TypeInv'
<1> SUFFICES ASSUME TypeInv, [Next]_vars PROVE TypeInv'
  OBVIOUS
<1> USE DEF TypeInv
<1>a. /\ session \in [LoginId -> [user : User, login : Login \cup {None}] \cup {None}]
      /\ dead \subseteq Login /\ row \in [User -> Row \cup {None}] /\ ids \in 0..MaxId
      /\ told \in [User -> BOOLEAN] /\ raced \in [User -> BOOLEAN]
  BY DEF TablesInv
<1>b. MaxId \in Nat
  BY BindingAssumption
<1>c. ASSUME NEW p \in Proc PROVE op[p] \in Request /\ Ready(op[p])
  BY DEF CallsInv
<1>1. CASE UNCHANGED vars
  BY <1>1 DEF vars, TablesInv, CallsInv, Ready
<1>2. ASSUME NEW u \in User, NEW l \in LoginId, start_oauth(u, l) PROVE TypeInv'
  BY <1>2, <1>a DEF start_oauth, TablesInv, CallsInv, Ready
<1>3. ASSUME NEW l \in LoginId, CancelOrExpire(l) PROVE TypeInv'
  BY <1>3, <1>a DEF CancelOrExpire, TablesInv, CallsInv, Ready
<1>4. ASSUME NEW p \in Proc, NEW l \in LoginId, StartPoll(p, l) PROVE TypeInv'
  <2> DEFINE next == [Idle EXCEPT !.pc = "ask", !.id = l, !.user = session[l].user]
  <2>1. session[l].user \in User
    BY <1>4, <1>a DEF StartPoll
  <2>2. next \in Request /\ Ready(next)
    BY <2>1 DEF Idle, Request, Ready, Label, Syncing
  <2>3. Become(p, next) /\ UNCHANGED <<session, dead, row, ids, told, raced>>
    BY <1>4 DEF StartPoll
  <2> QED
    BY <2>2, <2>3, BecomeTyped DEF TablesInv
<1>5. ASSUME NEW p \in Proc, PollAnswer(p) PROVE TypeInv'
  <2>1. UNCHANGED <<dead, row, ids, told, raced>> /\ op[p].pc = "ask"
    BY <1>5 DEF PollAnswer
  <2>2. CASE Become(p, Idle) /\ UNCHANGED session
    BY <2>1, <2>2, IdleReady, BecomeTyped DEF TablesInv
  <2>3. ASSUME NEW g \in Login,
               session' = IF session[op[p].id] # None THEN [session EXCEPT ![op[p].id].login = g]
                          ELSE session,
               Become(p, [op[p] EXCEPT !.pc = "write", !.login = g, !.copy = KeyOf(row[op[p].user])])
        PROVE  TypeInv'
    <3> DEFINE next == [op[p] EXCEPT !.pc = "write", !.login = g, !.copy = KeyOf(row[op[p].user])]
    <3>1. op[p].user \in User /\ op[p].id \in LoginId
      BY <1>c, <2>1 DEF Ready
    <3>2. KeyOf(row[op[p].user]) \in Copy \cup {None}
      BY <1>a, <3>1, CopyTyped
    <3>3. next \in Request /\ Ready(next)
      BY <1>c, <2>1, <3>1, <3>2 DEF Request, Ready, Label, Syncing, Copy
    <3>4. session' \in [LoginId -> [user : User, login : Login \cup {None}] \cup {None}]
      BY <1>a, <2>3, <3>1
    <3> QED
      BY <2>1, <2>3, <3>3, <3>4, BecomeTyped DEF TablesInv
  <2> QED
    BY <1>5, <2>2, <2>3 DEF PollAnswer
<1>6. ASSUME NEW p \in Proc, UpsertWrite(p) PROVE TypeInv'
  <2> DEFINE r == op[p]
             u == r.user
             found == r.copy # None
             new == IF found THEN [Bound(r.copy.id, r.login) EXCEPT !.notified = row[u].notified]
                    ELSE Bound(ids + 1, r.login)
  <2>1. /\ r.pc = "write" /\ r \in Request /\ u \in User /\ r.login \in Login
        /\ UNCHANGED <<session, dead>>
    BY <1>6, <1>c DEF UpsertWrite, Ready
  <2>2. CASE Become(p, Idle) /\ UNCHANGED <<row, ids, told, raced>>
    BY <2>1, <2>2, IdleReady, BecomeTyped DEF TablesInv
  <2>3. CASE /\ ~(IF found THEN ~Present(u, r.copy.id) ELSE row[u] # None)
             /\ ~found => ids < MaxId
             /\ row' = [row EXCEPT ![u] = new]
             /\ ids' = IF found THEN ids ELSE ids + 1
             /\ told' = [told EXCEPT ![u] = FALSE]
             /\ raced' = [raced EXCEPT ![u] = \E q \in Proc \ {p} : HasCopy(q, u)]
             /\ Become(p, [r EXCEPT !.pc = "sync", !.login = None, !.copy = CopyOf(new)])
    <3>1. new \in Row
      <4>1. CASE found
        <5>1. r.copy \in Copy /\ row[u] \in Row
          BY <1>a, <2>1, <2>3, <4>1 DEF Request, Copy, Present
        <5> QED
          BY <2>1, <4>1, <5>1 DEF Bound, Row, Copy, Status
      <4>2. CASE ~found
        <5>1. ids + 1 \in 1..MaxId
          BY <1>a, <1>b, <2>3, <4>2
        <5> QED
          BY <2>1, <4>2, <5>1 DEF Bound, Row, Status
      <4> QED
        BY <4>1, <4>2
    <3>2. ids' \in 0..MaxId
      BY <1>a, <1>b, <2>3
    <3>3. new.id \in 1..MaxId /\ new.login \in Login
      BY <3>1 DEF Row
    <3> DEFINE next == [r EXCEPT !.pc = "sync", !.login = None, !.copy = CopyOf(new)]
    <3>4. CopyOf(new) \in Copy /\ CopyOf(new).login \in Login
      BY <3>1, CopyTyped, NoneAssumption
    <3>5. r \in Request /\ Ready(r)
      BY <1>c
    <3> HIDE DEF new, r
    <3>6. next \in Request /\ Ready(next)
      BY <2>1, <3>4, <3>5 DEF Request, Ready, Label, Syncing, Copy
    <3>7. row' \in [User -> Row \cup {None}] /\ told' \in [User -> BOOLEAN]
          /\ raced' \in [User -> BOOLEAN]
      BY <1>a, <2>1, <2>3, <3>1
    <3>8. CallsInv'
      BY <2>3, <3>6, BecomeTyped
    <3> QED
      BY <1>a, <2>1, <3>2, <3>7, <3>8 DEF TablesInv
  <2> QED
    BY <1>6, <2>2, <2>3 DEF UpsertWrite
<1>7. ASSUME NEW p \in Proc, NEW u \in User, sync_my_account(p, u) PROVE TypeInv'
  <2> DEFINE next == [Idle EXCEPT !.pc = "sync", !.user = u, !.copy = CopyOf(row[u])]
  <2>1. CopyOf(row[u]) \in Copy /\ CopyOf(row[u]).login \in Login
    BY <1>7, <1>a, CopyTyped DEF sync_my_account
  <2>2. next \in Request /\ Ready(next)
    BY <2>1 DEF Idle, Request, Ready, Label, Syncing, Copy
  <2>3. Become(p, next) /\ UNCHANGED <<session, dead, row, ids, told, raced>>
    BY <1>7 DEF sync_my_account
  <2> QED
    BY <2>2, <2>3, BecomeTyped DEF TablesInv
<1>8. ASSUME NEW p \in Proc, sync_all_accounts(p) PROVE TypeInv'
  <2> DEFINE bound == {u \in User : row[u] # None}
             r == [Idle EXCEPT !.todo = bound, !.rows = [u \in User |-> CopyOf(row[u])]]
  <2>1. \A u \in User : CopyOf(row[u]) \in Copy \cup {None}
    BY <1>a, CopyTyped
  <2>2. \A u \in bound : CopyOf(row[u]) \in Copy /\ CopyOf(row[u]).login \in Login
    BY <1>a, CopyTyped
  <2>3. r \in Request
    BY <2>1 DEF Idle, Request, Label
  <2>4. r.todo = bound /\ r.rows = [u \in User |-> CopyOf(row[u])]
    BY DEF Idle
  <2>5. Rest(p, r) /\ UNCHANGED <<session, dead, row, ids, told, raced>>
    BY <1>8 DEF sync_all_accounts
  <2>6. \A u \in r.todo : r.rows[u] \in Copy /\ r.rows[u].login \in Login
    BY <2>2, <2>4
  <2> HIDE DEF r
  <2>7. CallsInv'
    BY <2>3, <2>5, <2>6, RestTyped
  <2> QED
    BY <2>5, <2>7 DEF TablesInv
<1>d. ASSUME NEW p \in Proc, op[p].pc \in Syncing PROVE SyncRaises(p, op[p]) => CallsInv' /\ UNCHANGED session
  BY <1>c, RestTyped DEF SyncRaises, Ready
<1>e. ASSUME NEW p \in Proc, op[p].pc \in Syncing, SyncEnds(p, op[p])
      PROVE  /\ CallsInv'
             /\ session' \in [LoginId -> [user : User, login : Login \cup {None}] \cup {None}]
  <2>1. CallsInv'
    BY <1>c, <1>e, RestTyped DEF SyncEnds, Ready
  <2>2. session' = IF op[p].id = None THEN session ELSE [session EXCEPT ![op[p].id] = None]
    BY <1>e DEF SyncEnds
  <2> QED
    BY <1>a, <2>1, <2>2
<1>9. ASSUME NEW p \in Proc, sync_account_record(p) PROVE TypeInv'
  <2> DEFINE r == op[p]
             u == r.user
  <2>1. /\ r.pc = "sync" /\ r \in Request /\ Ready(r) /\ u \in User /\ r.copy \in Copy
        /\ r.copy.login \in Login /\ UNCHANGED <<dead, ids, raced>>
    BY <1>9, <1>c DEF sync_account_record, Ready, Syncing
  <2>2. CASE UNCHANGED <<row, told>> /\ SyncRaises(p, r)
    BY <1>a, <1>d, <2>1, <2>2 DEF Syncing, TablesInv
  <2> DEFINE Outcome(answer, fresh) ==
               LET status == IF answer = None THEN row[u].status ELSE answer
               IN  /\ row' = [row EXCEPT ![u].login = IF fresh THEN r.copy.login ELSE @,
                              ![u].uid = IF fresh \/ answer = "OK" THEN r.copy.login ELSE @,
                              ![u].status = status]
                   /\ told' = [told EXCEPT ![u] = @ /\ status # "OK"]
                   /\ Become(p, [r EXCEPT !.pc = "notify", !.copy = KeyOf(@)])
                   /\ UNCHANGED session
  <2>3. ASSUME NEW answer \in {None} \cup Status, NEW fresh \in BOOLEAN,
               Present(u, r.copy.id), Outcome(answer, fresh)
        PROVE  TypeInv'
    <3> DEFINE next == [r EXCEPT !.pc = "notify", !.copy = KeyOf(@)]
    <3>1. row[u] \in Row
      BY <1>a, <2>1, <2>3 DEF Present
    <3>2. (IF answer = None THEN row[u].status ELSE answer) \in Status
      BY <3>1 DEF Row
    <3>3. row' \in [User -> Row \cup {None}]
      BY <1>a, <2>1, <2>3, <3>1, <3>2 DEF Row
    <3>4. KeyOf(r.copy) \in Copy
      <4>1. r.copy # None
        BY <1>9, <2>1, NoneAssumption
      <4> QED
        BY <2>1, <4>1 DEF KeyOf, Copy
    <3> HIDE DEF r
    <3>5. next \in Request /\ Ready(next)
      BY <2>1, <3>4 DEF Request, Ready, Label, Syncing, Copy
    <3>6. told' \in [User -> BOOLEAN]
      BY <1>a, <2>1, <2>3
    <3>7. CallsInv'
      BY <2>3, <3>5, BecomeTyped
    <3> QED
      BY <1>a, <2>1, <2>3, <3>3, <3>6, <3>7 DEF TablesInv
  <2>4. CASE Present(u, r.copy.id)
    <3>1. PICK answer \in {None} \cup Status, fresh \in BOOLEAN : Outcome(answer, fresh)
      BY <1>9, <2>4 DEF sync_account_record, Status
    <3> QED
      BY <2>3, <2>4, <3>1
  <2>5. CASE ~Present(u, r.copy.id)
    BY <1>9, <2>2, <2>5 DEF sync_account_record
  <2> QED
    BY <2>4, <2>5
<1>10. ASSUME NEW p \in Proc, notify_abnormal(p) PROVE TypeInv'
  <2>1. op[p].pc = "notify" /\ op[p].user \in User /\ UNCHANGED <<dead, row, ids, raced>>
    BY <1>10, <1>c DEF notify_abnormal, Ready, Syncing
  <2>2. CASE told' = [told EXCEPT ![op[p].user] = TRUE] /\ Goto(p, "stamp") /\ UNCHANGED session
    <3> DEFINE next == [op[p] EXCEPT !.pc = "stamp"]
    <3>1. next \in Request /\ Ready(next)
      BY <1>c, <2>1 DEF Request, Ready, Label, Syncing
    <3>2. CallsInv'
      BY <2>2, <3>1, BecomeTyped DEF Goto
    <3> QED
      BY <1>a, <2>1, <2>2, <3>2 DEF TablesInv
  <2>3. CASE UNCHANGED told /\ SyncEnds(p, op[p])
    BY <1>a, <1>e, <2>1, <2>3 DEF Syncing, TablesInv
  <2> QED
    BY <1>10, <2>2, <2>3 DEF notify_abnormal
<1>11. ASSUME NEW p \in Proc, NotifyStamp(p) PROVE TypeInv'
  <2>1. op[p].pc = "stamp" /\ op[p].user \in User /\ UNCHANGED <<dead, ids, told, raced>>
    BY <1>11, <1>c DEF NotifyStamp, Ready, Syncing
  <2>2. CASE /\ Present(op[p].user, op[p].copy.id)
             /\ row' = [row EXCEPT ![op[p].user].notified = TRUE] /\ SyncEnds(p, op[p])
    <3>1. row' \in [User -> Row \cup {None}]
      BY <1>a, <2>1, <2>2 DEF Present, Row
    <3> QED
      BY <1>a, <1>e, <2>1, <2>2, <3>1 DEF Syncing, TablesInv
  <2>3. CASE UNCHANGED row /\ SyncRaises(p, op[p])
    BY <1>a, <1>d, <2>1, <2>3 DEF Syncing, TablesInv
  <2> QED
    BY <1>11, <2>2, <2>3 DEF NotifyStamp
<1>12. ASSUME NEW p \in Proc, Cancel(p) PROVE TypeInv'
  BY <1>12, IdleReady, BecomeTyped DEF Cancel, TablesInv
<1>13. ASSUME NEW p \in Proc, NEW u \in User, StartUnbind(p, u) PROVE TypeInv'
  <2> DEFINE next == [Idle EXCEPT !.pc = "delete", !.user = u, !.copy = KeyOf(row[u])]
  <2>1. KeyOf(row[u]) \in Copy
    BY <1>13, <1>a, CopyTyped DEF StartUnbind
  <2>2. next \in Request /\ Ready(next)
    BY <2>1 DEF Idle, Request, Ready, Label, Syncing, Copy
  <2>3. Become(p, next) /\ UNCHANGED <<session, dead, row, ids, told, raced>>
    BY <1>13 DEF StartUnbind
  <2> QED
    BY <2>2, <2>3, BecomeTyped DEF TablesInv
<1>14. ASSUME NEW p \in Proc, UnbindDelete(p) PROVE TypeInv'
  <2>1. op[p].user \in User /\ Become(p, Idle) /\ UNCHANGED <<session, dead, ids>>
    BY <1>14, <1>c DEF UnbindDelete, Ready
  <2>2. /\ row' \in [User -> Row \cup {None}]
        /\ told' \in [User -> BOOLEAN] /\ raced' \in [User -> BOOLEAN]
    BY <1>14, <1>a, <2>1 DEF UnbindDelete
  <2>3. CallsInv'
    BY <2>1, IdleReady, BecomeTyped
  <2> QED
    BY <1>a, <2>1, <2>2, <2>3 DEF TablesInv
<1>15. ASSUME NEW u \in User, MarkInvalid(u) PROVE TypeInv'
  <2>1. row' \in [User -> Row \cup {None}]
    BY <1>15, <1>a DEF MarkInvalid, Row, Status
  <2> QED
    BY <1>15, <1>a, <2>1 DEF MarkInvalid, TablesInv, CallsInv, Ready
<1>16. ASSUME NEW u \in User, CooldownEnds(u) PROVE TypeInv'
  <2>1. row' \in [User -> Row \cup {None}]
    BY <1>16, <1>a DEF CooldownEnds, Row
  <2> QED
    BY <1>16, <1>a, <2>1 DEF CooldownEnds, TablesInv, CallsInv, Ready
<1>17. ASSUME NEW g \in Login, LoginEnds(g) PROVE TypeInv'
  BY <1>17, <1>a DEF LoginEnds, TablesInv, CallsInv, Ready
<1> QED
  BY <1>1, <1>2, <1>3, <1>4, <1>5, <1>6, <1>7, <1>8, <1>9, <1>10, <1>11, <1>12, <1>13, <1>14,
     <1>15, <1>16, <1>17 DEF Next, Step

\* The tables and the calls are well formed in every reachable state; a sync
\* always has the row it is for and the login it presents to Cursor.
THEOREM BindingTypeCorrect == Spec => []TypeOK
<1>1. Spec => []TypeInv
  BY TypeInit, TypeStep, PTL DEF Spec
<1> QED
  BY <1>1, TypeInvImplies, PTL

-----------------------------------------------------------------------------
\* What a call is to write for u later is of the login his row is bound to.
Fits(r, u) ==
    /\ r.pc = "sync" /\ r.user = u => r.copy.login = row[u].login
    /\ u \in r.todo => r.rows[u].login = row[u].login

\* A row that has not been bound anew beside a sync is of one login, and so is
\* every copy of it.
OneLogin(u) ==
    row[u] # None /\ ~raced[u] =>
        row[u].login = row[u].uid /\ \A p \in Proc : Fits(op[p], u)

OneLoginInv == \A u \in User : OneLogin(u)

LEMMA OneLoginImplies == OneLoginInv => RowOfOneLogin
  BY DEF OneLoginInv, OneLogin, RowOfOneLogin

LEMMA IdleFits == \A u \in User : Fits(Idle, u)
  BY DEF Fits, Idle

\* A call that takes no copy: it goes on with those it holds, or drops them.
TakesNone(r, q) ==
    /\ r.pc # "sync"
    /\ r.todo = {} \/ (r.todo = q.todo /\ r.rows = q.rows)

LEMMA IdleTakesNone == \A q : TakesNone(Idle, q)
<1>1. Idle.pc = "idle" /\ Idle.todo = {}
  BY DEF Idle
<1> QED
  BY <1>1 DEF TakesNone

\* Unless u's row goes, it keeps its login; its user id stays or becomes the login.
RowKept(u) ==
    \/ row'[u] = None
    \/ /\ row[u] # None /\ row'[u].login = row[u].login
       /\ row'[u].uid \in {row[u].uid, row[u].login}

\* A step of one call that keeps u's row and goes on to write what fits.
LEMMA CallKeeps ==
  ASSUME TypeInv, NEW u \in User, OneLogin(u), NEW p \in Proc, NEW r, Become(p, r),
         raced'[u] = raced[u], RowKept(u), row'[u] # None => Fits(r, u)
  PROVE  OneLogin(u)'
<1>1. op' = [op EXCEPT ![p] = r] /\ op \in [Proc -> Request]
  BY DEF Become, TypeInv, CallsInv
<1>2. ASSUME NEW q \in Proc PROVE op'[q] = IF q = p THEN r ELSE op[q]
  BY <1>1
<1> QED
  BY <1>2 DEF OneLogin, Fits, RowKept

\* The same, where no row changes and the call takes no copy.
LEMMA CallTakesNone ==
  ASSUME TypeInv, OneLoginInv, NEW p \in Proc, NEW r, Become(p, r), row' = row, raced' = raced,
         TakesNone(r, op[p])
  PROVE  OneLoginInv'
<1> SUFFICES ASSUME NEW u \in User PROVE OneLogin(u)'
  BY DEF OneLoginInv
<1>1. row[u] # None /\ ~raced[u] => Fits(r, u)
  BY DEF OneLoginInv, OneLogin, Fits, TakesNone
<1>2. CASE raced[u] \/ row[u] = None
  BY <1>2 DEF OneLogin
<1>3. CASE ~raced[u] /\ row[u] # None
  <2>1. RowKept(u) /\ OneLogin(u) /\ raced'[u] = raced[u]
    BY <1>3 DEF OneLoginInv, RowKept
  <2> QED
    BY <1>1, <1>3, <2>1, CallKeeps
<1> QED
  BY <1>2, <1>3

\* The worker takes up a copy that fits.
LEMMA RestKeeps ==
  ASSUME TypeInv, NEW u \in User, OneLogin(u), NEW p \in Proc, NEW r \in Request, Rest(p, r),
         raced'[u] = raced[u], RowKept(u),
         row[u] # None /\ ~raced[u] /\ u \in r.todo => r.rows[u].login = row[u].login
  PROVE  OneLogin(u)'
<1>1. CASE raced[u] \/ row'[u] = None
  BY <1>1 DEF OneLogin
<1>2. CASE ~raced[u] /\ row'[u] # None /\ row[u] # None
  <2>1. CASE Become(p, Idle)
    BY <1>2, <2>1, IdleFits, CallKeeps
  <2>2. ASSUME NEW v \in r.todo,
               Become(p, [Idle EXCEPT !.pc = "sync", !.user = v, !.copy = r.rows[v],
                              !.todo = r.todo \ {v}, !.rows = [r.rows EXCEPT ![v] = None]])
        PROVE  OneLogin(u)'
    <3> DEFINE next == [Idle EXCEPT !.pc = "sync", !.user = v, !.copy = r.rows[v],
                              !.todo = r.todo \ {v}, !.rows = [r.rows EXCEPT ![v] = None]]
    <3>1. /\ next.user = v /\ next.copy = r.rows[v] /\ next.todo = r.todo \ {v}
          /\ next.rows = [r.rows EXCEPT ![v] = None]
      BY DEF Idle
    <3>2. r.rows \in [User -> Copy \cup {None}]
      BY DEF Request
    <3>3. u \in next.todo => next.rows[u] = r.rows[u] /\ u \in r.todo
      BY <3>1, <3>2
    <3> HIDE DEF next
    <3>4. Fits(next, u)
      BY <1>2, <3>1, <3>3 DEF Fits
    <3>5. Become(p, next)
      BY <2>2 DEF next
    <3> QED
      BY <1>2, <3>4, <3>5, CallKeeps
  <2> QED
    BY <2>1, <2>2 DEF Rest
<1> QED
  BY <1>1, <1>2 DEF RowKept

\* The worker goes on with its copies, and a row, if any, is stamped.
Stamped(u) == row' = row \/ (row[u] # None /\ row' = [row EXCEPT ![u].notified = TRUE])

LEMMA StampedRow ==
  ASSUME TypeInv, NEW u \in User, Stamped(u), NEW v \in User
  PROVE  /\ row[v] = None => row'[v] = None
         /\ row[v] # None => row'[v].login = row[v].login /\ row'[v].uid = row[v].uid
<1>1. row \in [User -> Row \cup {None}]
  BY DEF TypeInv, TablesInv
<1> QED
  BY <1>1 DEF Stamped, Row

LEMMA RestStamps ==
  ASSUME TypeInv, OneLoginInv, NEW p \in Proc, Rest(p, op[p]), raced' = raced,
         NEW u \in User, Stamped(u)
  PROVE  OneLoginInv'
<1> DEFINE r == op[p]
<1>1. r \in Request /\ Rest(p, r)
  BY DEF TypeInv, CallsInv
<1>2. ASSUME NEW v \in User PROVE row[v] # None /\ ~raced[v] /\ v \in r.todo => r.rows[v].login = row[v].login
  BY DEF OneLoginInv, OneLogin, Fits
<1> HIDE DEF r
<1>3. ASSUME NEW v \in User PROVE OneLogin(v)'
  <2>1. CASE row[v] = None
    <3>1. row'[v] = None
      BY <2>1, StampedRow
    <3> QED
      BY <3>1 DEF OneLogin
  <2>2. CASE row[v] # None
    <3>1. RowKept(v)
      BY <2>2, StampedRow DEF RowKept
    <3>2. OneLogin(v) /\ raced'[v] = raced[v]
      BY DEF OneLoginInv
    <3>3. row[v] # None /\ ~raced[v] /\ v \in r.todo => r.rows[v].login = row[v].login
      BY <1>2
    <3> QED
      BY <1>1, <3>1, <3>2, <3>3, RestKeeps
  <2> QED
    BY <2>1, <2>2
<1> QED
  BY <1>3 DEF OneLoginInv

LEMMA OneLoginInit == Init => OneLoginInv
  BY DEF Init, OneLoginInv, OneLogin

LEMMA OneLoginStep == TypeInv /\ OneLoginInv /\ [Next]_vars => OneLoginInv'
<1> SUFFICES ASSUME TypeInv, OneLoginInv, [Next]_vars PROVE OneLoginInv'
  OBVIOUS
<1>a. /\ row \in [User -> Row \cup {None}] /\ raced \in [User -> BOOLEAN]
      /\ op \in [Proc -> Request]
  BY DEF TypeInv, TablesInv, CallsInv
<1>b. ASSUME NEW p \in Proc PROVE op[p] \in Request /\ Ready(op[p])
  BY DEF TypeInv, CallsInv
<1>c. ASSUME NEW u \in User PROVE OneLogin(u)
  BY DEF OneLoginInv
<1>d. ASSUME UNCHANGED <<row, op, raced>> PROVE OneLoginInv'
  BY <1>d DEF OneLoginInv, OneLogin, Fits
<1>1. CASE UNCHANGED vars
  BY <1>1, <1>d DEF vars
<1>2. ASSUME NEW u \in User, NEW l \in LoginId, start_oauth(u, l) PROVE OneLoginInv'
  BY <1>2, <1>d DEF start_oauth
<1>3. ASSUME NEW l \in LoginId, CancelOrExpire(l) PROVE OneLoginInv'
  BY <1>3, <1>d DEF CancelOrExpire
<1>4. ASSUME NEW p \in Proc, NEW l \in LoginId, StartPoll(p, l) PROVE OneLoginInv'
  <2> DEFINE next == [Idle EXCEPT !.pc = "ask", !.id = l, !.user = session[l].user]
  <2>1. next.pc = "ask" /\ next.todo = {}
    BY DEF Idle
  <2>2. Become(p, next) /\ UNCHANGED <<row, raced>>
    BY <1>4 DEF StartPoll
  <2> HIDE DEF next
  <2>3. TakesNone(next, op[p])
    BY <2>1 DEF TakesNone
  <2> QED
    BY <2>2, <2>3, CallTakesNone
<1>5. ASSUME NEW p \in Proc, PollAnswer(p) PROVE OneLoginInv'
  <2>0. UNCHANGED <<row, raced>>
    BY <1>5 DEF PollAnswer
  <2>1. CASE Become(p, Idle)
    <3>1. TakesNone(Idle, op[p])
      BY IdleTakesNone
    <3> QED
      BY <2>0, <2>1, <3>1, CallTakesNone
  <2>2. ASSUME NEW g \in Login,
               Become(p, [op[p] EXCEPT !.pc = "write", !.login = g, !.copy = KeyOf(row[op[p].user])])
        PROVE  OneLoginInv'
    <3> DEFINE next == [op[p] EXCEPT !.pc = "write", !.login = g, !.copy = KeyOf(row[op[p].user])]
    <3>1. next.pc = "write" /\ next.todo = op[p].todo /\ next.rows = op[p].rows
      BY <1>b DEF Request
    <3>2. Become(p, next)
      BY <2>2
    <3> HIDE DEF next
    <3>3. TakesNone(next, op[p])
      BY <3>1 DEF TakesNone
    <3> QED
      BY <2>0, <3>2, <3>3, CallTakesNone
  <2> QED
    BY <1>5, <2>1, <2>2 DEF PollAnswer
<1>6. ASSUME NEW p \in Proc, UpsertWrite(p) PROVE OneLoginInv'
  <2> DEFINE r == op[p]
             u == r.user
             found == r.copy # None
             new == IF found THEN [Bound(r.copy.id, r.login) EXCEPT !.notified = row[u].notified]
                    ELSE Bound(ids + 1, r.login)
             next == [r EXCEPT !.pc = "sync", !.login = None, !.copy = CopyOf(new)]
  <2>1. r.pc = "write" /\ r \in Request /\ u \in User /\ r.todo = {}
    BY <1>6, <1>b DEF UpsertWrite, Ready
  <2>2. CASE Become(p, Idle) /\ UNCHANGED <<row, raced>>
    <3>1. TakesNone(Idle, op[p])
      BY IdleTakesNone
    <3> QED
      BY <2>2, <3>1, CallTakesNone
  <2>3. CASE /\ row' = [row EXCEPT ![u] = new]
             /\ raced' = [raced EXCEPT ![u] = \E q \in Proc \ {p} : HasCopy(q, u)]
             /\ Become(p, next)
    <3>1. new.login = r.login /\ new.uid = r.login
      BY DEF Bound
    <3>2. next.user = u /\ next.todo = {} /\ (new # None => next.copy.login = new.login)
      BY <2>1 DEF Request, CopyOf
    <3> HIDE DEF new, next
    <3>3. op' = [op EXCEPT ![p] = next]
      BY <2>3 DEF Become
    <3>4. ASSUME NEW v \in User, v # u PROVE OneLogin(v)'
      <4>1. row'[v] = row[v] /\ raced'[v] = raced[v]
        BY <1>a, <2>1, <2>3, <3>4
      <4>2. Fits(next, v)
        BY <3>2, <3>4 DEF Fits
      <4>3. CASE row[v] = None
        BY <4>1, <4>3 DEF OneLogin
      <4>4. CASE row[v] # None
        BY <1>c, <2>3, <4>1, <4>2, <4>4, CallKeeps DEF RowKept
      <4> QED
        BY <4>3, <4>4
    <3>5. ASSUME NEW v \in User, v = u PROVE OneLogin(v)'
      <4>1. row'[v] = new
        BY <1>a, <2>3, <3>5
      <4>2. CASE raced'[v] \/ new = None
        BY <4>1, <4>2 DEF OneLogin
      <4>3. CASE ~raced'[v] /\ new # None
        <5>1. \A q \in Proc \ {p} : ~HasCopy(q, v)
          BY <1>a, <2>3, <3>5, <4>3
        <5>2. ASSUME NEW q \in Proc PROVE Fits(op[q], v)'
          <6>1. CASE q = p
            <7>1. op'[q] = next
              BY <1>a, <3>3, <6>1
            <7> QED
              BY <3>2, <3>5, <4>1, <4>3, <7>1 DEF Fits
          <6>2. CASE q # p
            <7>1. op'[q] = op[q] /\ ~HasCopy(q, v)
              BY <1>a, <3>3, <5>1, <6>2
            <7> QED
              BY <7>1 DEF HasCopy, Syncing, Fits
          <6> QED
            BY <6>1, <6>2
        <5> QED
          BY <3>1, <4>1, <5>2 DEF OneLogin
      <4> QED
        BY <4>2, <4>3
    <3> QED
      BY <3>4, <3>5 DEF OneLoginInv
  <2> QED
    BY <1>6, <2>2, <2>3 DEF UpsertWrite
<1>7. ASSUME NEW p \in Proc, NEW u \in User, sync_my_account(p, u) PROVE OneLoginInv'
  <2> DEFINE next == [Idle EXCEPT !.pc = "sync", !.user = u, !.copy = CopyOf(row[u])]
  <2>1. /\ next.user = u /\ next.todo = {}
        /\ row[u] # None => next.copy.login = row[u].login
    BY DEF Idle, CopyOf
  <2>2. Become(p, next) /\ UNCHANGED <<row, raced>> /\ row[u] # None
    BY <1>7 DEF sync_my_account
  <2> HIDE DEF next
  <2>3. ASSUME NEW v \in User PROVE Fits(next, v)
    BY <2>1, <2>2 DEF Fits
  <2>4. ASSUME NEW v \in User PROVE OneLogin(v)'
    <3>1. CASE row[v] = None
      BY <2>2, <3>1 DEF OneLogin
    <3>2. CASE row[v] # None
      BY <1>c, <2>2, <2>3, <3>2, CallKeeps DEF RowKept
    <3> QED
      BY <3>1, <3>2
  <2> QED
    BY <2>4 DEF OneLoginInv
<1>8. ASSUME NEW p \in Proc, sync_all_accounts(p) PROVE OneLoginInv'
  <2> DEFINE bound == {u \in User : row[u] # None}
             r == [Idle EXCEPT !.todo = bound, !.rows = [u \in User |-> CopyOf(row[u])]]
  <2>1. \A u \in User : CopyOf(row[u]) \in Copy \cup {None}
    BY <1>a, CopyTyped
  <2>2. r \in Request
    BY <2>1 DEF Idle, Request, Label
  <2>3. r.todo = bound /\ r.rows = [u \in User |-> CopyOf(row[u])]
    BY DEF Idle
  <2>4. Rest(p, r) /\ UNCHANGED <<row, raced>>
    BY <1>8 DEF sync_all_accounts
  <2> HIDE DEF r
  <2>5. ASSUME NEW u \in User PROVE OneLogin(u)'
    <3>1. CASE row[u] = None
      BY <2>4, <3>1 DEF OneLogin
    <3>2. CASE row[u] # None
      <4>1. r.rows[u].login = row[u].login
        BY <2>3, <3>2 DEF CopyOf
      <4> QED
        BY <1>c, <2>2, <2>4, <3>2, <4>1, RestKeeps DEF RowKept
    <3> QED
      BY <3>1, <3>2
  <2> QED
    BY <2>5 DEF OneLoginInv
<1>9. ASSUME NEW p \in Proc, sync_account_record(p) PROVE OneLoginInv'
  <2> DEFINE r == op[p]
             u == r.user
             next == [r EXCEPT !.pc = "notify", !.copy = KeyOf(@)]
  <2>1. r.pc = "sync" /\ r \in Request /\ u \in User /\ UNCHANGED raced
    BY <1>9, <1>b DEF sync_account_record, Ready, Syncing
  <2>2. CASE row' = row /\ SyncRaises(p, r)
    <3>1. Rest(p, op[p]) /\ raced' = raced /\ Stamped(u)
      BY <2>1, <2>2 DEF SyncRaises, Stamped
    <3> QED
      BY <2>1, <3>1, RestStamps
  <2>3. ASSUME NEW fresh \in BOOLEAN, NEW known \in BOOLEAN, NEW status, row[u] # None, Become(p, next),
               row' = [row EXCEPT ![u].login = IF fresh THEN r.copy.login ELSE @,
                              ![u].uid = IF known THEN r.copy.login ELSE @,
                              ![u].status = status]
        PROVE  OneLoginInv'
    <3>1. next.pc = "notify" /\ next.todo = r.todo /\ next.rows = r.rows
      BY <2>1 DEF Request
    <3>2. row[u] \in Row
      BY <1>a, <2>1, <2>3
    <3>3. row'[u].login = (IF fresh THEN r.copy.login ELSE row[u].login)
          /\ row'[u].uid = (IF known THEN r.copy.login ELSE row[u].uid)
      BY <1>a, <2>1, <2>3, <3>2 DEF Row
    <3>4. ASSUME NEW v \in User, v # u PROVE row'[v] = row[v]
      BY <1>a, <2>1, <2>3, <3>4
    <3> HIDE DEF next
    <3>5. ASSUME NEW v \in User PROVE OneLogin(v)'
      <4>1. CASE raced[v] \/ row[v] = None
        BY <2>1, <2>3, <3>4, <4>1 DEF OneLogin
      <4>2. CASE ~raced[v] /\ row[v] # None
        <5>1. Fits(r, v)
          BY <1>c, <4>2 DEF OneLogin
        <5>2. Fits(next, v)
          BY <3>1, <5>1 DEF Fits
        <5>3. row'[v].login = row[v].login /\ row'[v].uid \in {row[v].uid, row[v].login}
          BY <2>1, <3>3, <3>4, <5>1 DEF Fits
        <5> QED
          BY <1>c, <2>1, <2>3, <4>2, <5>2, <5>3, CallKeeps DEF RowKept
      <4> QED
        BY <4>1, <4>2
    <3> QED
      BY <3>5 DEF OneLoginInv
  <2>4. CASE Present(u, r.copy.id)
    <3>1. PICK answer \in {None} \cup Status, fresh \in BOOLEAN :
            /\ row' = [row EXCEPT ![u].login = IF fresh THEN r.copy.login ELSE @,
                              ![u].uid = IF fresh \/ answer = "OK" THEN r.copy.login ELSE @,
                              ![u].status = IF answer = None THEN row[u].status ELSE answer]
            /\ Become(p, next)
      BY <1>9, <2>4 DEF sync_account_record, Status
    <3> DEFINE known == fresh \/ answer = "OK"
    <3>2. known \in BOOLEAN /\ row[u] # None
      BY <2>4 DEF Present
    <3> QED
      BY <2>3, <3>1, <3>2
  <2>5. CASE ~Present(u, r.copy.id)
    BY <1>9, <2>2, <2>5 DEF sync_account_record
  <2> QED
    BY <2>4, <2>5
<1>10. ASSUME NEW p \in Proc, notify_abnormal(p) PROVE OneLoginInv'
  <2>1. op[p].user \in User /\ UNCHANGED <<row, raced>>
    BY <1>10, <1>b DEF notify_abnormal, Ready, Syncing
  <2>2. CASE Goto(p, "stamp")
    <3> DEFINE next == [op[p] EXCEPT !.pc = "stamp"]
    <3>1. next.pc = "stamp" /\ next.todo = op[p].todo /\ next.rows = op[p].rows
      BY <1>b DEF Request
    <3>2. Become(p, next)
      BY <2>2 DEF Goto
    <3> HIDE DEF next
    <3>3. TakesNone(next, op[p])
      BY <3>1 DEF TakesNone
    <3> QED
      BY <2>1, <3>2, <3>3, CallTakesNone
  <2>3. CASE SyncEnds(p, op[p])
    <3>1. Rest(p, op[p]) /\ raced' = raced /\ Stamped(op[p].user)
      BY <2>1, <2>3 DEF SyncEnds, Stamped
    <3> QED
      BY <2>1, <3>1, RestStamps
  <2> QED
    BY <1>10, <2>2, <2>3 DEF notify_abnormal
<1>11. ASSUME NEW p \in Proc, NotifyStamp(p) PROVE OneLoginInv'
  <2>1. op[p].user \in User /\ UNCHANGED raced
    BY <1>11, <1>b DEF NotifyStamp, Ready, Syncing
  <2>2. CASE /\ Present(op[p].user, op[p].copy.id)
             /\ row' = [row EXCEPT ![op[p].user].notified = TRUE] /\ SyncEnds(p, op[p])
    <3>1. Rest(p, op[p]) /\ raced' = raced /\ Stamped(op[p].user)
      BY <2>1, <2>2 DEF SyncEnds, Stamped, Present
    <3> QED
      BY <2>1, <3>1, RestStamps
  <2>3. CASE UNCHANGED row /\ SyncRaises(p, op[p])
    <3>1. Rest(p, op[p]) /\ raced' = raced /\ Stamped(op[p].user)
      BY <2>1, <2>3 DEF SyncRaises, Stamped
    <3> QED
      BY <2>1, <3>1, RestStamps
  <2> QED
    BY <1>11, <2>2, <2>3 DEF NotifyStamp
<1>12. ASSUME NEW p \in Proc, Cancel(p) PROVE OneLoginInv'
  <2>1. TakesNone(Idle, op[p])
    BY IdleTakesNone
  <2> QED
    BY <1>12, <2>1, CallTakesNone DEF Cancel
<1>13. ASSUME NEW p \in Proc, NEW u \in User, StartUnbind(p, u) PROVE OneLoginInv'
  <2> DEFINE next == [Idle EXCEPT !.pc = "delete", !.user = u, !.copy = KeyOf(row[u])]
  <2>1. next.pc = "delete" /\ next.todo = {}
    BY DEF Idle
  <2>2. Become(p, next) /\ UNCHANGED <<row, raced>>
    BY <1>13 DEF StartUnbind
  <2> HIDE DEF next
  <2>3. TakesNone(next, op[p])
    BY <2>1 DEF TakesNone
  <2> QED
    BY <2>2, <2>3, CallTakesNone
<1>14. ASSUME NEW p \in Proc, UnbindDelete(p) PROVE OneLoginInv'
  <2>1. op[p].user \in User /\ Become(p, Idle)
    BY <1>14, <1>b DEF UnbindDelete, Ready
  <2>2. CASE UNCHANGED <<row, raced>>
    <3>1. TakesNone(Idle, op[p])
      BY IdleTakesNone
    <3> QED
      BY <2>1, <2>2, <3>1, CallTakesNone
  <2>3. CASE /\ row' = [row EXCEPT ![op[p].user] = None]
             /\ raced' = [raced EXCEPT ![op[p].user] = FALSE]
    <3>1. ASSUME NEW v \in User PROVE OneLogin(v)'
      <4>1. CASE v = op[p].user \/ row[v] = None
        BY <1>a, <2>1, <2>3, <4>1 DEF OneLogin
      <4>2. CASE v # op[p].user /\ row[v] # None
        <5>1. row'[v] = row[v] /\ raced'[v] = raced[v]
          BY <1>a, <2>1, <2>3, <4>2
        <5> QED
          BY <1>c, <2>1, <4>2, <5>1, IdleFits, CallKeeps DEF RowKept
      <4> QED
        BY <4>1, <4>2
    <3> QED
      BY <3>1 DEF OneLoginInv
  <2> QED
    BY <1>14, <2>2, <2>3 DEF UnbindDelete
<1>f. ASSUME NEW u \in User, row[u] # None, UNCHANGED <<op, raced>>,
             \/ \E x : row' = [row EXCEPT ![u].status = x]
             \/ \E x : row' = [row EXCEPT ![u].notified = x]
      PROVE  OneLoginInv'
  <2>1. ASSUME NEW v \in User
        PROVE  /\ row[v] = None => row'[v] = None
               /\ row[v] # None => row'[v].login = row[v].login /\ row'[v].uid = row[v].uid
    BY <1>a, <1>f DEF Row
  <2> QED
    BY <1>f, <2>1 DEF OneLoginInv, OneLogin, Fits
<1>15. ASSUME NEW u \in User, MarkInvalid(u) PROVE OneLoginInv'
  BY <1>15, <1>f DEF MarkInvalid
<1>16. ASSUME NEW u \in User, CooldownEnds(u) PROVE OneLoginInv'
  BY <1>16, <1>f DEF CooldownEnds
<1>17. ASSUME NEW g \in Login, LoginEnds(g) PROVE OneLoginInv'
  BY <1>17, <1>d DEF LoginEnds
<1> QED
  BY <1>1, <1>2, <1>3, <1>4, <1>5, <1>6, <1>7, <1>8, <1>9, <1>10, <1>11, <1>12, <1>13, <1>14,
     <1>15, <1>16, <1>17 DEF Next, Step

\* The tokens and the user id of a row are of one login, unless the account was
\* bound anew while a sync of it was under way: a sync presents and stores the
\* login it read, and every copy taken since the binding is of the login bound.
THEOREM RowKeepsItsLogin == Spec => []RowOfOneLogin
<1>1. Spec => []TypeInv
  BY TypeInit, TypeStep, PTL DEF Spec
<1>2. Spec => []OneLoginInv
  BY <1>1, OneLoginInit, OneLoginStep, PTL DEF Spec
<1> QED
  BY <1>2, OneLoginImplies, PTL

=============================================================================
