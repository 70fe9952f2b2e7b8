--------------------------- MODULE AccountsProofs ---------------------------
(***************************************************************************)
(* Proofs about Accounts, for any number of accounts, browsers, threads    *)
(* and instances, any lifetime of a session and any length of a request.   *)
(***************************************************************************)
EXTENDS Accounts, TLAPS

USE AccountsAssumption, NoneAssumption

Fits(step, q) ==
  /\ step \in Steps
  /\ q \in Request \cup {None}
  /\ step = "idle" <=> q = None
  /\ step \in UsesId => q.id # None
  /\ step \in UsesSession => q.session # None

-----------------------------------------------------------------------------
(* Typing. *)

LEMMA Numbers == Lifetime \in Nat /\ Slow \in Nat /\ Horizon \in Nat
  OBVIOUS

(* A row is written. *)
LEMMA RowTypes ==
  ASSUME AccountsOK, NEW id \in Ids, NEW a \in Account \cup {None},
         accounts' = [accounts EXCEPT ![id] = a], UNCHANGED <<now, issued, gone, entered>>
  PROVE  AccountsOK'
  BY DEF AccountsOK

LEMMA TypeInit == Init => TypeOK
  BY DEF Init, TypeOK, AccountsOK, RequestsOK, StartOK, Steps, Startup, Account,
         UsesId, UsesSession

(* A thread takes a step with a request that fits it. *)
LEMMA ThreadSteps ==
  ASSUME RequestsOK, NEW r \in Threads, NEW step, NEW q, Fits(step, q),
         pc' = [pc EXCEPT ![r] = step], req' = [req EXCEPT ![r] = q],
         cookie' \in [Browsers -> Session \cup {None}]
  PROVE  RequestsOK'
  BY DEF RequestsOK, Fits

(* A request arrives, and nothing else changes. *)
LEMMA Arrival ==
  ASSUME TypeOK, NEW r \in Threads, NEW b \in Browsers, NEW s \in Session \cup {None},
         NEW step \in {"login", "add", "password", "find", "reply"},
         step \in UsesSession => s # None, Arrive(r, b, s, step)
  PROVE  RequestsOK' /\ UNCHANGED <<now, db, server, row, missed>>
<1> DEFINE q == [isAdmin |-> FALSE, browser |-> b, session |-> s, id |-> None, begun |-> now]
<1>1. q \in Request /\ q.session = s
  BY DEF Request, TypeOK, AccountsOK
<1>2. Fits(step, q)
  BY <1>1 DEF Fits, Steps, UsesId, UsesSession
<1>3. req' = [req EXCEPT ![r] = q] /\ pc' = [pc EXCEPT ![r] = step] /\ cookie' = cookie
  BY DEF Arrive, Goto
<1> QED
  BY <1>2, <1>3, ThreadSteps DEF TypeOK, RequestsOK, Arrive

LEMMA InsertTypes ==
  ASSUME AccountsOK, NEW name \in Names, NEW admin \in BOOLEAN, Insert(name, admin), now' = now
  PROVE  AccountsOK' /\ missed' = missed
  BY DEF AccountsOK, Insert, Account

LEMMA RepairTypes ==
  ASSUME TypeOK, NEW p \in Servers, row[p] # None, Repair(p), now' = now
  PROVE  AccountsOK' /\ missed' \subseteq Threads \cup Servers
<1>1. missed' \subseteq Threads \cup Servers
  BY DEF TypeOK, StartOK, Repair, Readers
<1>2. CASE Present(row[p]) /\ row[p] # None
  <2> DEFINE a == [[accounts[row[p]] EXCEPT !.isAdmin = TRUE] EXCEPT !.usable = TRUE]
  <2>1. row[p] \in Ids /\ accounts[row[p]] \in Account
    BY <1>2 DEF TypeOK, StartOK, AccountsOK, Present
  <2>2. a \in Account
    BY <2>1 DEF Account
  <2>3. accounts' = [accounts EXCEPT ![row[p]] = a]
    BY <1>2, <2>1 DEF Repair, TypeOK, AccountsOK
  <2> QED
    BY <1>1, <2>1, <2>2, <2>3, RowTypes DEF Repair, TypeOK
<1>3. CASE ~Present(row[p])
  BY <1>1, <1>3 DEF Repair, TypeOK, AccountsOK
<1> QED
  BY <1>1, <1>2, <1>3

(* What a request does to the accounts. *)
LEMMA ServeTypes ==
  ASSUME TypeOK, NEW r \in Threads, Serve(r)
  PROVE  AccountsOK' /\ StartOK'
<1> SUFFICES AccountsOK' /\ missed' \subseteq Threads \cup Servers /\ UNCHANGED <<server, row>>
  BY DEF TypeOK, StartOK
<1> USE DEF TypeOK
<1>1. ASSUME NEW b \in Browsers, StartLogin(r, b) \/ Logout(r, b) \/ Visit(r, b)
      PROVE  UNCHANGED <<now, db, server, row, missed>>
  BY <1>1 DEF StartLogin, Logout, Visit, Arrive
<1>2. CASE Identify(r) \/ CountAdmins(r)
  BY <1>2 DEF Identify, CountAdmins, Counted, Done, AccountsOK, StartOK, db
<1>3. CASE Promote(r)
  <2>1. req[r].id \in Ids
    BY <1>3 DEF Promote, RequestsOK, UsesId, Request
  <2>2. CASE Present(req[r].id)
    <3> DEFINE a == [accounts[req[r].id] EXCEPT !.isAdmin = TRUE]
    <3>0. accounts[req[r].id] \in Account
      BY <2>1, <2>2 DEF AccountsOK, Present
    <3>1. a \in Account
      BY <3>0 DEF Account
    <3>2. accounts' = [accounts EXCEPT ![req[r].id] = a]
      BY <1>3, <2>2 DEF Promote
    <3> QED
      BY <1>3, <2>1, <3>1, <3>2, RowTypes DEF Promote, StartOK, Readers
  <2>3. CASE ~Present(req[r].id)
    BY <1>3, <2>3 DEF Promote, AccountsOK, StartOK, Readers
  <2> QED
    BY <2>2, <2>3
<1>4. CASE Enter(r)
  BY <1>4 DEF Enter, AccountsOK, StartOK
<1>5. CASE AddUser(r)
  <2>1. UNCHANGED <<now, server, row>>
    BY <1>5 DEF AddUser, Done
  <2>2. ASSUME NEW name \in Names, NEW admin \in BOOLEAN, Insert(name, admin)
        PROVE  AccountsOK' /\ missed' = missed
    BY <2>1, <2>2, InsertTypes
  <2>3. CASE UNCHANGED <<db, missed>>
    BY <2>1, <2>3 DEF AccountsOK, StartOK, db
  <2> QED
    BY <1>5, <2>1, <2>2, <2>3 DEF AddUser, StartOK
<1>6. CASE ChangePassword(r)
  <2>1. UNCHANGED <<now, issued, gone, entered, server, row, missed>>
    BY <1>6 DEF ChangePassword, Done
  <2>2. ASSUME NEW id \in Ids, Present(id),
               accounts' = [accounts EXCEPT ![id].usable = TRUE]
        PROVE  accounts' \in [Ids -> Account \cup {None}]
    <3>1. [accounts[id] EXCEPT !.usable = TRUE] \in Account
      BY <2>2 DEF Account, AccountsOK, Present
    <3> QED
      BY <2>2, <3>1 DEF AccountsOK
  <2> QED
    BY <1>6, <2>1, <2>2 DEF ChangePassword, AccountsOK, StartOK
<1>7. CASE FindTarget(r)
  BY <1>7 DEF FindTarget, AccountsOK, StartOK, db
<1>8. CASE DeleteUser(r)
  <2>1. missed' \subseteq Threads \cup Servers
    BY <1>8 DEF DeleteUser, StartOK, Readers
  <2>2. accounts' \in [Ids -> Account \cup {None}] /\ gone' \in [Ids -> 0..Horizon \cup {None}]
    BY <1>8 DEF DeleteUser, AccountsOK
  <2> QED
    BY <1>8, <2>1, <2>2 DEF DeleteUser, Done, AccountsOK
<1>9. CASE Reply(r) \/ Lost(r)
  BY <1>9 DEF Reply, Lost, AccountsOK, StartOK, db
<1> QED
  BY <1>1, <1>2, <1>3, <1>4, <1>5, <1>6, <1>7, <1>8, <1>9 DEF Serve, AccountsOK, StartOK, db

(* What a step of a request does to the requests and the cookies. *)
LEMMA ServeRequests ==
  ASSUME TypeOK, NEW r \in Threads, Serve(r)
  PROVE  RequestsOK'
<1> USE DEF TypeOK
<1>1. ASSUME NEW b \in Browsers, StartLogin(r, b) \/ Logout(r, b) \/ Visit(r, b)
      PROVE  RequestsOK'
  <2>1. cookie[b] \in Session \cup {None}
    BY DEF RequestsOK
  <2>2. CASE StartLogin(r, b) \/ Logout(r, b)
    BY <2>2, Arrival DEF StartLogin, Logout, UsesSession
  <2>3. CASE Visit(r, b)
    BY <2>1, <2>3, Arrival DEF Visit, UsesSession
  <2> QED
    BY <1>1, <2>2, <2>3
<1>2. ASSUME pc[r] # "idle" PROVE req[r] \in Request
  BY <1>2 DEF RequestsOK
<1>3. CASE Identify(r)
  <2>1. pc[r] = "login" /\ cookie' = cookie
    BY <1>3 DEF Identify
  <2>2. CASE Goto(r, "reply") /\ UNCHANGED req
    BY <1>2, <2>1, <2>2 DEF Goto, RequestsOK, Steps, UsesId, UsesSession
  <2>3. ASSUME NEW id \in Ids, Present(id), NEW step \in {"promote", "enter"},
               req' = [req EXCEPT ![r].id = id, ![r].isAdmin = accounts[id].isAdmin],
               Goto(r, step)
        PROVE  RequestsOK'
    <3> DEFINE q == [[req[r] EXCEPT !.id = id] EXCEPT !.isAdmin = accounts[id].isAdmin]
    <3>1. accounts[id].isAdmin \in BOOLEAN
      BY <2>3 DEF AccountsOK, Account, Present
    <3>2. q \in Request /\ q.id = id
      BY <1>2, <2>1, <3>1 DEF Request
    <3>3. Fits(step, q)
      BY <3>2 DEF Fits, Steps, UsesSession
    <3>4. req' = [req EXCEPT ![r] = q] /\ pc' = [pc EXCEPT ![r] = step]
      BY <2>1, <2>3, <1>2 DEF Goto, RequestsOK
    <3> QED
      BY <2>1, <3>3, <3>4, ThreadSteps DEF RequestsOK
  <2> QED
    BY <1>3, <2>2, <2>3 DEF Identify
<1>4. CASE Promote(r)
  <2> DEFINE q == [req[r] EXCEPT !.isAdmin = TRUE]
  <2>1. pc[r] = "promote" /\ cookie' = cookie
    BY <1>4 DEF Promote
  <2>2. q \in Request /\ q.id = req[r].id
    BY <1>2, <2>1 DEF Request
  <2>3. Fits("enter", q)
    BY <2>1, <2>2 DEF Fits, Steps, UsesId, UsesSession, RequestsOK
  <2>4. req' = [req EXCEPT ![r] = q] /\ pc' = [pc EXCEPT ![r] = "enter"]
    BY <1>4 DEF Promote, Goto
  <2> QED
    BY <2>1, <2>3, <2>4, ThreadSteps DEF RequestsOK
<1>5. CASE Enter(r)
  <2> DEFINE s == [isAdmin |-> req[r].isAdmin, user |-> req[r].id, started |-> now]
             q == [[req[r] EXCEPT !.session = s] EXCEPT !.id = None]
  <2>1. pc[r] = "enter" /\ cookie' = cookie
    BY <1>5 DEF Enter
  <2>2. s \in Session
    BY <1>2, <2>1 DEF Request, Session, RequestsOK, AccountsOK, UsesId
  <2>3. q \in Request
    BY <1>2, <2>1, <2>2 DEF Request
  <2>4. Fits("reply", q)
    BY <2>3 DEF Fits, Steps, UsesId, UsesSession
  <2>5. req' = [req EXCEPT ![r] = q] /\ pc' = [pc EXCEPT ![r] = "reply"]
    BY <1>5, <1>2, <2>1 DEF Enter, Goto, RequestsOK
  <2> QED
    BY <2>1, <2>4, <2>5, ThreadSteps DEF RequestsOK
<1>6. ASSUME Done(r), pc[r] # "idle" PROVE RequestsOK'
  <2> DEFINE q == [req[r] EXCEPT !.id = None]
  <2>1. q \in Request
    BY <1>2, <1>6 DEF Request
  <2>2. Fits("reply", q)
    BY <2>1 DEF Fits, Steps, UsesId, UsesSession
  <2>3. req' = [req EXCEPT ![r] = q] /\ pc' = [pc EXCEPT ![r] = "reply"] /\ cookie' = cookie
    BY <1>6 DEF Done, Goto
  <2> QED
    BY <2>2, <2>3, ThreadSteps DEF RequestsOK
<1>7. CASE AddUser(r) \/ ChangePassword(r) \/ DeleteUser(r)
  BY <1>6, <1>7 DEF AddUser, ChangePassword, DeleteUser
<1>8. CASE FindTarget(r)
  <2>1. pc[r] = "find" /\ cookie' = cookie
    BY <1>8 DEF FindTarget
  <2>2. CASE Goto(r, "reply") /\ UNCHANGED req
    BY <1>2, <2>1, <2>2 DEF Goto, RequestsOK, Steps, UsesId, UsesSession
  <2>3. ASSUME NEW id \in Ids, NEW step \in {"count", "delete"},
               req' = [req EXCEPT ![r].id = id], Goto(r, step)
        PROVE  RequestsOK'
    <3> DEFINE q == [req[r] EXCEPT !.id = id]
    <3>1. q \in Request /\ q.id = id /\ q.session = req[r].session
      BY <1>2, <2>1 DEF Request
    <3>2. Fits(step, q)
      BY <2>1, <3>1 DEF Fits, Steps, UsesSession, RequestsOK
    <3>3. req' = [req EXCEPT ![r] = q] /\ pc' = [pc EXCEPT ![r] = step]
      BY <2>3 DEF Goto
    <3> QED
      BY <2>1, <3>2, <3>3, ThreadSteps DEF RequestsOK
  <2> QED
    BY <1>8, <2>2, <2>3 DEF FindTarget
<1>9. CASE CountAdmins(r)
  <2>1. pc[r] = "count"
    BY <1>9 DEF CountAdmins, Counted
  <2>2. CASE Done(r)
    BY <1>6, <2>1, <2>2
  <2>3. CASE Goto(r, "delete") /\ UNCHANGED <<cookie, req>>
    BY <1>2, <2>1, <2>3 DEF Goto, RequestsOK, Steps, UsesId, UsesSession
  <2> QED
    BY <1>9, <2>2, <2>3 DEF CountAdmins, Counted
<1>10. CASE Reply(r) \/ Lost(r)
  <2>1. pc[r] # "idle"
    BY <1>10 DEF Reply, Lost
  <2>2. cookie' \in [Browsers -> Session \cup {None}]
    BY <1>2, <1>10, <2>1 DEF Reply, Lost, RequestsOK, Request
  <2>3. Fits("idle", None)
    BY DEF Fits, Steps, UsesId, UsesSession
  <2>4. req' = [req EXCEPT ![r] = None] /\ pc' = [pc EXCEPT ![r] = "idle"]
    BY <1>10 DEF Reply, Lost, Goto
  <2> QED
    BY <2>2, <2>3, <2>4, ThreadSteps
<1> QED
  BY <1>1, <1>3, <1>4, <1>5, <1>7, <1>8, <1>9, <1>10 DEF Serve

(* What a step of a start does. *)
LEMMA StartTypes ==
  ASSUME TypeOK, NEW p \in Servers, CreateApp(p)
  PROVE  TypeOK'
<1> USE DEF TypeOK
<1>1. UNCHANGED <<now, cookie, pc, req>>
  BY DEF CreateApp, Start, InitFails, StartFails, ReadAdmin, InsertAdmin, UpdateAdmin,
         ReadBoot, InsertBoot, UpdateBoot, Step
<1>2. RequestsOK'
  BY <1>1 DEF RequestsOK
<1>3. ASSUME NEW from, NEW to \in Startup, NEW id \in Ids \cup {None}, Step(p, from, to, id),
             to \in {"update", "boot update"} <=> id # None,
             missed' \subseteq Threads \cup Servers
      PROVE  StartOK'
  BY <1>3 DEF Step, StartOK
<1>4. CASE Start(p)
  BY <1>1, <1>2, <1>3, <1>4 DEF Start, Startup, AccountsOK, StartOK, db
<1>5. CASE InitFails(p)
  BY <1>1, <1>2, <1>3, <1>5 DEF InitFails, Startup, AccountsOK, StartOK, db
<1>6. CASE StartFails(p)
  BY <1>1, <1>2, <1>3, <1>6 DEF StartFails, Startup, AccountsOK, StartOK, db
<1>7. CASE ReadAdmin(p)
  BY <1>1, <1>2, <1>3, <1>7 DEF ReadAdmin, Named, Startup, AccountsOK, StartOK, db
<1>8. CASE InsertAdmin(p)
  BY <1>1, <1>2, <1>3, <1>8, InsertTypes DEF InsertAdmin, Startup, StartOK
<1>9. CASE UpdateAdmin(p)
  <2>1. row[p] # None
    BY <1>9 DEF UpdateAdmin, Step, StartOK
  <2> QED
    BY <1>1, <1>2, <1>3, <1>9, <2>1, RepairTypes DEF UpdateAdmin, Startup, StartOK
<1>10. CASE ReadBoot(p)
  BY <1>1, <1>2, <1>3, <1>10 DEF ReadBoot, Named, Startup, AccountsOK, StartOK, db
<1>11. CASE InsertBoot(p)
  BY <1>1, <1>2, <1>3, <1>11, InsertTypes DEF InsertBoot, Startup, StartOK
<1>12. CASE UpdateBoot(p)
  <2>1. row[p] # None
    BY <1>12 DEF UpdateBoot, Step, StartOK
  <2> QED
    BY <1>1, <1>2, <1>3, <1>12, <2>1, RepairTypes DEF UpdateBoot, Startup, StartOK
<1> QED
  BY <1>4, <1>5, <1>6, <1>7, <1>8, <1>9, <1>10, <1>11, <1>12 DEF CreateApp

LEMMA TypeNext == TypeOK /\ [Next]_vars => TypeOK'
<1> SUFFICES ASSUME TypeOK, [Next]_vars PROVE TypeOK'
  OBVIOUS
<1>1. ASSUME NEW r \in Threads, Serve(r) PROVE TypeOK'
  BY <1>1, ServeTypes, ServeRequests DEF TypeOK
<1>2. ASSUME NEW p \in Servers, CreateApp(p) PROVE TypeOK'
  BY <1>2, StartTypes
<1>3. CASE Tick
  <2>1. now' \in 0..Horizon
    BY <1>3, Numbers DEF Tick, TypeOK, AccountsOK
  <2> QED
    BY <1>3, <2>1 DEF Tick, TypeOK, AccountsOK, RequestsOK, StartOK, db
<1>4. CASE UNCHANGED vars
  BY <1>4 DEF vars, TypeOK, AccountsOK, RequestsOK, StartOK, db
<1> QED
  BY <1>1, <1>2, <1>3, <1>4 DEF Next

(* Every reachable state is well typed, for any instance: TypeOK.          *)
THEOREM TypeCorrect == Spec => []TypeOK
  BY TypeInit, TypeNext, PTL DEF Spec

-----------------------------------------------------------------------------
(* The inductive invariant.  An id stays with its account; what a session  *)
(* or a request knows of an account was true when the request began; a     *)
(* request about to delete, and a start after init_db, have seen accounts  *)
(* that are still there, or are among the missed.                          *)

Issued ==
  /\ \A id \in Ids : Present(id) => id \in issued
  /\ \A id \in Ids : entered[id] # None => entered[id] <= now
  /\ \A p \in Servers : row[p] # None => row[p] \in issued

Good(s) ==
  /\ s.user \in issued
  /\ s.started <= now
  /\ entered[s.user] # None /\ s.started <= entered[s.user]
  /\ Backed(s)

SessionsGood ==
  /\ \A b \in Browsers : cookie[b] # None => Good(cookie[b])
  /\ \A r \in Threads : req[r] # None /\ req[r].session # None => Good(req[r].session)

GoneSince(id, time) == gone[id] # None /\ gone[id] >= time

Timely(r) ==
  /\ req[r].begun <= now /\ now <= req[r].begun + Slow
  /\ req[r].id # None => req[r].id \in issued
  /\ pc[r] \in UsesSession => req[r].begun <= req[r].session.started + Lifetime
  /\ pc[r] = "promote" => Present(req[r].id) \/ GoneSince(req[r].id, req[r].begun)
  /\ pc[r] = "enter" /\ req[r].isAdmin =>
       \/ Present(req[r].id) /\ accounts[req[r].id].isAdmin
       \/ ~Present(req[r].id) /\ GoneSince(req[r].id, req[r].begun)

Counts(r) ==
  pc[r] = "delete" /\ r \notin missed =>
    req[r].id \notin Admins \/ \E id \in Admins : id # req[r].id

Starts(p) ==
  p \notin missed =>
    /\ server[p] \in {"boot", "boot insert", "boot update"} => Usable(Admin)
    /\ server[p] = "update" => row[p] \in Named(Admin)

IInv ==
  /\ TypeOK /\ Issued /\ SessionsGood
  /\ \A r \in Threads : (pc[r] # "idle" => Timely(r)) /\ Counts(r)
  /\ \A p \in Servers : Starts(p)

(* What any step leaves of the accounts that were there, and what one       *)
(* leaves that nobody misses.                                              *)
Changes ==
  /\ issued \subseteq issued'
  /\ \A id \in issued :
       /\ Present(id)' =>
            /\ Present(id) /\ accounts'[id].name = accounts[id].name
            /\ accounts[id].isAdmin => accounts'[id].isAdmin
            /\ accounts[id].usable => accounts'[id].usable
       /\ gone'[id] = gone[id] \/ gone'[id] = now
       /\ Present(id) /\ ~Present(id)' => gone'[id] = now
  /\ \A id \in Ids : entered'[id] = entered[id] \/ entered'[id] = now

Undisturbed ==
  \A id \in issued :
    /\ Present(id)' <=> Present(id)
    /\ Present(id) => (accounts'[id].isAdmin <=> accounts[id].isAdmin)

Watches(x) == x \in Readers /\ x \notin missed' => x \notin missed /\ Undisturbed

ByStep(x) ==
  /\ Changes /\ now' = now
  /\ \A id \in Ids : Present(id)' => id \in issued'
  /\ \A y \in Threads \cup Servers : y # x => Watches(y)

-----------------------------------------------------------------------------
(* What the operations do to the accounts. *)

LEMMA SameAccounts ==
  ASSUME TypeOK, Issued, NEW x, UNCHANGED <<now, db>>,
         \A y \in Threads \cup Servers : y # x => (y \in missed => y \in missed')
  PROVE  ByStep(x)
  BY DEF ByStep, Changes, Watches, Undisturbed, Issued, db, Present

LEMMA InsertChanges ==
  ASSUME TypeOK, Issued, NEW x, NEW name \in Names, NEW admin \in BOOLEAN,
         Insert(name, admin), now' = now
  PROVE  ByStep(x)
<1>1. PICK id \in Ids \ issued :
        /\ accounts' = [accounts EXCEPT ![id] =
                          [name |-> name, isAdmin |-> admin, usable |-> TRUE]]
        /\ issued' = issued \cup {id}
  BY DEF Insert
<1>2. \A i \in Ids : i # id => accounts'[i] = accounts[i]
  BY <1>1 DEF TypeOK, AccountsOK
<1>3. \A i \in issued : i \in Ids /\ i # id
  BY DEF TypeOK, AccountsOK
<1>4. UNCHANGED <<gone, entered, missed>>
  BY DEF Insert
<1> QED
  BY <1>1, <1>2, <1>3, <1>4 DEF ByStep, Changes, Watches, Undisturbed, Issued, Present

(* One row is written, and every other reader has missed it. *)
LEMMA RowChanges ==
  ASSUME TypeOK, Issued, NEW x, NEW id \in Ids, NEW a \in Account,
         Present(id), accounts' = [accounts EXCEPT ![id] = a],
         a.name = accounts[id].name,
         accounts[id].isAdmin => a.isAdmin, accounts[id].usable => a.usable,
         UNCHANGED <<now, issued, gone, entered>>,
         \/ a.isAdmin = accounts[id].isAdmin /\ UNCHANGED missed
         \/ \A y \in Threads \cup Servers : y # x /\ y \in Readers => y \in missed'
  PROVE  ByStep(x)
<1>1. accounts'[id] = a /\ \A i \in Ids : i # id => accounts'[i] = accounts[i]
  BY DEF TypeOK, AccountsOK
<1>2. a # None /\ issued \subseteq Ids
  BY DEF TypeOK, AccountsOK
<1>3. Changes /\ \A i \in Ids : Present(i)' => i \in issued'
  BY <1>1, <1>2 DEF Changes, Issued, Present
<1>4. CASE a.isAdmin = accounts[id].isAdmin /\ UNCHANGED missed
  BY <1>1, <1>2, <1>3, <1>4 DEF ByStep, Watches, Undisturbed, Present
<1>5. CASE \A y \in Threads \cup Servers : y # x /\ y \in Readers => y \in missed'
  BY <1>3, <1>5 DEF ByStep, Watches
<1> QED
  BY <1>4, <1>5

LEMMA RepairChanges ==
  ASSUME TypeOK, Issued, NEW p \in Servers, row[p] # None, Repair(p), now' = now
  PROVE  ByStep(p)
<1>1. CASE Present(row[p])
  <2> DEFINE a == [[accounts[row[p]] EXCEPT !.isAdmin = TRUE] EXCEPT !.usable = TRUE]
  <2>1. row[p] \in Ids /\ accounts[row[p]] \in Account
    BY <1>1 DEF TypeOK, StartOK, AccountsOK, Present
  <2>2. a \in Account /\ a.name = accounts[row[p]].name /\ a.isAdmin /\ a.usable
    BY <2>1 DEF Account
  <2>3. accounts' = [accounts EXCEPT ![row[p]] = a]
    BY <1>1, <2>1 DEF Repair, TypeOK, AccountsOK
  <2>4. \A y \in Threads \cup Servers : y # p /\ y \in Readers => y \in missed'
    BY DEF Repair
  <2>5. UNCHANGED <<now, issued, gone, entered>>
    BY DEF Repair
  <2> HIDE DEF a
  <2> QED
    BY <1>1, <2>1, <2>2, <2>3, <2>4, <2>5, RowChanges
<1>2. CASE ~Present(row[p])
  BY <1>2, SameAccounts DEF Repair, db
<1> QED
  BY <1>1, <1>2

LEMMA ServeChanges ==
  ASSUME TypeOK, Issued, NEW r \in Threads, Serve(r)
  PROVE  ByStep(r)
<1>1. ASSUME NEW b \in Browsers, StartLogin(r, b) \/ Logout(r, b) \/ Visit(r, b)
      PROVE  ByStep(r)
  <2>1. UNCHANGED <<now, db, missed>>
    BY <1>1 DEF StartLogin, Logout, Visit, Arrive
  <2> QED
    BY <2>1, SameAccounts
<1>2. CASE Identify(r) \/ CountAdmins(r)
  BY <1>2, SameAccounts DEF Identify, CountAdmins, Counted, Done
<1>3. CASE Promote(r)
  <2>1. req[r].id \in Ids
    BY <1>3 DEF Promote, TypeOK, RequestsOK, UsesId, Request
  <2>2. CASE Present(req[r].id)
    <3> DEFINE a == [accounts[req[r].id] EXCEPT !.isAdmin = TRUE]
    <3>1. accounts[req[r].id] \in Account
      BY <2>1, <2>2 DEF TypeOK, AccountsOK, Present
    <3>2. a \in Account /\ a.name = accounts[req[r].id].name
                       /\ a.isAdmin /\ a.usable = accounts[req[r].id].usable
      BY <3>1 DEF Account
    <3>3. accounts' = [accounts EXCEPT ![req[r].id] = a] /\ UNCHANGED <<now, issued, gone, entered>>
      BY <1>3, <2>2 DEF Promote
    <3>4. \A y \in Readers : y \in missed'
      BY <1>3 DEF Promote
    <3> HIDE DEF a
    <3> QED
      BY <2>1, <2>2, <3>2, <3>3, <3>4, RowChanges
  <2>3. CASE ~Present(req[r].id)
    BY <1>3, <2>3, SameAccounts DEF Promote, db
  <2> QED
    BY <2>2, <2>3
<1>4. CASE Enter(r)
  BY <1>4 DEF Enter, ByStep, Changes, Watches, Undisturbed, Issued, Present, TypeOK, AccountsOK
<1>5. CASE AddUser(r)
  <2>1. now' = now
    BY <1>5 DEF AddUser, Done
  <2>2. ASSUME NEW name \in Names, NEW admin \in BOOLEAN, Insert(name, admin)
        PROVE  ByStep(r)
    BY <2>1, <2>2, InsertChanges
  <2>3. CASE UNCHANGED <<db, missed>>
    BY <2>1, <2>3, SameAccounts
  <2> QED
    BY <1>5, <2>2, <2>3 DEF AddUser
<1>6. CASE ChangePassword(r)
  <2>1. UNCHANGED <<now, issued, gone, entered, missed>>
    BY <1>6 DEF ChangePassword, Done
  <2>2. ASSUME NEW id \in Ids, Present(id),
               accounts' = [accounts EXCEPT ![id].usable = TRUE]
        PROVE  ByStep(r)
    <3> DEFINE a == [accounts[id] EXCEPT !.usable = TRUE]
    <3>1. accounts[id] \in Account
      BY <2>2 DEF TypeOK, AccountsOK, Present
    <3>2. a \in Account /\ a.name = accounts[id].name
                       /\ a.isAdmin = accounts[id].isAdmin /\ a.usable
      BY <3>1 DEF Account
    <3>3. accounts' = [accounts EXCEPT ![id] = a]
      BY <2>2
    <3> HIDE DEF a
    <3> QED
      BY <2>1, <2>2, <3>2, <3>3, RowChanges
  <2> QED
    BY <1>6, <2>1, <2>2, SameAccounts DEF ChangePassword, db
<1>7. CASE FindTarget(r)
  BY <1>7, SameAccounts DEF FindTarget
<1>8. CASE DeleteUser(r)
  <2>1. req[r].id \in Ids /\ UNCHANGED <<now, issued, entered>>
    BY <1>8 DEF DeleteUser, Done, TypeOK, RequestsOK, UsesId, Request
  <2>2. CASE Present(req[r].id)
    <3>1. accounts' = [accounts EXCEPT ![req[r].id] = None] /\ gone' = [gone EXCEPT ![req[r].id] = now]
      BY <1>8, <2>2 DEF DeleteUser
    <3>2. \A y \in Readers : y # r => y \in missed'
      BY <1>8, <2>2 DEF DeleteUser
    <3>3. Changes /\ \A id \in Ids : Present(id)' => id \in issued'
      BY <2>1, <3>1 DEF Changes, Issued, Present, TypeOK, AccountsOK
    <3> QED
      BY <2>1, <3>2, <3>3 DEF ByStep, Watches
  <2>3. CASE ~Present(req[r].id)
    BY <1>8, <2>1, <2>3, SameAccounts DEF DeleteUser, db
  <2> QED
    BY <2>2, <2>3
<1>9. CASE Reply(r) \/ Lost(r)
  BY <1>9, SameAccounts DEF Reply, Lost
<1> QED
  BY <1>1, <1>2, <1>3, <1>4, <1>5, <1>6, <1>7, <1>8, <1>9 DEF Serve

LEMMA CreateChanges ==
  ASSUME TypeOK, Issued, NEW p \in Servers, CreateApp(p)
  PROVE  ByStep(p)
<1>1. now' = now
  BY DEF CreateApp, Start, InitFails, StartFails, ReadAdmin, InsertAdmin, UpdateAdmin,
         ReadBoot, InsertBoot, UpdateBoot, Step
<1>2. CASE Start(p) \/ InitFails(p) \/ StartFails(p) \/ ReadAdmin(p) \/ ReadBoot(p)
  BY <1>1, <1>2, SameAccounts DEF Start, InitFails, StartFails, ReadAdmin, ReadBoot
<1>3. CASE InsertAdmin(p) \/ InsertBoot(p)
  BY <1>1, <1>3, InsertChanges DEF InsertAdmin, InsertBoot
<1>4. CASE UpdateAdmin(p) \/ UpdateBoot(p)
  <2>1. row[p] # None
    BY <1>4 DEF UpdateAdmin, UpdateBoot, Step, TypeOK, StartOK
  <2> QED
    BY <1>1, <1>4, <2>1, RepairChanges DEF UpdateAdmin, UpdateBoot
<1> QED
  BY <1>2, <1>3, <1>4 DEF CreateApp

-----------------------------------------------------------------------------
(* What stays true of those who do not take the step. *)

LEMMA GoodStays ==
  ASSUME TypeOK, TypeOK', Issued, Changes, now <= now'
  PROVE  \A s \in Session : Good(s) => Good(s)'
<1> SUFFICES ASSUME NEW s \in Session, Good(s) PROVE Good(s)'
  OBVIOUS
<1> DEFINE u == s.user
<1>1. u \in Ids /\ u \in issued /\ u \in issued' /\ s.started \in Int /\ now \in Int /\ now' \in Int
  BY Numbers DEF Good, Session, Changes, TypeOK, AccountsOK
<1>2. s.started <= now'
  BY <1>1, Numbers DEF Good, TypeOK, AccountsOK
<1>3. entered'[u] # None /\ s.started <= entered'[u]
  BY <1>1 DEF Good, Changes
<1>4. (s.isAdmin => IF Present(u) THEN accounts[u].isAdmin
                      ELSE gone[u] # None /\ gone[u] >= s.started - Slow)'
  <2>1. CASE s.isAdmin /\ Present(u)'
    BY <1>1, <2>1 DEF Good, Backed, Changes
  <2>2. CASE s.isAdmin /\ ~Present(u)' /\ gone'[u] = now
    <3>1. now >= s.started - Slow
      BY <1>1, Numbers DEF Good
    <3> QED
      BY <1>1, <2>2, <3>1
  <2>3. CASE s.isAdmin /\ ~Present(u)' /\ gone'[u] # now
    <3>1. ~Present(u) /\ gone'[u] = gone[u]
      BY <1>1, <2>3 DEF Changes
    <3> QED
      BY <1>1, <2>3, <3>1 DEF Good, Backed
  <2> QED
    BY <2>1, <2>2, <2>3
<1> QED
  BY <1>1, <1>2, <1>3, <1>4 DEF Good, Backed

LEMMA SessionsStay ==
  ASSUME IInv, TypeOK', Changes, now <= now',
         \A b \in Browsers : cookie'[b] # None =>
           \/ \E c \in Browsers : cookie'[b] = cookie[c]
           \/ \E t \in Threads : req[t] # None /\ cookie'[b] = req[t].session,
         \A r \in Threads : req'[r] # None /\ req'[r].session # None =>
           \/ Good(req[r].session)'
           \/ \E c \in Browsers : req'[r].session = cookie[c]
           \/ \E t \in Threads : req[t] # None /\ req'[r].session = req[t].session
  PROVE  SessionsGood'
<1>1. \A s \in Session : Good(s) => Good(s)'
  BY GoodStays DEF IInv
<1>2. ASSUME NEW b \in Browsers, cookie'[b] # None PROVE Good(cookie[b])'
  <2>1. PICK s \in Session : s = cookie'[b]
    BY <1>2 DEF TypeOK, RequestsOK
  <2>2. Good(s)
    BY <1>2, <2>1 DEF IInv, SessionsGood
  <2>3. Good(s)'
    BY <1>1, <2>2
  <2> QED
    BY <2>1, <2>3 DEF Good, Backed
<1>3. ASSUME NEW r \in Threads, req'[r] # None, req'[r].session # None
      PROVE  Good(req[r].session)'
  <2>1. PICK s \in Session : s = req'[r].session
    BY <1>3 DEF TypeOK, RequestsOK, Request
  <2>2. CASE Good(req[r].session)'
    BY <2>2
  <2>3. CASE ~Good(req[r].session)'
    <3>1. Good(s)
      BY <1>3, <2>1, <2>3 DEF IInv, SessionsGood
    <3>2. Good(s)'
      BY <1>1, <3>1
    <3> QED
      BY <2>1, <3>2 DEF Good, Backed
  <2> QED
    BY <2>2, <2>3
<1> QED
  BY <1>2, <1>3 DEF SessionsGood

LEMMA ThreadStays ==
  ASSUME IInv, Changes, now' = now, NEW t \in Threads, Watches(t),
         pc'[t] = pc[t], req'[t] = req[t]
  PROVE  (pc[t] # "idle" => Timely(t))' /\ Counts(t)'
<1> DEFINE u == req[t].id
<1>1. now \in Int /\ issued \subseteq Ids
  BY Numbers DEF IInv, TypeOK, AccountsOK
<1>2. ASSUME pc[t] # "idle" PROVE Timely(t)'
  <2>1. Timely(t) /\ req[t] \in Request /\ req[t].begun \in Int
    BY <1>2, Numbers DEF IInv, TypeOK, RequestsOK, Request
  <2>2. ASSUME u \in issued, GoneSince(u, req[t].begun) PROVE GoneSince(u, req[t].begun)'
    BY <1>1, <2>1, <2>2 DEF GoneSince, Changes, Timely
  <2>3. ASSUME u \in issued, Present(u), ~Present(u)' PROVE GoneSince(u, req[t].begun)'
    BY <1>1, <2>1, <2>3 DEF GoneSince, Changes, Timely
  <2>4. ASSUME u \in issued PROVE Present(u)' => Present(u) /\ (accounts[u].isAdmin => accounts'[u].isAdmin)
    BY <2>4 DEF Changes
  <2>5. pc[t] \in {"promote", "enter"} => u \in issued
    BY <2>1 DEF Timely, IInv, TypeOK, RequestsOK, UsesId
  <2>6. req'[t].id # None => req'[t].id \in issued'
    BY <2>1 DEF Timely, Changes
  <2>7. pc'[t] = "promote" => Present(u)' \/ GoneSince(u, req[t].begun)'
    BY <2>1, <2>2, <2>3, <2>4, <2>5 DEF Timely
  <2>8. pc'[t] = "enter" /\ req[t].isAdmin =>
          \/ Present(u)' /\ accounts'[u].isAdmin
          \/ ~Present(u)' /\ GoneSince(u, req[t].begun)'
    BY <2>1, <2>2, <2>3, <2>4, <2>5 DEF Timely
  <2>9. /\ req'[t].begun <= now' /\ now' <= req'[t].begun + Slow
        /\ pc'[t] \in UsesSession => req'[t].begun <= req'[t].session.started + Lifetime
    BY <2>1 DEF Timely
  <2> QED
    BY <2>6, <2>7, <2>8, <2>9 DEF Timely, GoneSince
<1>3. ASSUME pc[t] = "delete", t \notin missed'
      PROVE  u \notin Admins' \/ \E id \in Admins' : id # u
  <2>1. t \notin missed /\ Undisturbed
    BY <1>3 DEF Watches, Readers
  <2>2. u \in issued
    BY <1>3 DEF IInv, Timely, TypeOK, RequestsOK, UsesId
  <2>3. \A id \in issued : id \in Admins <=> id \in Admins'
    BY <1>1, <2>1 DEF Undisturbed, Admins, Changes
  <2>4. u \notin Admins \/ \E id \in Admins : id # u
    BY <1>3, <2>1 DEF IInv, Counts
  <2>5. \A id \in Admins : id \in issued
    BY DEF Admins, IInv, Issued
  <2> QED
    BY <2>2, <2>3, <2>4, <2>5
<1> QED
  BY <1>2, <1>3 DEF Counts

LEMMA UsableStays ==
  ASSUME TypeOK, Issued, Changes, Undisturbed, Usable(Admin)
  PROVE  Usable(Admin)'
<1>1. PICK id \in Ids : Present(id) /\ accounts[id].name = Admin /\ accounts[id].usable
  BY DEF Usable, Named
<1>2. id \in issued
  BY <1>1 DEF Issued
<1>3. Present(id)' /\ accounts'[id].name = Admin /\ accounts'[id].usable
  BY <1>1, <1>2 DEF Undisturbed, Changes
<1> QED
  BY <1>3 DEF Usable, Named

LEMMA StartStays ==
  ASSUME IInv, Changes, NEW p \in Servers, Watches(p),
         server'[p] = server[p], row'[p] = row[p]
  PROVE  Starts(p)'
<1>1. ASSUME server[p] \in {"boot", "boot insert", "boot update"}, p \notin missed'
      PROVE  Usable(Admin)'
  <2>1. p \notin missed /\ Undisturbed
    BY <1>1 DEF Watches, Readers
  <2> QED
    BY <1>1, <2>1, UsableStays DEF IInv, Starts
<1>2. ASSUME server[p] = "update", p \notin missed'
      PROVE  row'[p] \in Named(Admin)'
  <2>1. p \notin missed /\ Undisturbed
    BY <1>2 DEF Watches, Readers
  <2>2. row[p] \in Named(Admin) /\ row[p] \in issued
    BY <1>2, <2>1 DEF IInv, Starts, Issued, TypeOK, StartOK
  <2> QED
    BY <2>1, <2>2 DEF Undisturbed, Changes, Named
<1> QED
  BY <1>1, <1>2 DEF Starts

-----------------------------------------------------------------------------
(* The invariant holds and is kept. *)

LEMMA InvInit == Init => IInv
<1> SUFFICES ASSUME Init PROVE IInv
  OBVIOUS
<1>1. TypeOK
  BY TypeInit
<1>2. Issued
  BY DEF Init, Issued, Present
<1>3. SessionsGood
  BY DEF Init, SessionsGood
<1> QED
  BY <1>1, <1>2, <1>3 DEF Init, IInv, Counts, Starts

(* The step of a request leaves the other requests and the starts alone. *)
LEMMA ServeOthers ==
  ASSUME TypeOK, NEW r \in Threads, Serve(r)
  PROVE  /\ UNCHANGED <<server, row>>
         /\ \A t \in Threads : t # r => pc'[t] = pc[t] /\ req'[t] = req[t]
<1> USE DEF TypeOK, RequestsOK, Goto
<1>1. CASE \E b \in Browsers : StartLogin(r, b) \/ Logout(r, b) \/ Visit(r, b)
  BY <1>1 DEF StartLogin, Logout, Visit, Arrive
<1>2. CASE Identify(r)
  BY <1>2 DEF Identify
<1>3. CASE Promote(r) \/ Enter(r)
  BY <1>3 DEF Promote, Enter
<1>4. CASE AddUser(r) \/ ChangePassword(r) \/ DeleteUser(r)
  BY <1>4 DEF AddUser, ChangePassword, DeleteUser, Done
<1>5. CASE FindTarget(r)
  BY <1>5 DEF FindTarget
<1>6. CASE CountAdmins(r)
  BY <1>6 DEF CountAdmins, Counted, Done
<1>7. CASE Reply(r) \/ Lost(r)
  BY <1>7 DEF Reply, Lost
<1> QED
  BY <1>1, <1>2, <1>3, <1>4, <1>5, <1>6, <1>7 DEF Serve

(* What the request that takes the step knows afterwards. *)
LEMMA ServeSelf ==
  ASSUME IInv, TypeOK', NEW r \in Threads, Serve(r), ByStep(r)
  PROVE  (pc[r] # "idle" => Timely(r))' /\ Counts(r)'
<1> USE DEF UsesSession
<1>1. now \in Nat /\ now' = now /\ issued \subseteq issued' /\ issued \subseteq Ids
  BY Numbers DEF IInv, TypeOK, AccountsOK, ByStep, Changes
<1>2. ASSUME pc[r] # "idle"
      PROVE  Timely(r) /\ req[r] \in Request /\ req[r].begun \in Nat
  BY <1>2, Numbers DEF IInv, TypeOK, RequestsOK, Request
<1>3. ASSUME pc'[r] \notin {"promote", "enter", "delete"}, req'[r] = req[r], pc[r] # "idle",
             pc'[r] \in UsesSession => pc[r] \in UsesSession
      PROVE  (pc[r] # "idle" => Timely(r))' /\ Counts(r)'
  BY <1>1, <1>2, <1>3 DEF Timely, Counts
<1>4. ASSUME NEW b \in Browsers, NEW s \in Session \cup {None}, NEW step \in Steps,
             Arrive(r, b, s, step), step \notin UsesId,
             step \in UsesSession => s # None /\ ~Expired(s)
      PROVE  (pc[r] # "idle" => Timely(r))' /\ Counts(r)'
  <2>1. pc'[r] = step /\ req'[r] = [isAdmin |-> FALSE, browser |-> b, session |-> s,
                                    id |-> None, begun |-> now]
    BY <1>4 DEF Arrive, Goto, IInv, TypeOK, RequestsOK
  <2>2. step \in UsesSession => now <= s.started + Lifetime
    BY <1>1, <1>4, Numbers DEF Expired, Session
  <2>3. now' <= now + Slow
    BY <1>1, Numbers
  <2> QED
    BY <1>1, <1>4, <2>1, <2>2, <2>3 DEF Timely, Counts, UsesId
<1>5. ASSUME NEW b \in Browsers, StartLogin(r, b) \/ Logout(r, b) \/ Visit(r, b)
      PROVE  (pc[r] # "idle" => Timely(r))' /\ Counts(r)'
  <2>1. cookie[b] \in Session \cup {None}
    BY DEF IInv, TypeOK, RequestsOK
  <2>2. CASE StartLogin(r, b) \/ Logout(r, b)
    BY <1>4, <2>2 DEF StartLogin, Logout, Steps, UsesId
  <2>3. CASE Visit(r, b)
    BY <1>4, <2>1, <2>3 DEF Visit, Steps, UsesId
  <2> QED
    BY <1>5, <2>2, <2>3
<1>6. CASE Identify(r)
  <2>1. pc[r] = "login" /\ UNCHANGED db
    BY <1>6 DEF Identify
  <2>2. CASE Goto(r, "reply") /\ UNCHANGED req
    BY <1>3, <2>1, <2>2 DEF Goto, IInv, TypeOK, RequestsOK
  <2>3. ASSUME NEW id \in Ids, Present(id), NEW step \in {"promote", "enter"},
               req' = [req EXCEPT ![r].id = id, ![r].isAdmin = accounts[id].isAdmin],
               Goto(r, step)
        PROVE  (pc[r] # "idle" => Timely(r))' /\ Counts(r)'
    <3>1. /\ pc'[r] = step /\ req'[r].id = id /\ req'[r].isAdmin = accounts[id].isAdmin
          /\ req'[r].begun = req[r].begun /\ req'[r].session = req[r].session
      BY <1>2, <2>1, <2>3 DEF Goto, IInv, TypeOK, RequestsOK, Request
    <3>2. id \in issued' /\ Present(id)' /\ accounts'[id] = accounts[id]
      BY <2>1, <2>3 DEF IInv, Issued, db, Present
    <3> QED
      BY <1>1, <1>2, <2>1, <3>1, <3>2 DEF Timely, Counts
  <2> QED
    BY <1>6, <2>2, <2>3 DEF Identify
<1>7. CASE Promote(r)
  <2> DEFINE u == req[r].id
  <2>1. pc[r] = "promote" /\ pc'[r] = "enter" /\ u \in Ids /\ u \in issued
    BY <1>2, <1>7 DEF Promote, Goto, IInv, TypeOK, RequestsOK, UsesId, Request, Timely
  <2>2. /\ req'[r].id = u /\ req'[r].begun = req[r].begun /\ req'[r].isAdmin
        /\ req'[r].session = req[r].session
    BY <1>2, <1>7, <2>1 DEF Promote, IInv, TypeOK, RequestsOK, Request
  <2>3. CASE Present(u)
    <3>1. accounts[u] \in Account
      BY <2>1, <2>3 DEF Present, IInv, TypeOK, AccountsOK
    <3>2. accounts'[u] = [accounts[u] EXCEPT !.isAdmin = TRUE]
      BY <1>7, <2>1, <2>3 DEF Promote, IInv, TypeOK, AccountsOK
    <3>3. accounts'[u] \in Account /\ accounts'[u].isAdmin
      BY <3>1, <3>2 DEF Account
    <3>4. Present(u)'
      BY <2>2, <3>3 DEF Present
    <3> QED
      BY <1>1, <1>2, <2>1, <2>2, <3>3, <3>4 DEF Timely, Counts
  <2>4. CASE ~Present(u)
    <3>1. ~Present(u)' /\ gone' = gone
      BY <1>7, <2>4 DEF Promote, Present
    <3> QED
      BY <1>1, <1>2, <2>1, <2>2, <2>4, <3>1 DEF Timely, Counts, GoneSince
  <2> QED
    BY <2>3, <2>4
<1>8. CASE Enter(r)
  <2>1. pc[r] = "enter" /\ pc'[r] = "reply"
    BY <1>8 DEF Enter, Goto, IInv, TypeOK, RequestsOK
  <2>2. req'[r].id = None /\ req'[r].begun = req[r].begun
    BY <1>2, <1>8, <2>1 DEF Enter, IInv, TypeOK, RequestsOK, Request
  <2> QED
    BY <1>1, <1>2, <2>1, <2>2 DEF Timely, Counts
<1>9. ASSUME Done(r), pc[r] # "idle" PROVE (pc[r] # "idle" => Timely(r))' /\ Counts(r)'
  <2>1. pc'[r] = "reply" /\ req'[r].id = None /\ req'[r].begun = req[r].begun
    BY <1>2, <1>9 DEF Done, Goto, IInv, TypeOK, RequestsOK, Request
  <2> QED
    BY <1>1, <1>2, <1>9, <2>1 DEF Timely, Counts
<1>10. CASE AddUser(r) \/ ChangePassword(r) \/ DeleteUser(r)
  BY <1>9, <1>10 DEF AddUser, ChangePassword, DeleteUser
<1>11. CASE FindTarget(r)
  <2>1. pc[r] = "find" /\ UNCHANGED db
    BY <1>11 DEF FindTarget
  <2>2. CASE Goto(r, "reply") /\ UNCHANGED req
    BY <1>3, <2>1, <2>2 DEF Goto, IInv, TypeOK, RequestsOK
  <2>3. ASSUME NEW id \in Ids, Present(id), req' = [req EXCEPT ![r].id = id],
               Goto(r, IF accounts[id].isAdmin THEN "count" ELSE "delete")
        PROVE  (pc[r] # "idle" => Timely(r))' /\ Counts(r)'
    <3>1. /\ req'[r].id = id /\ req'[r].begun = req[r].begun
          /\ req'[r].session = req[r].session
      BY <1>2, <2>1, <2>3 DEF IInv, TypeOK, RequestsOK, Request
    <3>2. pc'[r] = IF accounts[id].isAdmin THEN "count" ELSE "delete"
      BY <2>3 DEF Goto, IInv, TypeOK, RequestsOK
    <3>3. id \in issued'
      BY <1>1, <2>3 DEF IInv, Issued
    <3>4. pc'[r] = "delete" => id \notin Admins'
      BY <2>1, <3>2 DEF Admins, Present, db
    <3> QED
      BY <1>1, <1>2, <2>1, <3>1, <3>2, <3>3, <3>4 DEF Timely, Counts
  <2> QED
    BY <1>11, <2>2, <2>3 DEF FindTarget
<1>12. CASE CountAdmins(r)
  <2>1. pc[r] = "count" /\ UNCHANGED db
    BY <1>12 DEF CountAdmins, Counted
  <2>2. CASE Done(r)
    BY <1>9, <2>1, <2>2
  <2>3. CASE Admins \ {req[r].id} # {} /\ Goto(r, "delete") /\ UNCHANGED req
    <3>1. pc'[r] = "delete" /\ req'[r] = req[r]
      BY <2>3 DEF Goto, IInv, TypeOK, RequestsOK
    <3>2. \E id \in Admins' : id # req'[r].id
      BY <2>1, <2>3 DEF Admins, Present, db
    <3> QED
      BY <1>1, <1>2, <2>1, <3>1, <3>2 DEF Timely, Counts
  <2> QED
    BY <1>12, <2>2, <2>3 DEF CountAdmins, Counted
<1>13. CASE Reply(r) \/ Lost(r)
  <2>1. pc'[r] = "idle"
    BY <1>13 DEF Reply, Lost, Goto, IInv, TypeOK, RequestsOK
  <2> QED
    BY <2>1 DEF Counts
<1> QED
  BY <1>5, <1>6, <1>7, <1>8, <1>10, <1>11, <1>12, <1>13 DEF Serve

(* Where the sessions of the next state come from. *)
LEMMA ServeSessions ==
  ASSUME IInv, TypeOK', NEW r \in Threads, Serve(r), ByStep(r)
  PROVE  SessionsGood'
<1>1. now' = now /\ Changes /\ now \in Int
  BY Numbers DEF ByStep, IInv, TypeOK, AccountsOK
<1>2. \A t \in Threads : t # r => req'[t] = req[t]
  BY ServeOthers DEF IInv
<1>3. pc[r] # "idle" => req[r] \in Request
  BY DEF IInv, TypeOK, RequestsOK
<1>4. ASSUME UNCHANGED cookie,
             req'[r] # None /\ req'[r].session # None =>
               \/ \E c \in Browsers : req'[r].session = cookie[c]
               \/ req[r] # None /\ req'[r].session = req[r].session
      PROVE  SessionsGood'
  BY <1>1, <1>2, <1>4, SessionsStay
<1>5. ASSUME NEW b \in Browsers, StartLogin(r, b) \/ Logout(r, b) \/ Visit(r, b)
      PROVE  SessionsGood'
  <2>1. UNCHANGED cookie
    BY <1>5 DEF StartLogin, Logout, Visit, Arrive
  <2>2. req'[r].session \in {None, cookie[b]}
    BY <1>5 DEF StartLogin, Logout, Visit, Arrive, IInv, TypeOK, RequestsOK
  <2> QED
    BY <1>4, <2>1, <2>2
<1>6. ASSUME pc[r] # "idle", UNCHANGED cookie, req'[r].session = req[r].session PROVE SessionsGood'
  BY <1>3, <1>4, <1>6
<1>7. CASE Identify(r)
  <2>1. pc[r] = "login" /\ UNCHANGED cookie
    BY <1>7 DEF Identify
  <2>2. req[r] \in Request /\ req \in [Threads -> Request \cup {None}]
    BY <1>3, <2>1 DEF IInv, TypeOK, RequestsOK
  <2>3. req'[r].session = req[r].session
    <3>1. CASE UNCHANGED req
      BY <3>1
    <3>2. ASSUME NEW id \in Ids,
                 req' = [req EXCEPT ![r].id = id, ![r].isAdmin = accounts[id].isAdmin]
          PROVE  req'[r].session = req[r].session
      <4> DEFINE q == [[req[r] EXCEPT !.id = id] EXCEPT !.isAdmin = accounts[id].isAdmin]
      <4>1. q.session = req[r].session
        BY <2>2 DEF Request
      <4>2. req'[r] = q
        BY <2>2, <3>2
      <4> QED
        BY <4>1, <4>2
    <3> QED
      BY <1>7, <3>1, <3>2 DEF Identify
  <2> QED
    BY <1>6, <2>1, <2>3
<1>8. CASE Promote(r)
  BY <1>3, <1>6, <1>8 DEF Promote, IInv, TypeOK, RequestsOK, Request
<1>9. CASE Enter(r)
  <2> DEFINE u == req[r].id
             s == [isAdmin |-> req[r].isAdmin, user |-> u, started |-> now]
  <2>1. pc[r] = "enter" /\ UNCHANGED <<now, accounts, issued, gone, cookie>>
    BY <1>9 DEF Enter
  <2>2. Timely(r) /\ u \in Ids /\ u \in issued /\ req[r].begun \in Nat
    BY <1>3, <2>1 DEF IInv, TypeOK, RequestsOK, UsesId, Request, Timely
  <2>3. req'[r].session = s
    BY <1>3, <1>9, <2>1 DEF Enter, IInv, TypeOK, RequestsOK, Request
  <2>4. entered'[u] = now
    BY <1>9, <2>2 DEF Enter, IInv, TypeOK, AccountsOK
  <2>5. s.isAdmin => IF Present(u) THEN accounts[u].isAdmin
                       ELSE gone[u] # None /\ gone[u] >= now - Slow
    <3>1. CASE s.isAdmin /\ ~Present(u)
      <4>1. gone[u] \in 0..Horizon /\ gone[u] >= req[r].begun /\ now <= req[r].begun + Slow
        BY <2>1, <2>2, <3>1 DEF Timely, GoneSince, IInv, TypeOK, AccountsOK
      <4>2. gone[u] >= now - Slow
        BY <1>1, <2>2, <4>1, Numbers
      <4> QED
        BY <3>1, <4>1, <4>2
    <3>2. CASE s.isAdmin /\ Present(u)
      BY <2>1, <2>2, <3>2 DEF Timely
    <3> QED
      BY <3>1, <3>2
  <2>6. Good(req[r].session)'
    BY <1>1, <2>1, <2>2, <2>3, <2>4, <2>5 DEF Good, Backed, Present
  <2> QED
    BY <1>1, <1>2, <2>1, <2>6, SessionsStay
<1>10. ASSUME Done(r), pc[r] # "idle" PROVE SessionsGood'
  BY <1>3, <1>6, <1>10 DEF Done, IInv, TypeOK, RequestsOK, Request
<1>11. CASE AddUser(r) \/ ChangePassword(r) \/ DeleteUser(r)
  BY <1>10, <1>11 DEF AddUser, ChangePassword, DeleteUser
<1>12. CASE FindTarget(r)
  BY <1>3, <1>6, <1>12 DEF FindTarget, IInv, TypeOK, RequestsOK, Request
<1>13. CASE CountAdmins(r)
  <2>1. pc[r] = "count" /\ (Done(r) \/ UNCHANGED <<cookie, req>>)
    BY <1>13 DEF CountAdmins, Counted
  <2> QED
    BY <1>6, <1>10, <2>1
<1>14. CASE Reply(r) \/ Lost(r)
  <2>1. req'[r] = None
    BY <1>14 DEF Reply, Lost, IInv, TypeOK, RequestsOK
  <2>2. pc[r] # "idle"
    BY <1>14 DEF Reply, Lost
  <2>3. \A b \in Browsers : cookie'[b] = cookie[b] \/ cookie'[b] = req[r].session
    BY <1>14 DEF Reply, Lost, IInv, TypeOK, RequestsOK
  <2>4. req[r] # None
    BY <2>2 DEF IInv, TypeOK, RequestsOK
  <2> QED
    BY <1>1, <1>2, <2>1, <2>3, <2>4, SessionsStay
<1> QED
  BY <1>5, <1>7, <1>8, <1>9, <1>11, <1>12, <1>13, <1>14 DEF Serve

LEMMA ServeKeeps ==
  ASSUME IInv, NEW r \in Threads, Serve(r)
  PROVE  IInv'
<1>1. TypeOK'
  BY ServeTypes, ServeRequests DEF IInv, TypeOK
<1>2. ByStep(r)
  BY ServeChanges DEF IInv
<1>3. /\ UNCHANGED <<server, row>>
      /\ \A t \in Threads : t # r => pc'[t] = pc[t] /\ req'[t] = req[t]
  BY ServeOthers DEF IInv
<1>4. Changes /\ now' = now /\ now \in Nat /\ \A y \in Threads \cup Servers : y # r => Watches(y)
  BY <1>2, Numbers DEF ByStep, IInv, TypeOK, AccountsOK
<1>5. Issued'
  <2>1. \A id \in Ids : Present(id)' => id \in issued'
    BY <1>2 DEF ByStep
  <2>2. \A id \in Ids : entered'[id] # None => entered'[id] <= now'
    BY <1>4 DEF Changes, IInv, Issued
  <2>3. \A p \in Servers : row'[p] # None => row'[p] \in issued'
    BY <1>3, <1>4 DEF Changes, IInv, Issued
  <2> QED
    BY <2>1, <2>2, <2>3 DEF Issued
<1>6. SessionsGood'
  BY <1>1, <1>2, ServeSessions
<1>7. ASSUME NEW t \in Threads PROVE ((pc[t] # "idle" => Timely(t)) /\ Counts(t))'
  <2>1. CASE t = r
    BY <1>1, <1>2, <2>1, ServeSelf
  <2>2. CASE t # r
    BY <1>3, <1>4, <2>2, ThreadStays
  <2> QED
    BY <2>1, <2>2
<1>8. ASSUME NEW p \in Servers PROVE Starts(p)'
  BY <1>3, <1>4, StartStays
<1> QED
  BY <1>1, <1>5, <1>6, <1>7, <1>8 DEF IInv

(* A step of a start. *)
LEMMA CreateOthers ==
  ASSUME TypeOK, NEW p \in Servers, CreateApp(p)
  PROVE  /\ UNCHANGED <<now, cookie, pc, req>>
         /\ \A x \in Servers : x # p => server'[x] = server[x] /\ row'[x] = row[x]
  BY DEF CreateApp, Start, InitFails, StartFails, ReadAdmin, InsertAdmin, UpdateAdmin,
         ReadBoot, InsertBoot, UpdateBoot, Step, TypeOK, StartOK

(* A step of this start that leaves 'admin' usable if it was. *)
LEMMA StillUsable ==
  ASSUME TypeOK, Issued, NEW p \in Servers, Usable(Admin), now' = now,
         \/ UNCHANGED db
         \/ \E name \in Names : Insert(name, TRUE)
         \/ row[p] # None /\ Repair(p)
  PROVE  Usable(Admin)'
<1>1. CASE UNCHANGED db
  BY <1>1 DEF Usable, Named, Present, db
<1>2. PICK i \in Ids : Present(i) /\ accounts[i].name = Admin /\ accounts[i].usable
  BY DEF Usable, Named
<1>3. i \in issued /\ accounts[i] \in Account
  BY <1>2 DEF Issued, TypeOK, AccountsOK, Present
<1>4. CASE \E name \in Names : Insert(name, TRUE)
  <2>1. accounts'[i] = accounts[i]
    BY <1>3, <1>4 DEF Insert, TypeOK, AccountsOK
  <2> QED
    BY <1>2, <2>1 DEF Usable, Named, Present
<1>5. CASE row[p] # None /\ Repair(p)
  <2>1. row[p] \in Ids
    BY <1>5 DEF TypeOK, StartOK
  <2>2. CASE Present(row[p])
    <3> DEFINE a == [[accounts[row[p]] EXCEPT !.isAdmin = TRUE] EXCEPT !.usable = TRUE]
    <3>1. accounts[row[p]] \in Account
      BY <2>1, <2>2 DEF TypeOK, AccountsOK, Present
    <3>2. a \in Account /\ a.name = accounts[row[p]].name /\ a.usable
      BY <3>1 DEF Account
    <3>3. accounts' = [accounts EXCEPT ![row[p]] = a]
      BY <1>5, <2>1, <2>2 DEF Repair, TypeOK, AccountsOK
    <3>4. accounts'[i] = accounts[i] \/ (i = row[p] /\ accounts'[i] = a)
      BY <2>1, <3>3 DEF TypeOK, AccountsOK
    <3>5. accounts'[i] \in Account /\ accounts'[i].name = Admin /\ accounts'[i].usable
      BY <1>2, <1>3, <3>2, <3>4
    <3> QED
      BY <3>5 DEF Usable, Named, Present
  <2>3. CASE ~Present(row[p])
    BY <1>2, <1>5, <2>3 DEF Repair, Usable, Named, Present
  <2> QED
    BY <2>2, <2>3
<1> QED
  BY <1>1, <1>4, <1>5

LEMMA StartSelf ==
  ASSUME IInv, NEW p \in Servers, CreateApp(p)
  PROVE  /\ Starts(p)' /\ (row[p] # None => row[p] \in issued)'
         /\ server'[p] = "up" => Usable(Admin)' \/ p \in missed'
<1> USE DEF Step
<1>1. TypeOK /\ Issued /\ now' = now
  BY CreateOthers DEF IInv
<1>2. ASSUME NEW from, NEW to, NEW id, Step(p, from, to, id)
      PROVE  server[p] = from /\ server'[p] = to /\ row'[p] = id
  BY <1>1, <1>2 DEF TypeOK, StartOK
<1>3. CASE Start(p) \/ StartFails(p)
  <2>1. server'[p] \in {"read", "down"} /\ row'[p] = None
    BY <1>2, <1>3 DEF Start, StartFails
  <2> QED
    BY <2>1 DEF Starts
<1>4. CASE InitFails(p)
  <2>1. p \in missed' /\ row'[p] = None
    BY <1>2, <1>4 DEF InitFails
  <2> QED
    BY <2>1 DEF Starts
<1>5. CASE ReadAdmin(p)
  <2>1. UNCHANGED <<db, missed>>
    BY <1>5 DEF ReadAdmin
  <2>2. CASE Step(p, "read", "insert", None)
    BY <1>2, <2>2 DEF Starts
  <2>3. CASE Usable(Admin) /\ Step(p, "read", "boot", None)
    <3>1. Usable(Admin)'
      BY <1>1, <2>1, <2>3, StillUsable
    <3> QED
      BY <1>2, <2>3, <3>1 DEF Starts
  <2>4. ASSUME NEW id \in Named(Admin), Step(p, "read", "update", id)
        PROVE  /\ Starts(p)' /\ (row[p] # None => row[p] \in issued)'
               /\ server'[p] = "up" => Usable(Admin)' \/ p \in missed'
    <3>1. server'[p] = "update" /\ row'[p] = id
      BY <1>2, <2>4
    <3>2. id \in Named(Admin)' /\ id \in issued'
      BY <1>1, <2>1, <2>4 DEF Named, Present, Issued, db
    <3> QED
      BY <3>1, <3>2 DEF Starts
  <2> QED
    BY <1>5, <2>2, <2>3, <2>4 DEF ReadAdmin
<1>6. CASE InsertAdmin(p)
  <2>1. server'[p] = "boot" /\ row'[p] = None
    BY <1>2, <1>6 DEF InsertAdmin
  <2>2. Usable(Admin)'
    <3> DEFINE a == [name |-> Admin, isAdmin |-> TRUE, usable |-> TRUE]
    <3>1. PICK id \in Ids \ issued : accounts' = [accounts EXCEPT ![id] = a]
      BY <1>6 DEF InsertAdmin, Insert
    <3>2. a \in Account /\ a.name = Admin /\ a.usable
      BY DEF Account
    <3>3. accounts'[id] = a
      BY <1>1, <3>1 DEF TypeOK, AccountsOK
    <3> HIDE DEF a
    <3>4. accounts'[id] # None /\ accounts'[id].name = Admin /\ accounts'[id].usable
      BY <3>2, <3>3
    <3> QED
      BY <3>4 DEF Usable, Named, Present
  <2> QED
    BY <2>1, <2>2 DEF Starts
<1>7. CASE UpdateAdmin(p)
  <2>1. server[p] = "update" /\ server'[p] = "boot" /\ row'[p] = None
    BY <1>2, <1>7 DEF UpdateAdmin
  <2>2. ASSUME p \notin missed' PROVE Usable(Admin)'
    <3> DEFINE i == row[p]
               a == [[accounts[i] EXCEPT !.isAdmin = TRUE] EXCEPT !.usable = TRUE]
    <3>1. i \in Ids /\ Present(i) /\ accounts[i].name = Admin /\ accounts[i] \in Account
      BY <1>1, <1>7, <2>1, <2>2
      DEF UpdateAdmin, Repair, IInv, Starts, Named, Present, TypeOK, AccountsOK
    <3>2. accounts' = [accounts EXCEPT ![i] = a]
      BY <1>1, <1>7, <3>1 DEF UpdateAdmin, Repair, TypeOK, AccountsOK
    <3>3. a \in Account /\ a.name = Admin /\ a.usable
      BY <3>1 DEF Account
    <3>4. accounts'[i] = a
      BY <1>1, <3>1, <3>2 DEF TypeOK, AccountsOK
    <3> HIDE DEF a
    <3>5. \E id \in Ids : accounts'[id] # None /\ accounts'[id].name = Admin /\ accounts'[id].usable
      BY <3>1, <3>3, <3>4
    <3> QED
      BY <3>5 DEF Usable, Named, Present
  <2> QED
    BY <2>1, <2>2 DEF Starts
<1>8. ASSUME server[p] \in {"boot", "boot insert", "boot update"},
             server'[p] \in {"boot insert", "boot update", "up"},
             p \in missed => p \in missed',
             \/ UNCHANGED db
             \/ \E name \in Names : Insert(name, TRUE)
             \/ row[p] # None /\ Repair(p)
      PROVE  Starts(p)' /\ (p \notin missed' => Usable(Admin)')
  <2>1. p \notin missed => Usable(Admin)
    BY <1>8 DEF IInv, Starts
  <2>2. p \notin missed' => Usable(Admin)'
    BY <1>1, <1>8, <2>1, StillUsable
  <2> QED
    BY <1>8, <2>2 DEF Starts
<1>9. CASE ReadBoot(p)
  <2>1. UNCHANGED <<db, missed>>
    BY <1>9 DEF ReadBoot
  <2>2. /\ server[p] = "boot" /\ server'[p] \in {"boot insert", "boot update", "up"}
        /\ row'[p] = None \/ row'[p] \in Named(BootName)
    BY <1>2, <1>9 DEF ReadBoot
  <2>3. row'[p] # None => row'[p] \in issued'
    BY <1>1, <2>1, <2>2 DEF Named, Issued, db
  <2> QED
    BY <1>8, <2>1, <2>2, <2>3
<1>10. CASE InsertBoot(p)
  BY <1>2, <1>8, <1>10 DEF InsertBoot, Insert
<1>11. CASE UpdateBoot(p)
  <2>1. server[p] = "boot update" /\ server'[p] = "up" /\ row'[p] = None
    BY <1>2, <1>11 DEF UpdateBoot
  <2>2. row[p] # None /\ Repair(p) /\ (p \in missed => p \in missed')
    BY <1>1, <1>11, <2>1 DEF UpdateBoot, Repair, TypeOK, StartOK
  <2> QED
    BY <1>8, <2>1, <2>2
<1> QED
  BY <1>3, <1>4, <1>5, <1>6, <1>7, <1>9, <1>10, <1>11 DEF CreateApp

LEMMA CreateKeeps ==
  ASSUME IInv, NEW p \in Servers, CreateApp(p)
  PROVE  IInv'
<1>1. TypeOK' /\ ByStep(p)
  BY StartTypes, CreateChanges DEF IInv
<1>2. /\ UNCHANGED <<now, cookie, pc, req>>
      /\ \A x \in Servers : x # p => server'[x] = server[x] /\ row'[x] = row[x]
  BY CreateOthers DEF IInv
<1>3. Changes /\ now <= now' /\ \A y \in Threads \cup Servers : y # p => Watches(y)
  BY <1>1, Numbers DEF ByStep, IInv, TypeOK, AccountsOK
<1>4. Starts(p)' /\ (row[p] # None => row[p] \in issued)'
  BY StartSelf
<1>5. Issued'
  <2>1. \A id \in Ids : Present(id)' => id \in issued'
    BY <1>1 DEF ByStep
  <2>2. \A id \in Ids : entered'[id] # None => entered'[id] <= now'
    BY <1>2, <1>3 DEF Changes, IInv, Issued
  <2>3. \A x \in Servers : row'[x] # None => row'[x] \in issued'
    BY <1>2, <1>3, <1>4 DEF Changes, IInv, Issued
  <2> QED
    BY <2>1, <2>2, <2>3 DEF Issued
<1>6. SessionsGood'
  BY <1>1, <1>2, <1>3, SessionsStay
<1>7. ASSUME NEW t \in Threads PROVE ((pc[t] # "idle" => Timely(t)) /\ Counts(t))'
  <2>1. t # p
    OBVIOUS
  <2> QED
    BY <1>2, <1>3, <2>1, ThreadStays
<1>8. ASSUME NEW x \in Servers PROVE Starts(x)'
  <2>1. CASE x # p
    BY <1>2, <1>3, <2>1, StartStays
  <2> QED
    BY <1>4, <2>1
<1> QED
  BY <1>1, <1>5, <1>6, <1>7, <1>8 DEF IInv

LEMMA TickKeeps ==
  ASSUME IInv, Tick, TypeOK'
  PROVE  IInv'
<1>1. UNCHANGED <<accounts, issued, gone, entered, cookie, pc, req, server, row, missed>>
  BY DEF Tick, db
<1>2. now \in Int /\ now' = now + 1 /\ now <= now'
  BY Numbers DEF Tick, IInv, TypeOK, AccountsOK
<1>3. Changes
  BY <1>1 DEF Changes, Present
<1>4. Issued'
  BY <1>1, <1>2, Numbers DEF IInv, Issued, Present, TypeOK, AccountsOK
<1>5. SessionsGood'
  BY <1>1, <1>2, <1>3, SessionsStay
<1>6. ASSUME NEW r \in Threads, pc[r] # "idle" PROVE Timely(r)'
  <2>1. Timely(r) /\ now < req[r].begun + Slow /\ req[r] \in Request /\ req[r].begun \in Int
    BY <1>6, Numbers DEF IInv, Tick, TypeOK, RequestsOK, Request
  <2>2. req[r].begun <= now' /\ now' <= req[r].begun + Slow
    BY <1>2, <2>1, Numbers DEF Timely
  <2> QED
    BY <1>1, <2>1, <2>2 DEF Timely, GoneSince, Present
<1>7. \A r \in Threads : Counts(r)'
  BY <1>1 DEF IInv, Counts, Admins, Present
<1>8. \A p \in Servers : Starts(p)'
  BY <1>1 DEF IInv, Starts, Usable, Named, Present
<1> QED
  BY <1>1, <1>4, <1>5, <1>6, <1>7, <1>8 DEF IInv

LEMMA InvNext == IInv /\ [Next]_vars => IInv'
<1> SUFFICES ASSUME IInv, [Next]_vars PROVE IInv'
  OBVIOUS
<1>1. TypeOK'
  BY TypeNext DEF IInv
<1>2. CASE UNCHANGED vars
  BY <1>1, <1>2 DEF vars, db, IInv, Issued, SessionsGood, Good, Backed, Timely, GoneSince, Counts,
                    Starts, Admins, Usable, Named, Present
<1> QED
  BY <1>1, <1>2, ServeKeeps, CreateKeeps, TickKeeps DEF Next

-----------------------------------------------------------------------------
(* The invariant holds in every reachable state, of any instance: IInv.    *)
THEOREM Invariance == Spec => []IInv
  BY InvInit, InvNext, PTL DEF Spec

(* Only an administrator can write as one, whatever the instance:           *)
(* FlagIsTrue.                                                             *)
THEOREM FlagTrue == Spec => []FlagIsTrue
<1>1. IInv => FlagIsTrue
  BY DEF IInv, SessionsGood, Good, Backed, FlagIsTrue
<1> QED
  BY <1>1, Invariance, PTL

(* The rights of an administrator end with the lifetime of the session,     *)
(* for any Lifetime and any Slow: RightsEnd.                               *)
THEOREM RightsEnded == Spec => []RightsEnd
<1>1. ASSUME IInv, NEW r \in Threads, pc[r] \in UsesSession
      PROVE  /\ entered[req[r].session.user] # None
             /\ now <= entered[req[r].session.user] + Lifetime + Slow
  <2> DEFINE s == req[r].session
             u == s.user
  <2>1. req[r] \in Request /\ s \in Session
    BY <1>1 DEF IInv, TypeOK, RequestsOK, UsesSession, Request
  <2>2. Good(s) /\ Timely(r)
    BY <1>1, <2>1 DEF IInv, SessionsGood, UsesSession
  <2>3. entered[u] # None /\ s.started <= entered[u] /\ u \in Ids
    BY <2>1, <2>2 DEF Good, Session
  <2>4. now \in Int /\ s.started \in Int /\ req[r].begun \in Int /\ entered[u] \in Int
    BY <1>1, <2>1, <2>3, Numbers DEF IInv, TypeOK, AccountsOK, Session, Request
  <2>5. now <= req[r].begun + Slow /\ req[r].begun <= s.started + Lifetime
    BY <1>1, <2>2 DEF Timely
  <2> QED
    BY <2>3, <2>4, <2>5, Numbers
<1>2. IInv => RightsEnd
  BY <1>1 DEF RightsEnd
<1> QED
  BY <1>2, Invariance, PTL

(* Nothing but the DELETE of a request takes a row away. *)
LEMMA WhoDeletes ==
  ASSUME TypeOK, Issued, [Next]_vars, NEW i \in Ids, Present(i), ~Present(i)'
  PROVE  \E r \in Threads : DeleteUser(r) /\ req[r].id = i
<1>1. i \in issued /\ accounts[i] # None /\ accounts'[i] = None
  BY DEF Issued, Present
<1>2. ~UNCHANGED accounts
  BY <1>1
<1>3. \A name \in Names, admin \in BOOLEAN : ~Insert(name, admin)
  BY <1>1 DEF Insert, TypeOK, AccountsOK
<1>4. ASSUME NEW id \in Ids, NEW a \in Account, accounts' = [accounts EXCEPT ![id] = a]
      PROVE  FALSE
  BY <1>1, <1>4 DEF TypeOK, AccountsOK
<1>5. ASSUME NEW p \in Servers, CreateApp(p) PROVE FALSE
  <2>1. \A name \in Names : ~Insert(name, TRUE)
    BY <1>3
  <2>2. Repair(p) /\ row[p] # None
    BY <1>2, <1>5, <2>1
    DEF CreateApp, Start, InitFails, StartFails, ReadAdmin, InsertAdmin, UpdateAdmin,
        ReadBoot, InsertBoot, UpdateBoot, Step, db, TypeOK, StartOK
  <2> DEFINE a == [[accounts[row[p]] EXCEPT !.isAdmin = TRUE] EXCEPT !.usable = TRUE]
  <2>3. Present(row[p]) /\ row[p] \in Ids /\ accounts[row[p]] \in Account
    BY <1>2, <2>2 DEF Repair, TypeOK, StartOK, AccountsOK, Present
  <2>4. a \in Account
    BY <2>3 DEF Account
  <2>5. accounts' = [accounts EXCEPT ![row[p]] = a]
    BY <2>2, <2>3 DEF Repair, TypeOK, AccountsOK
  <2> QED
    BY <1>4, <2>3, <2>4, <2>5
<1>6. ASSUME NEW r \in Threads, Serve(r), ~DeleteUser(r) PROVE FALSE
  <2>1. CASE Promote(r)
    <3> DEFINE a == [accounts[req[r].id] EXCEPT !.isAdmin = TRUE]
    <3>1. /\ Present(req[r].id) /\ req[r].id \in Ids /\ accounts[req[r].id] \in Account
          /\ accounts' = [accounts EXCEPT ![req[r].id] = a]
      BY <1>2, <2>1 DEF Promote, TypeOK, RequestsOK, UsesId, Request, AccountsOK, Present
    <3>2. a \in Account
      BY <3>1 DEF Account
    <3> QED
      BY <1>4, <3>1, <3>2
  <2>2. CASE ChangePassword(r)
    <3>1. PICK id \in Ids : Present(id) /\ accounts' = [accounts EXCEPT ![id].usable = TRUE]
      BY <1>2, <2>2 DEF ChangePassword
    <3>2. [accounts[id] EXCEPT !.usable = TRUE] \in Account
      BY <3>1 DEF TypeOK, AccountsOK, Account, Present
    <3> QED
      BY <1>4, <3>1, <3>2
  <2>3. CASE AddUser(r)
    BY <1>2, <1>3, <2>3 DEF AddUser, db
  <2>4. CASE ~Promote(r) /\ ~ChangePassword(r) /\ ~AddUser(r)
    BY <1>2, <1>6, <2>4
    DEF Serve, StartLogin, Logout, Visit, Arrive, Identify, Enter, FindTarget, CountAdmins,
        Counted, Reply, Lost, db
  <2> QED
    BY <2>1, <2>2, <2>3, <2>4
<1>7. ASSUME NEW r \in Threads, DeleteUser(r) PROVE req[r].id = i
  <2>1. accounts' = [accounts EXCEPT ![req[r].id] = None]
    BY <1>2, <1>7 DEF DeleteUser
  <2> QED
    BY <1>1, <2>1 DEF TypeOK, AccountsOK
<1> QED
  BY <1>2, <1>5, <1>6, <1>7 DEF Next, Tick, vars, db

(* Only a request that was overtaken deletes the last administrator, with   *)
(* any number of threads: LastAdmin.                                       *)
THEOREM LastAdminStays == Spec => LastAdmin
<1>1. ASSUME IInv, [Next]_vars, Admins # {}, Admins' = {} PROVE Overtaken
  <2>1. PICK i \in Admins : TRUE
    BY <1>1
  <2>2. i \in Ids /\ Present(i) /\ accounts[i].isAdmin /\ i \in issued
    BY <1>1, <2>1 DEF Admins, IInv, Issued
  <2>3. ~Present(i)'
    <3>1. i \notin Admins'
      BY <1>1
    <3>2. CASE Changes
      BY <2>2, <3>1, <3>2 DEF Changes, Admins
    <3>3. CASE ~Changes
      BY <1>1, <2>2, <3>1, <3>3, ServeChanges, CreateChanges
      DEF Next, ByStep, IInv, Tick, vars, db, Admins, Present
    <3> QED
      BY <3>2, <3>3
  <2>4. PICK r \in Threads : DeleteUser(r) /\ req[r].id = i
    BY <2>2, <2>3, WhoDeletes, <1>1 DEF IInv
  <2>5. pc[r] = "delete" /\ accounts' = [accounts EXCEPT ![i] = None]
    BY <2>2, <2>4 DEF DeleteUser
  <2>6. \A id \in Admins : id = i
    BY <1>1, <2>5 DEF Admins, Present
  <2>7. r \in missed
    BY <1>1, <2>1, <2>4, <2>5, <2>6 DEF IInv, Counts
  <2> QED
    BY <2>5, <2>7 DEF Overtaken
<1>2. IInv /\ [Next]_vars => [Admins # {} /\ Admins' = {} => Overtaken]_vars
  BY <1>1
<1> QED
  BY <1>2, Invariance, PTL DEF Spec, LastAdmin

(* An instance that neither failed nor was overtaken comes up with a        *)
(* usable 'admin', with any number of instances: AfterStart.               *)
THEOREM AfterStarts == Spec => AfterStart
<1>1. ASSUME IInv, [Next]_vars, NEW p \in Servers, server[p] # "up", server'[p] = "up"
      PROVE  Usable(Admin)' \/ p \in missed'
  <2>1. CreateApp(p)
    BY <1>1, ServeOthers, CreateOthers DEF Next, Tick, vars, IInv
  <2> QED
    BY <1>1, <2>1, StartSelf
<1>2. IInv /\ [Next]_vars =>
        [\A p \in Servers :
           server[p] # "up" /\ server'[p] = "up" => Usable(Admin)' \/ p \in missed']_vars
  BY <1>1
<1> QED
  BY <1>2, Invariance, PTL DEF Spec, AfterStart
=============================================================================
