------------------------------ MODULE Accounts ------------------------------
(***************************************************************************)
(* The accounts of the logbook and the sessions that act for them: login   *)
(* with its promotion of 'admin', the user page of administrators, the     *)
(* signed cookie that copies the admin flag and is sent back by every      *)
(* answer, its expiry, and the start of the application, which creates or  *)
(* repairs an administrator.                                               *)
(*                                                                         *)
(* Every SQL statement is a step; a write and its commit are one.  A       *)
(* request works with the session of the cookie it came with, and its      *)
(* answer writes that session back, whatever the browser has by then.      *)
(***************************************************************************)
EXTENDS Integers, FiniteSets

CONSTANTS
  Names,       \* users.username
  Admin,       \* the name 'admin'
  BootName,    \* BOOTSTRAP_ADMIN_USERNAME; its password is set
  Ids,         \* users.id
  Browsers,
  Threads,     \* the threads of the workers, each with the request it serves
  Servers,     \* instances of the application, from create_app on
  None,
  Lifetime,    \* PERMANENT_SESSION_LIFETIME
  Slow,        \* how long a request may take
  Horizon      \* bound: the time at which a run ends

VARIABLES
  now,         \* the clock
  accounts,    \* the rows of table users
  issued,      \* the ids handed out
  gone,        \* gone[id]: when the row was deleted
  entered,     \* entered[id]: the last login
  cookie,      \* cookie[b]: the session in the cookie of browser b
  pc,          \* pc[r]: the step request r takes next
  req,         \* req[r]: its browser, session and local variables
  server,      \* server[p]: the step of create_app instance p takes next
  row,         \* row[p]: the id its SELECT returned
  missed       \* who read accounts that were deleted or promoted since

db   == <<accounts, issued, gone, entered>>
vars == <<now, db, cookie, pc, req, server, row, missed>>

ASSUME AccountsAssumption ==
  /\ {Admin, BootName} \subseteq Names
  /\ {Lifetime, Slow, Horizon} \subseteq Nat
  /\ None \notin Ids \cup Browsers \cup Int
  /\ Threads \cap Servers = {}

(* usable is FALSE for CHANGE_ME_RUN_FLASK_INIT, which matches no password. *)
Account == [name : Names, isAdmin : BOOLEAN, usable : BOOLEAN]
Session == [isAdmin : BOOLEAN, user : Ids, started : 0..Horizon]
Request == [isAdmin : BOOLEAN, browser : Browsers, session : Session \cup {None},
            id : Ids \cup {None}, begun : 0..Horizon]

ASSUME NoneAssumption == None \notin Account \cup Session \cup Request

Steps   == {"idle", "login", "promote", "enter", "add", "password", "find", "count",
            "delete", "reply"}
Startup == {"down", "read", "insert", "update", "boot", "boot insert", "boot update", "up"}

Present(id)  == accounts[id] # None
Named(name)  == {id \in Ids : Present(id) /\ accounts[id].name = name}
Usable(name) == \E id \in Named(name) : accounts[id].usable
Admins       == {id \in Ids : Present(id) /\ accounts[id].isAdmin}

(* Who has read the accounts and is about to write or to be done. *)
Readers ==
  {r \in Threads : pc[r] \in {"count", "delete"}} \cup
  {p \in Servers : server[p] \in {"insert", "update", "boot", "boot insert", "boot update"}}

(* UNIQUE (username), GENERATED ALWAYS AS IDENTITY *)
Insert(name, admin) ==
  /\ Named(name) = {}
  /\ \E id \in Ids \ issued :
       /\ accounts' = [accounts EXCEPT ![id] =
                         [name |-> name, isAdmin |-> admin, usable |-> TRUE]]
       /\ issued' = issued \cup {id}
  /\ UNCHANGED <<gone, entered, missed>>

-----------------------------------------------------------------------------
(* Requests. *)

Goto(r, step) == pc' = [pc EXCEPT ![r] = step]

(* csrf_protect and admin_required, with the session of the cookie. *)
Expired(s) == now - s.started > Lifetime

Arrive(r, b, s, step) ==
  /\ pc[r] = "idle" /\ \E p \in Servers : server[p] = "up"
  /\ req' = [req EXCEPT ![r] = [isAdmin |-> FALSE, browser |-> b, session |-> s,
                                id |-> None, begun |-> now]]
  /\ Goto(r, step)
  /\ UNCHANGED <<now, db, cookie, server, row, missed>>

(* POST /login; with a session it only leads back to the dashboard. *)
StartLogin(r, b) ==
  /\ cookie[b] = None
  /\ Arrive(r, b, None, "login")

(* POST /logout is not asked for the age of its session. *)
Logout(r, b) ==
  /\ cookie[b] # None
  /\ Arrive(r, b, None, "reply")

(* slip: the session that is too old is cleared, and the request goes on *)
Visit_GoesOn(r, b) ==
  /\ cookie[b] # None
  /\ LET s == IF Expired(cookie[b]) THEN None ELSE cookie[b] IN
       \/ Arrive(r, b, s, "reply")
       \/ cookie[b].isAdmin /\ \E step \in {"add", "password", "find"} : Arrive(r, b, s, step)

(* Any other request.  The pages /login, /health and /static do not ask     *)
(* for the age of the session either; those of administrators go on.       *)
Visit(r, b) ==
  /\ cookie[b] # None
  /\ \/ Expired(cookie[b]) /\ Arrive(r, b, None, "reply")
     \/ Arrive(r, b, cookie[b], "reply")
     \/ /\ ~Expired(cookie[b]) /\ cookie[b].isAdmin
        /\ \E step \in {"add", "password", "find"} : Arrive(r, b, cookie[b], step)

(* slip: session_started_at is renewed like the cookie *)
Reply_Renews(r) ==
  /\ pc[r] = "reply"
  /\ LET s == req[r].session IN
       cookie' = [cookie EXCEPT ![req[r].browser] =
                    IF s = None THEN None ELSE [s EXCEPT !.started = now]]
  /\ Goto(r, "idle")
  /\ req' = [req EXCEPT ![r] = None]
  /\ missed' = missed \ {r}
  /\ UNCHANGED <<now, db, server, row>>

(* SESSION_REFRESH_EACH_REQUEST: every answer sets the cookie, to the       *)
(* session the request came with, which it may have cleared.               *)
Reply(r) ==
  /\ pc[r] = "reply"
  /\ cookie' = [cookie EXCEPT ![req[r].browser] = req[r].session]
  /\ Goto(r, "idle")
  /\ req' = [req EXCEPT ![r] = None]
  /\ missed' = missed \ {r}
  /\ UNCHANGED <<now, db, server, row>>

(* The worker dies, or the answer does not arrive. *)
Lost(r) ==
  /\ pc[r] # "idle"
  /\ Goto(r, "idle")
  /\ req' = [req EXCEPT ![r] = None]
  /\ missed' = missed \ {r}
  /\ UNCHANGED <<now, db, cookie, server, row>>

-----------------------------------------------------------------------------
(* POST /login. *)

(* The SELECT, and check_password_hash. *)
Identify(r) ==
  /\ pc[r] = "login"
  /\ \/ Goto(r, "reply") /\ UNCHANGED req
     \/ \E id \in Ids :
          /\ Present(id) /\ accounts[id].usable
          /\ req' = [req EXCEPT ![r].id = id, ![r].isAdmin = accounts[id].isAdmin]
          /\ Goto(r, IF accounts[id].name = Admin /\ ~accounts[id].isAdmin
                       THEN "promote" ELSE "enter")
  /\ UNCHANGED <<now, db, cookie, server, row, missed>>

(* slip: the promotion is not committed *)
Promote_NoCommit(r) ==
  /\ pc[r] = "promote"
  /\ req' = [req EXCEPT ![r].isAdmin = TRUE]
  /\ Goto(r, "enter")
  /\ UNCHANGED <<now, db, cookie, server, row, missed>>

(* UPDATE ... RETURNING is_admin; no row, and the session is one of an     *)
(* administrator all the same.                                             *)
Promote(r) ==
  /\ pc[r] = "promote"
  /\ accounts' = IF Present(req[r].id)
                   THEN [accounts EXCEPT ![req[r].id].isAdmin = TRUE] ELSE accounts
  /\ missed' = missed \cup Readers
  /\ req' = [req EXCEPT ![r].isAdmin = TRUE]
  /\ Goto(r, "enter")
  /\ UNCHANGED <<now, issued, gone, entered, cookie, server, row>>

Enter(r) ==
  /\ pc[r] = "enter"
  /\ req' = [req EXCEPT
            ![r].session =
               [isAdmin |-> req[r].isAdmin, user |-> req[r].id, started |-> now],
            ![r].id = None]
  /\ entered' = [entered EXCEPT ![req[r].id] = now]
  /\ Goto(r, "reply")
  /\ UNCHANGED <<now, accounts, issued, gone, cookie, server, row, missed>>

-----------------------------------------------------------------------------
(* POST /uzytkownicy. *)

Done(r) ==
  /\ Goto(r, "reply")
  /\ req' = [req EXCEPT ![r].id = None]
  /\ UNCHANGED <<now, cookie, server, row>>

AddUser(r) ==
  /\ pc[r] = "add"
  /\ \/ \E name \in Names, admin \in BOOLEAN : Insert(name, admin)
     \/ UNCHANGED <<db, missed>>
  /\ Done(r)

(* UPDATE by id; no row, no complaint. *)
ChangePassword(r) ==
  /\ pc[r] = "password"
  /\ \/ \E id \in Ids : Present(id) /\ accounts' = [accounts EXCEPT ![id].usable = TRUE]
     \/ UNCHANGED accounts
  /\ UNCHANGED <<issued, gone, entered, missed>>
  /\ Done(r)

(* The own account, or one that is not there, is refused. *)
FindTarget(r) ==
  /\ pc[r] = "find"
  /\ \/ Goto(r, "reply") /\ UNCHANGED <<req, missed>>
     \/ \E id \in Ids \ {req[r].session.user} :
          /\ Present(id)
          /\ req' = [req EXCEPT ![r].id = id]
          /\ Goto(r, IF accounts[id].isAdmin THEN "count" ELSE "delete")
          /\ missed' = missed \ {r}
  /\ UNCHANGED <<now, db, cookie, server, row>>

Counted(r, admins) ==
  /\ pc[r] = "count"
  /\ \/ admins = {} /\ Done(r)
     \/ admins # {} /\ Goto(r, "delete") /\ UNCHANGED <<now, cookie, req, server, row>>
  /\ UNCHANGED <<db, missed>>

(* slip: the count includes the account that is to go *)
CountAdmins_Itself(r) == Counted(r, Admins)

CountAdmins(r) == Counted(r, Admins \ {req[r].id})

DeleteUser(r) ==
  /\ pc[r] = "delete"
  /\ IF Present(req[r].id)
       THEN /\ accounts' = [accounts EXCEPT ![req[r].id] = None]
            /\ gone' = [gone EXCEPT ![req[r].id] = now]
            /\ missed' = (missed \cup Readers) \ {r}
       ELSE UNCHANGED <<accounts, gone>> /\ missed' = missed \ {r}
  /\ UNCHANGED <<issued, entered>>
  /\ Done(r)

-----------------------------------------------------------------------------
(* create_app: init_db for 'admin', then ensure_bootstrap_admin.           *)

Step(p, from, to, id) ==
  /\ server[p] = from
  /\ server' = [server EXCEPT ![p] = to]
  /\ row' = [row EXCEPT ![p] = id]
  /\ UNCHANGED <<now, cookie, pc, req>>

Start(p) ==
  /\ \E step \in {"down", "up"} : Step(p, step, "read", None)
  /\ missed' = missed \ {p}
  /\ UNCHANGED db

(* An error of init_db is logged, and the start goes on; outside production *)
(* one of a migration is too, and init_db is skipped.                      *)
InitFails(p) ==
  /\ \E step \in {"read", "insert", "update"} : Step(p, step, "boot", None)
  /\ missed' = missed \cup {p}
  /\ UNCHANGED db

(* Any other error, of a migration or of ensure_bootstrap_admin, ends it.   *)
StartFails(p) ==
  /\ \E step \in Startup \ {"down", "up"} : Step(p, step, "down", None)
  /\ missed' = missed \ {p}
  /\ UNCHANGED db

(* slip: the password of schema.sql is taken for one *)
ReadAdmin_AnyPassword(p) ==
  /\ Step(p, "read", IF Named(Admin) = {} THEN "insert" ELSE "boot", None)
  /\ UNCHANGED <<db, missed>>

ReadAdmin(p) ==
  /\ \/ Named(Admin) = {} /\ Step(p, "read", "insert", None)
     \/ Usable(Admin) /\ Step(p, "read", "boot", None)
     \/ ~Usable(Admin) /\ \E id \in Named(Admin) : Step(p, "read", "update", id)
  /\ UNCHANGED <<db, missed>>

(* If another instance was faster, the error is raised: InitFails. *)
InsertAdmin(p) == Step(p, "insert", "boot", None) /\ Insert(Admin, TRUE)

(* UPDATE by id; no row, no complaint. *)
Repair(p) ==
  /\ accounts' = IF Present(row[p])
                   THEN [accounts EXCEPT ![row[p]].isAdmin = TRUE, ![row[p]].usable = TRUE]
                   ELSE accounts
  /\ missed' = missed \cup (Readers \ {p})
  /\ UNCHANGED <<issued, gone, entered>>

UpdateAdmin(p) == Step(p, "update", "boot", None) /\ Repair(p)

(* BOOTSTRAP_ADMIN_FORCE_RESET decides whether a row is left as it is. *)
ReadBoot(p) ==
  /\ \/ Named(BootName) = {} /\ Step(p, "boot", "boot insert", None)
     \/ Named(BootName) # {} /\ Step(p, "boot", "up", None)
     \/ \E id \in Named(BootName) : Step(p, "boot", "boot update", id)
  /\ UNCHANGED <<db, missed>>

(* If another instance was faster, the error is raised: StartFails. *)
InsertBoot(p) == Step(p, "boot insert", "up", None) /\ Insert(BootName, TRUE)

UpdateBoot(p) == Step(p, "boot update", "up", None) /\ Repair(p)

-----------------------------------------------------------------------------
(* Time passes while no request takes longer than Slow. *)
Tick ==
  /\ now < Horizon
  /\ \A r \in Threads : pc[r] # "idle" => now < req[r].begun + Slow
  /\ now' = now + 1
  /\ UNCHANGED <<db, cookie, pc, req, server, row, missed>>

(* schema.sql has inserted 'admin' with the password nobody has.           *)
Init ==
  /\ now = 0
  /\ \E id \in Ids :
       /\ accounts = [i \in Ids |-> IF i = id
                        THEN [name |-> Admin, isAdmin |-> TRUE, usable |-> FALSE] ELSE None]
       /\ issued = {id}
  /\ gone = [id \in Ids |-> None]
  /\ entered = [id \in Ids |-> None]
  /\ cookie = [b \in Browsers |-> None]
  /\ pc = [r \in Threads |-> "idle"]
  /\ req = [r \in Threads |-> None]
  /\ server = [p \in Servers |-> "down"]
  /\ row = [p \in Servers |-> None]
  /\ missed = {}

Serve(r) ==
  \/ \E b \in Browsers : StartLogin(r, b) \/ Logout(r, b) \/ Visit(r, b)
  \/ Identify(r) \/ Promote(r) \/ Enter(r)
  \/ AddUser(r) \/ ChangePassword(r) \/ FindTarget(r) \/ CountAdmins(r) \/ DeleteUser(r)
  \/ Reply(r) \/ Lost(r)

CreateApp(p) ==
  \/ Start(p) \/ InitFails(p) \/ StartFails(p) \/ ReadAdmin(p) \/ InsertAdmin(p) \/ UpdateAdmin(p)
  \/ ReadBoot(p) \/ InsertBoot(p) \/ UpdateBoot(p)

Next == (\E r \in Threads : Serve(r)) \/ (\E p \in Servers : CreateApp(p)) \/ Tick

Spec == Init /\ [][Next]_vars
-----------------------------------------------------------------------------
(* Every variable has its type, a request is there exactly while a thread   *)
(* serves it, and it has an account or a session where its step uses one.  *)
AccountsOK ==
  /\ now \in 0..Horizon
  /\ accounts \in [Ids -> Account \cup {None}]
  /\ issued \in SUBSET Ids
  /\ gone \in [Ids -> 0..Horizon \cup {None}]
  /\ entered \in [Ids -> 0..Horizon \cup {None}]

UsesId      == {"promote", "enter", "count", "delete"}
UsesSession == {"add", "password", "find", "count", "delete"}

RequestsOK ==
  /\ cookie \in [Browsers -> Session \cup {None}]
  /\ pc \in [Threads -> Steps]
  /\ req \in [Threads -> Request \cup {None}]
  /\ \A r \in Threads :
       /\ pc[r] = "idle" <=> req[r] = None
       /\ pc[r] \in UsesId => req[r].id # None
       /\ pc[r] \in UsesSession => req[r].session # None

StartOK ==
  /\ server \in [Servers -> Startup]
  /\ row \in [Servers -> Ids \cup {None}]
  /\ \A p \in Servers : server[p] \in {"update", "boot update"} <=> row[p] # None
  /\ missed \subseteq Threads \cup Servers

TypeOK == AccountsOK /\ RequestsOK /\ StartOK

(* Only an administrator can write as one: the flag of a session, in a      *)
(* cookie or in a request, is that of its account, or the account has been *)
(* deleted, and not long before the login, since the id is never given to  *)
(* anybody else (auth.py:42-59).                                           *)
Backed(s) ==
  s # None /\ s.isAdmin =>
    IF Present(s.user) THEN accounts[s.user].isAdmin
                       ELSE gone[s.user] # None /\ gone[s.user] >= s.started - Slow

FlagIsTrue ==
  /\ \A b \in Browsers : Backed(cookie[b])
  /\ \A r \in Threads : req[r] # None => Backed(req[r].session)

(* The rights of an administrator end after the lifetime of a session,      *)
(* however often an answer renews its cookie and whichever answer comes    *)
(* last: a request that is about to write accounts is of a user whose last *)
(* login is that old at most, give or take the request (app_setup.py:47).  *)
RightsEnd ==
  \A r \in Threads :
    pc[r] \in UsesSession =>
      /\ entered[req[r].session.user] # None
      /\ now <= entered[req[r].session.user] + Lifetime + Slow

(* The last administrator is deleted only by a request that counted before  *)
(* another one deleted or promoted an account (admin.py:211-222).          *)
Overtaken == \E r \in missed \cap Threads : pc[r] = "delete"

LastAdmin == [][Admins # {} /\ Admins' = {} => Overtaken]_vars

(* An instance whose init_db did not fail, and which was not overtaken,     *)
(* comes up with an account 'admin' that has a password: one that the next *)
(* login makes an administrator (db.py:198-235, auth.py:42).               *)
AfterStart ==
  [][\A p \in Servers :
       server[p] # "up" /\ server'[p] = "up" => Usable(Admin)' \/ p \in missed']_vars
=============================================================================
