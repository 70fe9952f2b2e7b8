----------------------------- MODULE SyncQueue -----------------------------
(***************************************************************************)
(* The forms of the logbook, submitForm of app.js, and the queue of        *)
(* IndexedDB in which they wait when the browser is offline, until the     *)
(* 'sync' event lets flushQueue of sw.js post them.                        *)
(*                                                                         *)
(* An item keeps the CSRF token of the page it was filled in on; it is     *)
(* posted with whatever session the browser has by then.  The page may be  *)
(* left, and the service worker stopped, at every await; a request they    *)
(* have sent goes on without them.                                         *)
(***************************************************************************)
EXTENDS Naturals, Sequences, FiniteSets

CONSTANTS
  Entries,      \* what is to be recorded, one form each
  Users,
  None,
  MaxLogins,    \* bound: logins, each with a token of its own
  MaxItems,     \* bound: items ever queued
  MaxTroubles   \* bound: failures of the network, the server and the browser

VARIABLES
  online,       \* navigator.onLine
  session,      \* the session of the browser: its user, token and whether it is too old
  logins,       \* logins[t]: the user who got token t
  page,         \* the token in the loaded page
  cached,       \* the tokens in pages of the service worker's cache
  form,         \* submitForm under way: its entry, token and step
  told,         \* told[e]: the last toast about the form of e
  queue,        \* 'sync-queue'
  added,        \* how many items were ever added to it
  sync,         \* the registration of 'sync-logbook-entries'
  worker,       \* flushQueue: its step, items to do, current item, allSuccess
  synced,       \* the entries SYNC_SUCCESS was about
  refused,      \* the entries whose item was deleted unsaved
  flights,      \* requests under way, by the page, the worker or nobody any more
  rows,         \* rows[e]: the added_by of each row of e
  unsure,       \* unsure[e]: how often a row of e was or may yet be saved unknown
  troubles      \* counts for MaxTroubles

net    == <<online, session, logins>>
pages  == <<page, cached, form, told>>
store  == <<queue, added>>
sw     == <<sync, worker, synced, refused>>
server == <<flights, rows>>
counts == <<unsure, troubles>>
vars   == <<net, pages, store, sw, server, counts>>

Tokens  == 1..MaxLogins
Session == [old : BOOLEAN, token : Tokens, user : Users]
Item    == [token : Tokens, entry : Entries, id : 1..MaxItems]
Form    == [token : Tokens, entry : Entries, step : {"adding", "registering", "posting"}]
Answers == {"saved", "refused", "forbidden", "login"}
Flight  == [token : Tokens, entry : Entries, by : {"page", "worker", "nobody"},
            state : {"sent"} \cup Answers]
Worker  == [step : {"idle", "opening", "looping", "fetching", "deleting"}, allSuccess : BOOLEAN,
            item : Item \cup {None}, todo : SUBSET Item]

ASSUME SyncQueueAssumption ==
  /\ {MaxLogins, MaxItems, MaxTroubles} \subseteq Nat
  /\ None \notin Entries \cup Users \cup Nat \cup Session \cup Item \cup Form

Idle == [step |-> "idle", allSuccess |-> TRUE, item |-> None, todo |-> {}]

Trouble == troubles < MaxTroubles /\ troubles' = troubles + 1

Waiting(e) == \E i \in queue : i.entry = e

Sent(by) == {f \in flights : f.by = by}

Post(by, entry, token) ==
  flights' = flights \cup {[token |-> token, entry |-> entry, by |-> by, state |-> "sent"]}

(* The sender forgets its request; one the server has not handled yet may   *)
(* still reach it.  Nor does a page tell of the item it has just added.    *)
Untold(e) == form # None /\ form.entry = e /\ form.step = "registering"

Abandon(by) ==
  \E late \in BOOLEAN :
    LET lost   == {f \in Sent(by) : f.state = "saved" \/ (late /\ f.state = "sent")}
        strays == {[f EXCEPT !.by = "nobody"] : f \in {f \in lost : f.state = "sent"}}
    IN  /\ flights' = (flights \ Sent(by)) \cup strays
        /\ unsure' = [e \in Entries |->
                        IF (\E f \in lost : f.entry = e) \/ (by = "page" /\ Untold(e))
                          THEN unsure[e] + 1 ELSE unsure[e]]

-----------------------------------------------------------------------------
(* The browser's connection and session. *)

Connection ==
  /\ online' = ~online
  /\ UNCHANGED <<session, logins, pages, store, sw, server, counts>>

(* A login makes a token of its own. *)
Login(u) ==
  /\ online /\ session = None /\ Len(logins) < MaxLogins
  /\ logins' = Append(logins, u)
  /\ session' = [old |-> FALSE, token |-> Len(logins) + 1, user |-> u]
  /\ UNCHANGED <<online, pages, store, sw, server, counts>>

Logout ==
  /\ online /\ session # None
  /\ session' = None
  /\ UNCHANGED <<online, logins, pages, store, sw, server, counts>>

SessionAges ==
  /\ session # None /\ ~session.old
  /\ session' = [session EXCEPT !.old = TRUE]
  /\ UNCHANGED <<online, logins, pages, store, sw, server, counts>>

(* A page is loaded from the server, or else from the cache, where pages    *)
(* of other logins may be left.  A form under way is given up.             *)
LoadPage ==
  /\ \/ /\ online /\ session # None /\ ~session.old
        /\ page' = session.token /\ cached' = cached \cup {session.token}
     \/ /\ ~online
        /\ page' \in cached /\ cached' = cached
  /\ \/ form = None /\ UNCHANGED troubles
     \/ form # None /\ Trouble
  /\ form' = None
  /\ Abandon("page")
  /\ UNCHANGED <<net, told, store, sw, rows>>

-----------------------------------------------------------------------------
(* submitForm. *)

Submit(e) ==
  /\ page # None /\ form = None
  /\ told[e] \in {"nothing", "failed"}
  /\ form' = [token |-> page, entry |-> e, step |-> IF online THEN "posting" ELSE "adding"]
  /\ IF online THEN Post("page", e, page) ELSE UNCHANGED flights
  /\ UNCHANGED <<net, page, cached, told, store, sw, rows, counts>>

Toast(text) ==
  /\ told' = [told EXCEPT ![form.entry] = text]
  /\ form' = None
  /\ UNCHANGED <<page, cached>>

AddToQueue ==
  /\ form # None /\ form.step = "adding" /\ added < MaxItems
  /\ added' = added + 1
  /\ queue' = queue \cup {[token |-> form.token, entry |-> form.entry, id |-> added + 1]}
  /\ form' = [form EXCEPT !.step = "registering"]
  /\ UNCHANGED <<net, page, cached, told, sw, server, counts>>

(* While the event is handled, it is registered for another time. *)
Register ==
  /\ form # None /\ form.step = "registering"
  /\ sync' = IF sync \in {"firing", "again"} THEN "again" ELSE "pending"
  /\ Toast("queued")
  /\ UNCHANGED <<net, store, worker, synced, refused, server, counts>>

(* Neither IndexedDB nor the registration undoes the other; the user, told  *)
(* that it failed, may submit the same form again.                         *)
QueueingFails ==
  /\ form # None /\ form.step \in {"adding", "registering"} /\ Trouble
  /\ Abandon("page")
  /\ Toast("failed")
  /\ UNCHANGED <<net, store, sw, rows>>

(* slip: the body of the answer is not looked at *)
PostAnswered_AnyBody ==
  \E f \in Sent("page") :
    /\ f.state # "sent"
    /\ flights' = flights \ {f}
    /\ Toast(IF f.state \in {"saved", "login"} THEN "saved" ELSE "failed")
    /\ UNCHANGED <<net, store, sw, rows, counts>>

(* The login page, fetched with status 200, is no JSON with success.        *)
PostAnswered ==
  \E f \in Sent("page") :
    /\ f.state # "sent"
    /\ flights' = flights \ {f}
    /\ Toast(IF f.state = "saved" THEN "saved" ELSE "failed")
    /\ UNCHANGED <<net, store, sw, rows, counts>>

(* The network fails, or the 15 seconds are over. *)
PostFails ==
  /\ Sent("page") # {} /\ Trouble
  /\ Abandon("page")
  /\ Toast("failed")
  /\ UNCHANGED <<net, store, sw, rows>>

-----------------------------------------------------------------------------
(* The server: csrf_protect, login_required and the handlers of /api.       *)

Answer(f, state) ==
  flights' = (flights \ {f}) \cup
               (IF f.by = "nobody" THEN {} ELSE {[f EXCEPT !.state = state]})

(* The age of the session comes first; one that is too old is cleared, and  *)
(* the redirect ends at the login page.                                    *)
RedirectsToLogin(f) ==
  /\ session # None /\ session.old
  /\ session' = None
  /\ Answer(f, "login")
  /\ UNCHANGED <<rows, troubles>>

FailsCsrf(f) ==
  /\ ~(session # None /\ (session.old \/ session.token = f.token))
  /\ Answer(f, "forbidden")
  /\ UNCHANGED <<session, rows, troubles>>

(* slip: /api does not ask for the token *)
Saves_AnyToken(f) ==
  /\ session # None /\ ~session.old
  /\ rows' = [rows EXCEPT ![f.entry] = Append(@, session.user)]
  /\ Answer(f, "saved")
  /\ UNCHANGED <<session, troubles>>

Saves(f) ==
  /\ session # None /\ ~session.old /\ session.token = f.token
  /\ rows' = [rows EXCEPT ![f.entry] = Append(@, session.user)]
  /\ Answer(f, "saved")
  /\ UNCHANGED <<session, troubles>>

(* Validation, rate limit, database: 400, 404, 429 or 500. *)
Refuses(f) ==
  /\ session # None /\ ~session.old /\ session.token = f.token
  /\ Trouble
  /\ Answer(f, "refused")
  /\ UNCHANGED <<session, rows>>

(* The row is committed, but the reply to the commit is lost, or            *)
(* AuditService.log raises after it: 500 all the same.  (To one that nobody *)
(* waits for, it makes no difference: see Saves.)                          *)
FailsLate(f) ==
  /\ f.by # "nobody"
  /\ session # None /\ ~session.old /\ session.token = f.token
  /\ Trouble
  /\ rows' = [rows EXCEPT ![f.entry] = Append(@, session.user)]
  /\ unsure' = [unsure EXCEPT ![f.entry] = @ + 1]
  /\ Answer(f, "refused")
  /\ UNCHANGED session

Serve ==
  /\ \E f \in flights :
       /\ f.state = "sent"
       /\ \/ RedirectsToLogin(f) /\ UNCHANGED unsure
          \/ FailsCsrf(f) /\ UNCHANGED unsure
          \/ Saves(f) /\ UNCHANGED unsure
          \/ Refuses(f) /\ UNCHANGED unsure
          \/ FailsLate(f)
  /\ UNCHANGED <<online, logins, pages, store, sw>>

-----------------------------------------------------------------------------
(* flushQueue. *)

Fire ==
  /\ sync = "pending" /\ online
  /\ sync' = "firing"
  /\ worker' = [Idle EXCEPT !.step = "opening"]
  /\ UNCHANGED <<net, pages, store, synced, refused, server, counts>>

GetAll ==
  /\ worker.step = "opening"
  /\ worker' = [worker EXCEPT !.step = "looping", !.todo = queue]
  /\ UNCHANGED <<net, pages, store, sync, synced, refused, server, counts>>

(* The order of the items is left open. *)
Fetch ==
  /\ worker.step = "looping"
  /\ \E i \in worker.todo :
       /\ worker' = [worker EXCEPT !.step = "fetching", !.item = i, !.todo = @ \ {i}]
       /\ Post("worker", i.entry, i.token)
  /\ UNCHANGED <<net, pages, store, sync, synced, refused, rows, counts>>

NextItem(success) ==
  worker' = [worker EXCEPT !.step = "looping", !.item = None, !.allSuccess = @ /\ success]

(* slip: the item goes whatever the answer is *)
Keeps_Nothing(f) == FALSE

(* Neither response.ok nor 401 or 403: the item stays for the next time. *)
Keeps(f) == f.state = "refused"

(* slip: the loop forgets that it kept an item *)
ItemStays_Forgotten ==
  \E f \in Sent("worker") :
    /\ Keeps(f)
    /\ flights' = flights \ {f}
    /\ NextItem(TRUE)
    /\ UNCHANGED <<net, pages, store, sync, synced, refused, rows, counts>>

ItemStays ==
  \E f \in Sent("worker") :
    /\ Keeps(f)
    /\ flights' = flights \ {f}
    /\ NextItem(FALSE)
    /\ UNCHANGED <<net, pages, store, sync, synced, refused, rows, counts>>

FetchFails ==
  /\ Sent("worker") # {} /\ Trouble
  /\ Abandon("worker")
  /\ NextItem(FALSE)
  /\ UNCHANGED <<net, pages, store, sync, synced, refused, rows>>

FetchAnswered ==
  \E f \in Sent("worker") :
    /\ f.state # "sent" /\ ~Keeps(f)
    /\ worker' = [worker EXCEPT !.step = "deleting"]
    /\ UNCHANGED <<net, pages, store, sync, synced, refused, server, counts>>

(* slip: the transaction that deletes is readonly *)
DeleteItem_ReadOnly ==
  \E f \in Sent("worker") :
    /\ worker.step = "deleting"
    /\ flights' = flights \ {f}
    /\ NextItem(FALSE)
    /\ UNCHANGED <<net, pages, store, sync, synced, refused, rows, counts>>

(* The item goes, and a message to the pages tells that it was synchronised *)
(* or, with status 403, that the session has expired.                      *)
DeleteItem ==
  \E f \in Sent("worker") :
    /\ worker.step = "deleting"
    /\ queue' = queue \ {worker.item}
    /\ flights' = flights \ {f}
    /\ synced' = IF f.state \in {"saved", "login"} THEN synced \cup {f.entry} ELSE synced
    /\ refused' = IF f.state \in {"forbidden", "login"} THEN refused \cup {f.entry} ELSE refused
    /\ NextItem(TRUE)
    /\ UNCHANGED <<net, pages, added, sync, rows, counts>>

DeleteFails ==
  /\ worker.step = "deleting" /\ Trouble
  /\ Abandon("worker")
  /\ NextItem(FALSE)
  /\ UNCHANGED <<net, pages, store, sync, synced, refused, rows>>

(* slip: the flush is not over *)
Over_Never(success) ==
  /\ sync' \in IF sync = "again" THEN {"pending"}
               ELSE IF success THEN {"none"} ELSE {"pending", "given up"}
  /\ worker' = worker

(* The event is fired again after a failure, until the browser gives up. *)
Over(success) ==
  /\ sync' \in IF sync = "again" THEN {"pending"}
               ELSE IF success THEN {"none"} ELSE {"pending", "given up"}
  /\ worker' = Idle

FlushEnds ==
  /\ worker.step = "looping" /\ worker.todo = {}
  /\ Over(worker.allSuccess)
  /\ UNCHANGED <<net, pages, store, synced, refused, server, counts>>

(* The browser stops the service worker. *)
WorkerStops ==
  /\ worker.step # "idle" /\ Trouble
  /\ Abandon("worker")
  /\ Over(FALSE)
  /\ UNCHANGED <<net, pages, store, synced, refused, rows>>

-----------------------------------------------------------------------------
Init ==
  /\ online = TRUE /\ session = None /\ logins = <<>>
  /\ page = None /\ cached = {} /\ form = None
  /\ told = [e \in Entries |-> "nothing"]
  /\ queue = {} /\ added = 0 /\ sync = "none" /\ worker = Idle
  /\ synced = {} /\ refused = {}
  /\ flights = {} /\ rows = [e \in Entries |-> <<>>]
  /\ unsure = [e \in Entries |-> 0] /\ troubles = 0

Browser == Connection \/ (\E u \in Users : Login(u)) \/ Logout \/ SessionAges \/ LoadPage

SubmitForm ==
  \/ \E e \in Entries : Submit(e)
  \/ AddToQueue \/ Register \/ QueueingFails \/ PostAnswered \/ PostFails

FlushQueue ==
  \/ Fire \/ GetAll \/ Fetch \/ ItemStays \/ FetchFails \/ FetchAnswered
  \/ DeleteItem \/ DeleteFails \/ FlushEnds \/ WorkerStops

Next == Browser \/ SubmitForm \/ Serve \/ FlushQueue

Spec == Init /\ [][Next]_vars
-----------------------------------------------------------------------------
(* Every variable has its type; a request of the page belongs to the form   *)
(* under way, one of the worker to its current item.                       *)
TypeOK ==
  /\ online \in BOOLEAN
  /\ session \in Session \cup {None}
  /\ logins \in Seq(Users) /\ Len(logins) <= MaxLogins
  /\ page \in Tokens \cup {None}
  /\ cached \subseteq Tokens
  /\ form \in Form \cup {None}
  /\ told \in [Entries -> {"nothing", "failed", "queued", "saved"}]
  /\ queue \subseteq Item
  /\ added \in 0..MaxItems
  /\ sync \in {"none", "pending", "firing", "again", "given up"}
  /\ worker \in Worker
  /\ synced \subseteq Entries /\ refused \subseteq Entries
  /\ flights \subseteq Flight
  /\ rows \in [Entries -> Seq(Users)]
  /\ unsure \in [Entries -> Nat]
  /\ troubles \in 0..MaxTroubles
  /\ {f.entry : f \in Sent("page")} =
       IF form # None /\ form.step = "posting" THEN {form.entry} ELSE {}
  /\ {f.entry : f \in Sent("worker")} =
       IF worker.step \in {"fetching", "deleting"} THEN {worker.item.entry} ELSE {}
  /\ worker.step = "idle" <=> sync \notin {"firing", "again"}

(* What the user was told stays true.  A form said to wait in the queue is  *)
(* still there, or was saved, or an answer of the server, 403 or the login *)
(* page, has ended its wait: nothing else takes it out, and no failure     *)
(* does (sw.js:117).  One said to be saved is saved (app.js:184-187).      *)
TruthTold ==
  \A e \in Entries :
    /\ told[e] = "queued" => Waiting(e) \/ rows[e] # <<>> \/ e \in refused
    /\ told[e] = "saved" => rows[e] # <<>>

(* "Wpis zsynchronizuje się automatycznie": as long as it waits, the event  *)
(* that will post it is registered, or being handled by a flush which will *)
(* come to it or will fail and be repeated; the browser itself may give up *)
(* (app.js:151-154, sw.js:82-145).                                         *)
Expected(i) ==
  \/ sync \in {"pending", "again", "given up"}
  \/ sync = "firing" /\ (worker.step = "opening" \/ i \in worker.todo \cup {worker.item}
                          \/ ~worker.allSuccess)

NeverStranded == \A i \in queue : told[i.entry] = "queued" => Expected(i)

(* A row beyond the first is paid for by a request whose answer the browser *)
(* never learned, or whose answer was an error after the commit            *)
(* (api.py:106), or by a form queued while its user was told it failed.    *)
SavedOnce == \A e \in Entries : Len(rows[e]) <= 1 + unsure[e]

(* An entry goes under the name of the login whose page it was filled in    *)
(* on, also if somebody else is logged in when it is posted at last        *)
(* (app_setup.py:62-78, auth.py:57).                                       *)
UnderOwnName ==
  [][\A e \in Entries :
       rows'[e] # rows[e] =>
         \E f \in flights : f.entry = e /\ rows'[e] = Append(rows[e], logins[f.token])]_vars

(* "Zsynchronizowano zaległy wpis z bazy offline." (sw.js:124) *)
SyncedIsSaved == \A e \in Entries : e \in synced => rows[e] # <<>>
=============================================================================
