------------------------------ MODULE ConnPool ------------------------------
(***************************************************************************)
(* The database connections of one gunicorn worker: get_db, reset_pool and *)
(* close_db of db.py, and the connection AuditService.log takes for        *)
(* itself, over a psycopg2 ThreadedConnectionPool.                         *)
(*                                                                         *)
(* Every method of the pool holds the lock of the pool and is one step;    *)
(* between two of them any other thread may take its own.  A pool that has  *)
(* been replaced is closed for good, so that all there is to know of it is  *)
(* who still refers to it.                                                 *)
(***************************************************************************)
EXTENDS Naturals, FiniteSets

CONSTANTS
  Threads,     \* the threads of the worker
  Conns,       \* connection objects, enough of them for a fresh one to be there
  MinConn,     \* minconn: how many idle connections the pool keeps
  MaxConn,     \* maxconn: how many connections it hands out
  None

VARIABLES
  up,          \* the database accepts connections
  closed,      \* _db_pool.closed
  idle,        \* _db_pool._pool
  used,        \* _db_pool._used, by connection
  state,       \* state[c]: "closed" is known to the client, "broken" is not
  lock,        \* who holds _db_pool_lock, that is, is in reset_pool
  pc,          \* pc[t]: the step thread t takes next
  stale,       \* stale[t]: the pool t has looked up has been replaced since
  attempt,     \* attempt[t]: of the three in get_db
  db,          \* db[t]: g.db, or what getconn has just returned for it
  own          \* own[t]: the connection of AuditService.log

pool == <<closed, idle, used, state>>
vars == <<up, pool, lock, pc, stale, attempt, db, own>>

ASSUME ConnPoolAssumption ==
  /\ IsFiniteSet(Threads) /\ IsFiniteSet(Conns)
  /\ MinConn \in Nat \ {0} /\ MaxConn \in Nat /\ MinConn <= MaxConn
  /\ None \notin Threads \cup Conns

Steps == {"idle", "ask", "get", "setup", "reset", "create", "use", "audit", "audit get",
          "audit use", "audit put", "teardown", "put", "put again"}

Goto(t, step) == pc' = [pc EXCEPT ![t] = step]

(* What a thread at this step is working with.  At "put again" g.db has    *)
(* been returned already.                                                  *)
InHand(t) ==
  ({db[t], own[t]} \ {None}) \ (IF pc[t] = "put again" THEN {db[t]} ELSE {})

(* Memory of a connection nobody refers to is freed, and closes it.        *)
Unused(c) == c \notin idle \cup used /\ \A t \in Threads : c \notin {db[t], own[t]}

-----------------------------------------------------------------------------
(* ThreadedConnectionPool. *)

Usable(t) == ~stale[t] /\ ~closed

Room == idle # {} \/ Cardinality(used) < MaxConn

GetConn(t, c) ==
  /\ Usable(t)
  /\ \/ c \in idle /\ idle' = idle \ {c} /\ UNCHANGED state
     \/ /\ idle = {} /\ Room /\ up /\ Unused(c)
        /\ state' = [state EXCEPT ![c] = "open"]
        /\ UNCHANGED idle
  /\ used' = used \cup {c}
  /\ UNCHANGED closed

(* getconn: "connection pool is closed", "connection pool exhausted" *)
PoolError(t) == ~(Usable(t) /\ Room)

(* getconn: OperationalError *)
ConnectFails(t) == Usable(t) /\ idle = {} /\ Room /\ ~up

(* putconn; on a closed pool, or with a connection that has no key, it      *)
(* raises PoolError and changes nothing.                                   *)
PutConn(t, c, close) ==
  IF Usable(t) /\ c \in used
    THEN /\ used' = used \ {c}
         /\ IF close \/ state[c] = "closed" \/ Cardinality(idle) >= MinConn
              THEN state' = [state EXCEPT ![c] = "closed"] /\ UNCHANGED idle
              ELSE idle' = idle \cup {c} /\ UNCHANGED state
         /\ UNCHANGED closed
    ELSE UNCHANGED pool

-----------------------------------------------------------------------------
(* get_db. *)

Begin(t) ==
  /\ pc[t] = "idle"
  /\ attempt' = [attempt EXCEPT ![t] = 1]
  /\ Goto(t, "ask")
  /\ UNCHANGED <<up, pool, lock, stale, db, own>>

(* get_pool *)
Ask(t) ==
  /\ pc[t] = "ask"
  /\ stale' = [stale EXCEPT ![t] = FALSE]
  /\ Goto(t, "get")
  /\ UNCHANGED <<up, pool, lock, attempt, db, own>>

(* PoolError is no OperationalError: get_db does not try again. *)
Get(t) ==
  /\ pc[t] = "get"
  /\ \/ \E c \in Conns : GetConn(t, c) /\ db' = [db EXCEPT ![t] = c] /\ Goto(t, "setup")
     \/ PoolError(t) /\ Goto(t, "idle") /\ UNCHANGED <<pool, db>>
     \/ ConnectFails(t) /\ Goto(t, "reset") /\ UNCHANGED <<pool, db>>
  /\ UNCHANGED <<up, lock, stale, attempt, own>>

(* slip: g.db is set before conn.autocommit *)
Setup_KeepsConn(t) ==
  /\ pc[t] = "setup"
  /\ \/ state[db[t]] # "closed" /\ Goto(t, "use")
     \/ state[db[t]] = "closed" /\ Goto(t, "reset")
  /\ UNCHANGED <<up, pool, lock, stale, attempt, db, own>>

(* conn.autocommit = False raises InterfaceError on a closed connection. *)
Setup(t) ==
  /\ pc[t] = "setup"
  /\ \/ state[db[t]] # "closed" /\ Goto(t, "use") /\ UNCHANGED db
     \/ state[db[t]] = "closed" /\ Goto(t, "reset") /\ db' = [db EXCEPT ![t] = None]
  /\ UNCHANGED <<up, pool, lock, stale, attempt, own>>

(* slip: closeall is forgotten *)
ResetCloses_KeepsOpen(t) ==
  /\ pc[t] = "reset" /\ lock = None
  /\ lock' = t
  /\ closed' = TRUE /\ idle' = {} /\ used' = {}
  /\ Goto(t, "create")
  /\ UNCHANGED <<up, state, stale, attempt, db, own>>

(* closeall; on a closed pool it raises, which is suppressed. *)
ResetCloses(t) ==
  /\ pc[t] = "reset" /\ lock = None
  /\ lock' = t
  /\ state' = [c \in Conns |-> IF c \in idle \cup used THEN "closed" ELSE state[c]]
  /\ closed' = TRUE /\ idle' = {} /\ used' = {}
  /\ Goto(t, "create")
  /\ UNCHANGED <<up, stale, attempt, db, own>>

(* _create_pool connects minconn times; when that fails reset_pool raises,  *)
(* and so does get_db, and the closed pool stays.                          *)
ResetCreates(t) ==
  /\ pc[t] = "create"
  /\ lock' = None
  /\ \/ /\ up
        /\ \E S \in SUBSET Conns :
             /\ Cardinality(S) = MinConn /\ \A c \in S : Unused(c)
             /\ idle' = S
             /\ state' = [c \in Conns |-> IF c \in S THEN "open" ELSE state[c]]
        /\ closed' = FALSE /\ used' = {}
        /\ stale' = [u \in Threads |-> TRUE]
        /\ \/ attempt[t] < 3 /\ attempt' = [attempt EXCEPT ![t] = @ + 1] /\ Goto(t, "ask")
           \/ attempt[t] = 3 /\ Goto(t, "idle") /\ UNCHANGED attempt
     \/ ~up /\ Goto(t, "idle") /\ UNCHANGED <<pool, stale, attempt>>
  /\ UNCHANGED <<up, db, own>>

-----------------------------------------------------------------------------
(* The request, and its entry in audit_log. *)

(* A query that finds the connection gone marks it closed. *)
Use(t) ==
  /\ pc[t] = "use"
  /\ \/ state[db[t]] = "open" /\ (Goto(t, "audit") \/ Goto(t, "teardown")) /\ UNCHANGED pool
     \/ /\ state[db[t]] # "open"
        /\ state' = [state EXCEPT ![db[t]] = "closed"]
        /\ Goto(t, "teardown")
        /\ UNCHANGED <<closed, idle, used>>
  /\ UNCHANGED <<up, lock, stale, attempt, db, own>>

AuditAsk(t) ==
  /\ pc[t] = "audit"
  /\ stale' = [stale EXCEPT ![t] = FALSE]
  /\ Goto(t, "audit get")
  /\ UNCHANGED <<up, pool, lock, attempt, db, own>>

(* Here every psycopg2 error, PoolError too, is logged and no more. *)
AuditGet(t) ==
  /\ pc[t] = "audit get"
  /\ \/ \E c \in Conns : GetConn(t, c) /\ own' = [own EXCEPT ![t] = c] /\ Goto(t, "audit use")
     \/ (PoolError(t) \/ ConnectFails(t)) /\ Goto(t, "teardown") /\ UNCHANGED <<pool, own>>
  /\ UNCHANGED <<up, lock, stale, attempt, db>>

AuditUse(t) ==
  /\ pc[t] = "audit use"
  /\ state' = [state EXCEPT ![own[t]] = IF @ = "open" THEN @ ELSE "closed"]
  /\ Goto(t, "audit put")
  /\ UNCHANGED <<up, closed, idle, used, lock, stale, attempt, db, own>>

(* slip: a connection that is closed is not returned *)
AuditPut_SkipsClosed(t) ==
  /\ pc[t] = "audit put"
  /\ IF state[own[t]] = "closed" THEN UNCHANGED pool ELSE PutConn(t, own[t], FALSE)
  /\ own' = [own EXCEPT ![t] = None]
  /\ Goto(t, "teardown")
  /\ UNCHANGED <<up, lock, stale, attempt, db>>

(* The finally clause; a PoolError of putconn ends the request from here,  *)
(* its teardown follows all the same.                                      *)
AuditPut(t) ==
  /\ pc[t] = "audit put"
  /\ PutConn(t, own[t], state[own[t]] = "closed")
  /\ own' = [own EXCEPT ![t] = None]
  /\ Goto(t, "teardown")
  /\ UNCHANGED <<up, lock, stale, attempt, db>>

-----------------------------------------------------------------------------
(* close_db: it takes the pool of this moment, rolls back, and returns the *)
(* connection twice.                                                       *)

Teardown(t) ==
  /\ pc[t] = "teardown"
  /\ stale' = [stale EXCEPT ![t] = FALSE]
  /\ state' = [state EXCEPT ![db[t]] = IF @ = "open" THEN @ ELSE "closed"]
  /\ Goto(t, "put")
  /\ UNCHANGED <<up, closed, idle, used, lock, attempt, db, own>>

PutFirst(t) ==
  /\ pc[t] = "put"
  /\ PutConn(t, db[t], state[db[t]] = "closed")
  /\ Goto(t, "put again")
  /\ UNCHANGED <<up, lock, stale, attempt, db, own>>

(* slip: the second call does not close *)
PutAgain_Open(t) ==
  /\ pc[t] = "put again"
  /\ PutConn(t, db[t], FALSE)
  /\ db' = [db EXCEPT ![t] = None]
  /\ Goto(t, "idle")
  /\ UNCHANGED <<up, lock, stale, attempt, own>>

(* When another thread has taken the connection in between, this call       *)
(* closes it and removes its key.                                          *)
PutAgain(t) ==
  /\ pc[t] = "put again"
  /\ PutConn(t, db[t], TRUE)
  /\ db' = [db EXCEPT ![t] = None]
  /\ Goto(t, "idle")
  /\ UNCHANGED <<up, lock, stale, attempt, own>>

-----------------------------------------------------------------------------
(* The database server. *)

DbFails ==
  /\ up /\ up' = FALSE
  /\ state' = [c \in Conns |-> IF state[c] = "open" THEN "broken" ELSE state[c]]
  /\ UNCHANGED <<closed, idle, used, lock, pc, stale, attempt, db, own>>

DbReturns == ~up /\ up' = TRUE /\ UNCHANGED <<pool, lock, pc, stale, attempt, db, own>>

(* post_fork has given the worker a pool of its own. *)
Init ==
  /\ up = TRUE /\ closed = FALSE /\ lock = None
  /\ idle \in SUBSET Conns /\ Cardinality(idle) = MinConn
  /\ used = {}
  /\ state = [c \in Conns |-> IF c \in idle THEN "open" ELSE "closed"]
  /\ pc = [t \in Threads |-> "idle"]
  /\ stale = [t \in Threads |-> TRUE]
  /\ attempt = [t \in Threads |-> 1]
  /\ db = [t \in Threads |-> None]
  /\ own = [t \in Threads |-> None]

GetDb(t)   == Begin(t) \/ Ask(t) \/ Get(t) \/ Setup(t) \/ ResetCloses(t) \/ ResetCreates(t)
Audit(t)   == AuditAsk(t) \/ AuditGet(t) \/ AuditUse(t) \/ AuditPut(t)
CloseDb(t) == Teardown(t) \/ PutFirst(t) \/ PutAgain(t)

Next ==
  \/ \E t \in Threads : GetDb(t) \/ Use(t) \/ Audit(t) \/ CloseDb(t)
  \/ DbFails \/ DbReturns

Spec == Init /\ [][Next]_vars
-----------------------------------------------------------------------------
(* Every variable has its type, and a thread at work has the connections   *)
(* its step needs.                                                         *)
TypeOK ==
  /\ up \in BOOLEAN /\ closed \in BOOLEAN
  /\ idle \in SUBSET Conns /\ used \in SUBSET Conns
  /\ state \in [Conns -> {"open", "broken", "closed"}]
  /\ lock \in Threads \cup {None}
  /\ pc \in [Threads -> Steps]
  /\ stale \in [Threads -> BOOLEAN]
  /\ attempt \in [Threads -> 1..3]
  /\ db \in [Threads -> Conns \cup {None}]
  /\ own \in [Threads -> Conns \cup {None}]
  /\ \A t \in Threads :
       /\ lock = t <=> pc[t] = "create"
       /\ db[t] # None <=> pc[t] \in Steps \ {"idle", "ask", "get", "reset", "create"}
       /\ own[t] # None <=> pc[t] \in {"audit use", "audit put"}

(* No connection is in the hands of two threads, or in those of a thread   *)
(* and on the shelf of the pool, although close_db returns every           *)
(* connection twice and others may take it in between.                     *)
Exclusive ==
  \A t \in Threads :
    /\ InHand(t) \cap idle = {}
    /\ own[t] # None => own[t] # db[t]
    /\ \A u \in Threads \ {t} : InHand(t) \cap InHand(u) = {}

(* Whatever fails, nothing leaks: every key the pool has given away belongs *)
(* to a thread that still works with the connection, and no connection     *)
(* stays open that the pool does not count.                                *)
NothingLeaks ==
  /\ ~closed => \A c \in used : \E t \in Threads : c \in InHand(t)
  /\ \A t \in Threads : \A c \in InHand(t) : state[c] # "closed" => c \in used

(* With two connections per thread, one for the request and one for its    *)
(* audit entry, a pool of maxconn connections is never exhausted.          *)
RoomForEveryone ==
  2 * Cardinality(Threads) <= MaxConn =>
    \A t \in Threads : pc[t] \in {"get", "audit get"} /\ Usable(t) => Room

=============================================================================
