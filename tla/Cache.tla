------------------------------- MODULE Cache -------------------------------
(***************************************************************************)
(* The cache between the pages and the database: RedisCache with its       *)
(* fallback to the memory of each worker, get_or_set, the cached functions  *)
(* of the dashboard repository behind the cached dashboard, and the        *)
(* invalidations the writers send after their commit.                      *)
(*                                                                         *)
(* A version of the database is the number of writes committed so far; a    *)
(* cached value is the version its loader read.  Between a miss, the       *)
(* loader's SELECT and the store, and between a commit and each            *)
(* invalidation, every other thread may take its steps.                    *)
(***************************************************************************)
EXTENDS Integers, Sequences, FiniteSets

CONSTANTS
  Workers,     \* gunicorn worker processes, each with a memory of its own
  PerWorker,   \* threads of a worker
  Vehicles,    \* a vehicle stands for its key 'api:last_km:<id>' too
  None,
  SnapshotTtl, \* 'dashboard:snapshot:v1': 20 s
  CardsTtl,    \* the functions of the dashboard repository: up to 300 s
  LastKmTtl,   \* 30 s
  ListTtl,     \* 'vehicles:all' and 'api:drivers:90d': 300 s
  Slow,        \* how long a request may hold a value it has read
  MaxSize,     \* _MAX_SIZE, entries in the memory of a worker
  Outages,     \* whether Redis may go away, workers be restarted, replies be lost
  Horizon,     \* bound: the time at which a run ends
  MaxCommits   \* bound: the number of writes

VARIABLES
  now,         \* the clock
  log,         \* the committed writes, oldest first
  up,          \* Redis answers
  shared,      \* shared[k]: the entry of Redis
  memory,      \* memory[w][k]: the entry in _in_memory of worker w
  pc,          \* pc[t]: the step thread t takes next
  task,        \* task[t]: its local variables
  answer       \* answer[t]: the key and the version it answers a page with

vars == <<now, log, up, shared, memory, pc, task, answer>>

Threads == Workers \X (1..PerWorker)
WorkerOf(t) == t[1]

Pages == Vehicles \cup {"snapshot", "vehicles", "drivers"}
Keys  == Pages \cup {"cards"}

(* What a write is about: the entries of a vehicle, or the vehicles.       *)
Facts == Vehicles \cup {"fleet"}

Ttl(k) ==
  CASE k = "snapshot" -> SnapshotTtl
    [] k = "cards"    -> CardsTtl
    [] k \in Vehicles -> LastKmTtl
    [] OTHER          -> ListTtl

Steps == {"idle", "get", "touch", "drop", "load", "set", "settle", "commit",
          "invalidate", "done", "failed"}

Task == [asked : Pages \cup {None}, key : Keys \cup {None}, seen : 0..MaxCommits,
         since : Nat, about : SUBSET Facts, todo : Seq(Keys), commit : 0..MaxCommits]

(* An entry: the version read, when it expires, and how many writes were   *)
(* committed when it was stored (for the properties only).                 *)
Item == [seen : 0..MaxCommits, expires : Nat, stored : 0..MaxCommits]

(* A write: what it is about and the keys its handler invalidates.         *)
Changes == [about : SUBSET Facts, drops : SUBSET Keys]

Listed(todo) == {todo[i] : i \in 1..Len(todo)}

Idle == [asked |-> None, key |-> None, seen |-> 0, since |-> 0,
         about |-> {}, todo |-> <<>>, commit |-> 0]

ASSUME CacheAssumption ==
  /\ {SnapshotTtl, CardsTtl, LastKmTtl, ListTtl} \subseteq Nat \ {0}
  /\ {Slow, MaxSize, Horizon, MaxCommits} \subseteq Nat
  /\ Outages \in BOOLEAN
  /\ Vehicles \cap {"snapshot", "cards", "vehicles", "drivers", "fleet"} = {}
  /\ None \notin Keys \cup Item

Live(item) == item # None /\ item.expires > now

-----------------------------------------------------------------------------
(* Helpers that move a thread. *)

Goto(t, step) == pc' = [pc EXCEPT ![t] = step]

Done(t) == Goto(t, "done") /\ UNCHANGED answer

Respond(t, seen) ==
  /\ Goto(t, "done")
  /\ answer' = [answer EXCEPT ![t] = [key |-> task[t].asked, seen |-> seen]]

(* slip: the part which the loader asked for is answered as the page *)
HaveValue_Part(t, seen, since) ==
  /\ Goto(t, "done")
  /\ answer' = [answer EXCEPT ![t] = [key |-> task[t].key, seen |-> seen]]
  /\ UNCHANGED task

(* get_or_set has its value: that of the page, or the part of the          *)
(* dashboard which the loader of the snapshot then returns.                *)
HaveValue(t, seen, since) ==
  IF task[t].key = task[t].asked
    THEN Respond(t, seen) /\ UNCHANGED task
    ELSE /\ Goto(t, "set")
         /\ task' = [task EXCEPT ![t].key = task[t].asked,
                                 ![t].seen = seen, ![t].since = since]
         /\ UNCHANGED answer

(* cache.get returned None: run the loader.  That of the snapshot asks the *)
(* cached functions of the repository.                                     *)
Miss(t) ==
  /\ IF task[t].key = "snapshot"
       THEN /\ task' = [task EXCEPT ![t].key = "cards"]
            /\ Goto(t, "get")
       ELSE Goto(t, "load") /\ UNCHANGED task
  /\ UNCHANGED answer

Put(store, k, item) == [store EXCEPT ![k] = item]

NewItem(t) ==
  [seen |-> task[t].seen, expires |-> now + Ttl(task[t].key), stored |-> Len(log)]

-----------------------------------------------------------------------------
(* Reading through the cache. *)

AskFor(t, k) ==
  /\ pc[t] = "idle"
  /\ task' = [task EXCEPT ![t] = [Idle EXCEPT !.asked = k, !.key = k]]
  /\ Goto(t, "get")
  /\ UNCHANGED <<now, log, up, shared, memory, answer>>

(* slip: a hit renews the TTL *)
GetRedis_Sliding(t) ==
  /\ pc[t] = "get" /\ up
  /\ LET k == task[t].key IN
       IF Live(shared[k])
         THEN /\ shared' = [shared EXCEPT ![k].expires = now + Ttl(k)]
              /\ HaveValue(t, shared[k].seen, now)
         ELSE Miss(t) /\ UNCHANGED shared
  /\ UNCHANGED <<now, log, up, memory>>

GetRedis(t) ==
  /\ pc[t] = "get" /\ up
  /\ LET item == shared[task[t].key] IN
       IF Live(item) THEN HaveValue(t, item.seen, now) ELSE Miss(t)
  /\ UNCHANGED <<now, log, up, shared, memory>>

(* slip: whether the entry has expired is not looked at *)
GetMemory_Expired(t) ==
  /\ pc[t] = "get" /\ ~up
  /\ LET item == memory[WorkerOf(t)][task[t].key] IN
       IF item # None
         THEN /\ Goto(t, "touch")
              /\ task' = [task EXCEPT ![t].seen = item.seen, ![t].since = now]
              /\ UNCHANGED answer
         ELSE Miss(t)
  /\ UNCHANGED <<now, log, up, shared, memory>>

(* A live entry is moved to the end next, an expired one popped.           *)
GetMemory(t) ==
  /\ pc[t] = "get" /\ ~up
  /\ LET item == memory[WorkerOf(t)][task[t].key] IN
       \/ /\ Live(item)
          /\ Goto(t, "touch")
          /\ task' = [task EXCEPT ![t].seen = item.seen, ![t].since = now]
          /\ UNCHANGED answer
       \/ item # None /\ ~Live(item) /\ Goto(t, "drop") /\ UNCHANGED <<task, answer>>
       \/ item = None /\ Miss(t)
  /\ UNCHANGED <<now, log, up, shared, memory>>

(* By now the entry under the key may be another one, and fresh.           *)
Drop(t) ==
  /\ pc[t] = "drop"
  /\ memory' = [memory EXCEPT ![WorkerOf(t)] = Put(@, task[t].key, None)]
  /\ Miss(t)
  /\ UNCHANGED <<now, log, up, shared>>

(* move_to_end raises KeyError when another thread has removed the entry.  *)
Touch(t) ==
  /\ pc[t] = "touch"
  /\ IF memory[WorkerOf(t)][task[t].key] = None
       THEN Goto(t, "failed") /\ UNCHANGED <<task, answer>>
       ELSE HaveValue(t, task[t].seen, task[t].since)
  /\ UNCHANGED <<now, log, up, shared, memory>>

Load(t) ==
  /\ pc[t] = "load"
  /\ \/ /\ task' = [task EXCEPT ![t].seen = Len(log), ![t].since = now]
        /\ Goto(t, "set")
     \/ Goto(t, "failed") /\ UNCHANGED task
  /\ UNCHANGED <<now, log, up, shared, memory, answer>>

SetRedis(t) ==
  /\ pc[t] = "set" /\ up
  /\ shared' = Put(shared, task[t].key, NewItem(t))
  /\ HaveValue(t, task[t].seen, task[t].since)
  /\ UNCHANGED <<now, log, up, memory>>

SetMemory(t) ==
  /\ pc[t] = "set" /\ ~up
  /\ memory' = [memory EXCEPT ![WorkerOf(t)] = Put(@, task[t].key, NewItem(t))]
  /\ Goto(t, "settle")
  /\ UNCHANGED <<now, log, up, shared, task, answer>>

Cached(w) == {k \in Keys : memory[w][k] # None}

(* slip: nothing is evicted *)
Settle_KeepAll(t) ==
  /\ pc[t] = "settle"
  /\ memory[WorkerOf(t)][task[t].key] # None
  /\ HaveValue(t, task[t].seen, task[t].since)
  /\ UNCHANGED <<now, log, up, shared, memory>>

(* move_to_end again, then the oldest entries go.  Which are the oldest is  *)
(* left open, but the entry just moved is not among them.                  *)
Settle(t) ==
  LET w == WorkerOf(t)
      k == task[t].key
  IN /\ pc[t] = "settle"
     /\ IF memory[w][k] = None
          THEN Goto(t, "failed") /\ UNCHANGED <<task, answer, memory>>
          ELSE /\ \E gone \in SUBSET (Cached(w) \ {k}) :
                    /\ \/ gone = {} /\ Cardinality(Cached(w)) <= MaxSize
                       \/ Cardinality(Cached(w) \ gone) = MaxSize
                    /\ memory' = [memory EXCEPT ![w] =
                                    [x \in Keys |-> IF x \in gone THEN None ELSE @[x]]]
               /\ HaveValue(t, task[t].seen, task[t].since)
     /\ UNCHANGED <<now, log, up, shared>>

-----------------------------------------------------------------------------
(* Writing. *)

Begin(t, about, todo) ==
  /\ pc[t] = "idle"
  /\ task' = [task EXCEPT ![t] = [Idle EXCEPT !.about = about, !.todo = todo]]
  /\ Goto(t, "commit")
  /\ UNCHANGED <<now, log, up, shared, memory, answer>>

(* A trip, refuelling or service entry added, edited or deleted. *)
SaveEntry(t) == \E v \in Vehicles : Begin(t, {v}, <<"snapshot", v>>)

(* An edit that moves the entry from v to another vehicle names only that. *)
MoveEntry(t) ==
  \E v, to \in Vehicles : v # to /\ Begin(t, {v, to}, <<"snapshot", to>>)

(* The legacy delete invalidates nothing, nor does create_next. *)
PurgeEntry(t) == \E v \in Vehicles : Begin(t, {v}, <<>>)

SaveVehicle(t) == Begin(t, {"fleet"}, <<"vehicles", "snapshot">>)

(* When the reply to COMMIT is lost, the handler ends with an error and     *)
(* without its invalidations.                                              *)
Commit(t) ==
  /\ pc[t] = "commit"
  /\ \/ /\ Len(log) < MaxCommits
        /\ log' = Append(log, [at |-> now,
                               change |-> [about |-> task[t].about,
                                           drops |-> Listed(task[t].todo)]])
        /\ task' = [task EXCEPT ![t].commit = Len(log) + 1]
        /\ Goto(t, "invalidate") \/ (Outages /\ Goto(t, "failed"))
     \/ Goto(t, "failed") /\ UNCHANGED <<log, task>>
  /\ UNCHANGED <<now, up, shared, memory, answer>>

(* slip: the sweep goes to the memory even when Redis is there *)
InvalidatePrefix_Memory(t) ==
  /\ pc[t] = "invalidate" /\ task[t].todo # <<>>
  /\ memory' = [memory EXCEPT ![WorkerOf(t)] = Put(@, Head(task[t].todo), None)]
  /\ task' = [task EXCEPT ![t].todo = Tail(@)]
  /\ UNCHANGED <<now, log, up, shared, pc, answer>>

(* invalidate_prefix; a prefix names one key here.  Without Redis it       *)
(* reaches the memory of its own worker only.                              *)
InvalidatePrefix(t) ==
  /\ pc[t] = "invalidate" /\ task[t].todo # <<>>
  /\ LET k == Head(task[t].todo) IN
       IF up THEN shared' = Put(shared, k, None) /\ UNCHANGED memory
             ELSE /\ memory' = [memory EXCEPT ![WorkerOf(t)] = Put(@, k, None)]
                  /\ UNCHANGED shared
  /\ task' = [task EXCEPT ![t].todo = Tail(@)]
  /\ UNCHANGED <<now, log, up, pc, answer>>

(* The sweep of the memory raises when another thread changes the          *)
(* dictionary under it; the repositories swallow that, the vehicle routes  *)
(* do not.  The keys that are left stay cached.                            *)
SweepFails(t) ==
  /\ pc[t] = "invalidate" /\ task[t].todo # <<>> /\ ~up
  /\ \E u \in Threads \ {t} :
       WorkerOf(u) = WorkerOf(t) /\ pc[u] \in {"touch", "drop", "set", "settle", "invalidate"}
  /\ Goto(t, IF "fleet" \in task[t].about THEN "failed" ELSE "done")
  /\ UNCHANGED <<now, log, up, shared, memory, task, answer>>

Written(t) ==
  /\ pc[t] = "invalidate" /\ task[t].todo = <<>>
  /\ Done(t)
  /\ UNCHANGED <<now, log, up, shared, memory, task>>

-----------------------------------------------------------------------------
(* The surroundings. *)

Reply(t) ==
  /\ pc[t] \in {"done", "failed"}
  /\ Goto(t, "idle")
  /\ task' = [task EXCEPT ![t] = Idle]
  /\ answer' = [answer EXCEPT ![t] = None]
  /\ UNCHANGED <<now, log, up, shared, memory>>

RedisFails   == Outages /\ up /\ up' = FALSE /\ UNCHANGED <<now, log, shared, memory, pc, task, answer>>
RedisReturns == Outages /\ ~up /\ up' = TRUE /\ UNCHANGED <<now, log, shared, memory, pc, task, answer>>

(* A worker dies, or is recycled; its requests and its memory are gone.    *)
Restart(w) ==
  /\ Outages
  /\ memory' = [memory EXCEPT ![w] = [k \in Keys |-> None]]
  /\ pc' = [t \in Threads |-> IF WorkerOf(t) = w THEN "idle" ELSE pc[t]]
  /\ task' = [t \in Threads |-> IF WorkerOf(t) = w THEN Idle ELSE task[t]]
  /\ answer' = [t \in Threads |-> IF WorkerOf(t) = w THEN None ELSE answer[t]]
  /\ UNCHANGED <<now, log, up, shared>>

(* Time passes, but no request sits on a value for more than Slow.  Redis   *)
(* drops what has expired, the memory of a worker when it is next looked up. *)
Tick ==
  /\ now < Horizon
  /\ \A t \in Threads : pc[t] \in {"touch", "set", "settle"} => now < task[t].since + Slow
  /\ now' = now + 1
  /\ shared' = [k \in Keys |-> IF shared[k] # None /\ shared[k].expires <= now + 1
                                THEN None ELSE shared[k]]
  /\ UNCHANGED <<log, up, memory, pc, task, answer>>

Init ==
  /\ now = 0
  /\ log = <<>>
  /\ up \in BOOLEAN
  /\ shared = [k \in Keys |-> None]
  /\ memory = [w \in Workers |-> [k \in Keys |-> None]]
  /\ pc = [t \in Threads |-> "idle"]
  /\ task = [t \in Threads |-> Idle]
  /\ answer = [t \in Threads |-> None]

Read(t)  == (\E k \in Pages : AskFor(t, k)) \/ GetRedis(t) \/ GetMemory(t) \/ Touch(t) \/ Drop(t)
              \/ Load(t) \/ SetRedis(t) \/ SetMemory(t) \/ Settle(t)
Change(t) == SaveEntry(t) \/ MoveEntry(t) \/ PurgeEntry(t) \/ SaveVehicle(t) \/ Commit(t)
              \/ InvalidatePrefix(t) \/ SweepFails(t) \/ Written(t)

Next ==
  \/ \E t \in Threads : Read(t) \/ Change(t) \/ Reply(t)
  \/ RedisFails \/ RedisReturns \/ Tick
  \/ \E w \in Workers : Restart(w)

Spec == Init /\ [][Next]_vars
-----------------------------------------------------------------------------
(* Every variable has its type; versions and times stay within the bounds. *)
TypeOK ==
  /\ now \in 0..Horizon
  /\ log \in Seq([at : 0..Horizon, change : Changes]) /\ Len(log) <= MaxCommits
  /\ up \in BOOLEAN
  /\ shared \in [Keys -> Item \cup {None}]
  /\ memory \in [Workers -> [Keys -> Item \cup {None}]]
  /\ pc \in [Threads -> Steps]
  /\ task \in [Threads -> Task]
  /\ answer \in [Threads -> [key : Pages, seen : 0..MaxCommits] \cup {None}]

(* How old an answer may be: the TTLs of the layers it went through, and   *)
(* the time requests sit on what they read on its way.                     *)
AgeBound ==
  [k \in Keys |-> IF k = "snapshot" THEN SnapshotTtl + CardsTtl + 3 * Slow
                                    ELSE Ttl(k) + 2 * Slow]

Promise == INSTANCE Freshness WITH Bound <- AgeBound

(* Whatever is answered, from Redis, from the memory of a worker or fresh, *)
(* through outages and restarts and with any invalidation lost, was the    *)
(* truth at most AgeBound ago.                                             *)
ImplementsFreshness == Promise!Spec

(* An entry that was in Redis when a write was committed does not outlive  *)
(* the invalidations of that write: it is gone once the handler has been   *)
(* through its prefixes (while Redis answers and no worker dies).          *)
InvalidationComplete ==
  \A k \in Keys, n \in 1..Len(log) :
    /\ shared[k] # None /\ shared[k].stored < n
    /\ k \in log[n].change.drops
    => \E t \in Threads : task[t].commit = n /\ k \in Listed(task[t].todo)

(* The memory of a worker holds no more than _MAX_SIZE entries, but for    *)
(* those which threads have just added and are about to evict for.         *)
MemoryBounded ==
  \A w \in Workers :
    Cardinality(Cached(w)) <=
      MaxSize + Cardinality({t \in Threads : WorkerOf(t) = w /\ pc[t] = "settle"})

=============================================================================
