---------------------------- MODULE CacheProofs ----------------------------
(***************************************************************************)
(* Cache implements Freshness, for any number of workers, threads and      *)
(* vehicles and any TTLs.                                                  *)
(*                                                                         *)
(* The inductive invariant follows a version from the SELECT that read it: *)
(* a thread holds it for at most Slow, an entry keeps it for at most a TTL *)
(* after that, and the snapshot is filled from an entry, once more held    *)
(* for at most Slow.  Every part says since when the version was current,   *)
(* counted back from the time at which the part expires or was read.       *)
(***************************************************************************)
EXTENDS Cache, SequenceTheorems, FiniteSetTheorems, TLAPS

Since(n, moment) == Promise!CurrentSince(n, moment)

(* How old what a thread is about to store under k may be.                 *)
Hold(k) == IF k = "snapshot" THEN CardsTtl + Slow ELSE 0

ItemOK(item, k) ==
  /\ item.expires <= now + Ttl(k)
  /\ Since(item.seen, item.expires - Ttl(k) - Slow - Hold(k))

StoresOK ==
  /\ \A k \in Keys : shared[k] # None => ItemOK(shared[k], k)
  /\ \A w \in Workers, k \in Keys : memory[w][k] # None => ItemOK(memory[w][k], k)

LogOK == \A n \in 1..Len(log) : log[n].at <= now

Reading(t) == pc[t] \in {"get", "touch", "drop", "load", "set", "settle"}

ThreadOK(t) ==
  /\ Reading(t) =>
       /\ task[t].asked \in Pages
       /\ \/ task[t].key = task[t].asked
          \/ task[t].key = "cards" /\ task[t].asked = "snapshot"
  /\ pc[t] \in {"touch", "set", "settle"} =>
       task[t].since <= now /\ now <= task[t].since + Slow
  /\ pc[t] \in {"set", "settle"} =>
       Since(task[t].seen, task[t].since - Hold(task[t].key))
  /\ pc[t] = "touch" =>
       Since(task[t].seen, task[t].since - Ttl(task[t].key) - Slow - Hold(task[t].key))

Inv == TypeOK /\ LogOK /\ StoresOK /\ (\A t \in Threads : ThreadOK(t))
-----------------------------------------------------------------------------
LEMMA TtlNat == \A k \in Keys : Ttl(k) \in Nat /\ Ttl(k) >= 1 /\ Hold(k) \in Nat
  BY CacheAssumption DEF Ttl, Keys, Pages, Hold

LEMMA IdleTask == Idle \in Task
<1>1. <<>> \in Seq(Keys) /\ 0 \in 0..MaxCommits /\ {} \in SUBSET Facts
  BY CacheAssumption
<1>2. QED
  BY <1>1 DEF Idle, Task

LEMMA WorkerOfThread == \A t \in Threads : WorkerOf(t) \in Workers
  BY DEF Threads, WorkerOf

(* A version that was current since m was current since any earlier moment. *)
LEMMA SinceEarlier ==
  ASSUME TypeOK, NEW n, NEW m \in Int, Since(n, m), NEW l \in Int, l <= m
  PROVE  Since(n, l)
<1>1. n \in 0..Len(log) /\ Len(log) \in Nat
  BY DEF Since, Promise!CurrentSince, TypeOK
<1>2. ASSUME n < Len(log)
      PROVE  log[n + 1].at >= l
  <2>1. n + 1 \in 1..Len(log)
    BY <1>1, <1>2
  <2>2. log[n + 1] \in [at : 0..Horizon, change : Changes]
    BY <2>1, ElementOfSeq DEF TypeOK
  <2>3. log[n + 1].at \in Int /\ log[n + 1].at >= m
    BY <1>2, <2>2, CacheAssumption DEF Since, Promise!CurrentSince
  <2>4. QED
    BY <2>3
<1>3. QED
  BY <1>1, <1>2 DEF Since, Promise!CurrentSince

LEMMA LatestSince ==
  ASSUME TypeOK, NEW m \in Int
  PROVE  Since(Len(log), m)
  BY DEF Since, Promise!CurrentSince, TypeOK

(* What was current since some moment stays so when a write is committed. *)
LEMMA SinceAppend ==
  ASSUME TypeOK, NEW c, log' = Append(log, [at |-> now, change |-> c]),
         NEW n, NEW m \in Int, m <= now, Since(n, m)
  PROVE  Since(n, m)'
<1>1. Len(log) \in Nat /\ Len(log') = Len(log) + 1
  BY DEF TypeOK
<1>2. n \in 0..Len(log)
  BY DEF Since, Promise!CurrentSince
<1>3. CASE n < Len(log)
  <2>1. n + 1 \in 1..Len(log) /\ log'[n + 1] = log[n + 1]
    BY <1>1, <1>2, <1>3 DEF TypeOK
  <2>2. QED
    BY <1>1, <1>2, <1>3, <2>1 DEF Since, Promise!CurrentSince
<1>4. CASE n = Len(log)
  <2>1. log'[n + 1].at = now
    BY <1>1, <1>4 DEF TypeOK
  <2>2. QED
    BY <1>1, <1>2, <1>4, <2>1 DEF Since, Promise!CurrentSince, TypeOK
<1>5. QED
  BY <1>1, <1>2, <1>3, <1>4

LEMMA InitInv == Init => Inv
  BY CacheAssumption, IdleTask DEF Init, Inv, TypeOK, LogOK, StoresOK, ThreadOK, Reading, Steps

-----------------------------------------------------------------------------
(* A step that leaves the log and the clock alone changes the stores only  *)
(* by dropping entries or by storing what t holds.                         *)
StoresKept ==
  /\ \A k \in Keys : shared'[k] \in {shared[k], None}
  /\ \A w \in Workers, k \in Keys : memory'[w][k] \in {memory[w][k], None}
  /\ shared' \in [Keys -> Item \cup {None}]
  /\ memory' \in [Workers -> [Keys -> Item \cup {None}]]

LEMMA StoresKeptInv ==
  ASSUME Inv, StoresKept, UNCHANGED <<now, log>>
  PROVE  StoresOK'
  BY DEF Inv, StoresKept, StoresOK, ItemOK, Since, Promise!CurrentSince

(* Only t moves, and what it holds is fresh enough for where it goes.      *)
LEMMA ThreadsInv ==
  ASSUME Inv, NEW t \in Threads, UNCHANGED <<now, log>>, ThreadOK(t)',
         \A u \in Threads \ {t} : pc'[u] = pc[u] /\ task'[u] = task[u]
  PROVE  \A u \in Threads : ThreadOK(u)'
  BY DEF Inv, ThreadOK, Reading, Since, Promise!CurrentSince

(* The value may be handed to whoever asked for it.                        *)
Servable(t, seen) == Since(seen, now - AgeBound[task[t].asked])

(* What HaveValue needs to know of the value.                              *)
ValueOK(t, seen, since) ==
  /\ seen \in 0..MaxCommits /\ since \in Nat
  /\ since <= now /\ now <= since + Slow
  /\ task[t].key # task[t].asked => Since(seen, since - CardsTtl - Slow)
  /\ task[t].key = task[t].asked => Servable(t, seen)

LEMMA HaveValueInv ==
  ASSUME Inv, NEW t \in Threads, Reading(t), NEW seen, NEW since, ValueOK(t, seen, since),
         HaveValue(t, seen, since), UNCHANGED <<now, log>>
  PROVE  /\ pc' \in [Threads -> Steps]
         /\ task' \in [Threads -> Task]
         /\ answer' \in [Threads -> [key : Pages, seen : 0..MaxCommits] \cup {None}]
         /\ \A u \in Threads : ThreadOK(u)'
<1>0. /\ pc \in [Threads -> Steps] /\ task \in [Threads -> Task]
      /\ ThreadOK(t)
  BY DEF Inv, TypeOK
<1>1. CASE task[t].key = task[t].asked
  <2>1. ThreadOK(t)'
    BY <1>0, <1>1 DEF HaveValue, Respond, Goto, ThreadOK, Reading
  <2>2. \A u \in Threads : ThreadOK(u)'
    BY <1>0, <1>1, <2>1, ThreadsInv DEF HaveValue, Respond, Goto
  <2>3. [key |-> task[t].asked, seen |-> seen] \in [key : Pages, seen : 0..MaxCommits]
    BY <1>0 DEF ThreadOK, ValueOK
  <2>4. answer' \in [Threads -> [key : Pages, seen : 0..MaxCommits] \cup {None}]
    BY <1>1, <2>3 DEF HaveValue, Respond, Inv, TypeOK
  <2>5. QED
    BY <1>0, <1>1, <2>2, <2>4 DEF HaveValue, Respond, Goto, Steps
<1>2. CASE task[t].key # task[t].asked
  <2>1. task[t].asked = "snapshot"
    BY <1>0, <1>2 DEF ThreadOK
  <2>2. /\ pc' = [pc EXCEPT ![t] = "set"]
        /\ task' = [task EXCEPT ![t].key = "snapshot", ![t].seen = seen, ![t].since = since]
        /\ answer' = answer
    BY <1>2, <2>1 DEF HaveValue, Goto
  <2>3. task' \in [Threads -> Task]
    <3>1. task[t] \in Task /\ "snapshot" \in Keys /\ seen \in 0..MaxCommits /\ since \in Nat
      BY <1>0 DEF ValueOK, Keys, Pages
    <3>2. [task[t] EXCEPT !.key = "snapshot", !.seen = seen, !.since = since] \in Task
      BY <3>1 DEF Task
    <3>3. QED
      BY <1>0, <2>2, <3>2
  <2>4. ThreadOK(t)'
    <3>1. since - Hold("snapshot") = since - CardsTtl - Slow
      BY CacheAssumption DEF Hold, ValueOK
    <3>2. Since(seen, since - Hold("snapshot"))
      BY <1>2, <3>1 DEF ValueOK
    <3>3. pc'[t] = "set" /\ task'[t].key = "snapshot" /\ task'[t].asked = "snapshot"
          /\ task'[t].seen = seen /\ task'[t].since = since
      BY <1>0, <2>1, <2>2 DEF Task
    <3>4. QED
      BY <3>2, <3>3 DEF ThreadOK, Reading, ValueOK, Pages, Since, Promise!CurrentSince, Hold
  <2>5. \A u \in Threads : ThreadOK(u)'
    BY <1>0, <2>2, <2>4, ThreadsInv
  <2>6. QED
    BY <1>0, <2>2, <2>3, <2>5 DEF Steps, Inv, TypeOK
<1>3. QED
  BY <1>1, <1>2
-----------------------------------------------------------------------------
(* Where a value comes from, it is young enough to be served or stored.    *)

LEMMA Bounds ==
  /\ AgeBound["snapshot"] = SnapshotTtl + CardsTtl + 3 * Slow
  /\ \A k \in Pages : AgeBound[k] = Ttl(k) + 2 * Slow + Hold(k)
  /\ Hold("cards") = 0 /\ Ttl("cards") = CardsTtl
<1>1. \A k \in Pages : k \in Keys
  BY DEF Keys
<1>2. "snapshot" \in Keys /\ Ttl("snapshot") = SnapshotTtl /\ Ttl("cards") = CardsTtl
  BY CacheAssumption DEF Keys, Pages, Ttl
<1>3. QED
  BY <1>1, <1>2, TtlNat, CacheAssumption DEF AgeBound, Hold

LEMMA HeldValue ==
  ASSUME Inv, NEW t \in Threads, pc[t] \in {"touch", "set", "settle"}
  PROVE  ValueOK(t, task[t].seen, task[t].since)
<1> DEFINE k == task[t].key
           s == task[t].since
           n == task[t].seen
           a == task[t].asked
<1>1. /\ a \in Pages /\ k \in Keys
      /\ k = a \/ (k = "cards" /\ a = "snapshot")
      /\ n \in 0..MaxCommits /\ s \in Nat /\ s <= now /\ now <= s + Slow
  BY DEF Inv, TypeOK, ThreadOK, Reading, Task, Keys, Pages
<1>2. now \in Int /\ Slow \in Nat /\ CardsTtl \in Nat /\ Ttl(k) \in Nat /\ Hold(k) \in Nat
  BY <1>1, TtlNat, CacheAssumption DEF Inv, TypeOK
<1>3. Since(n, s - Ttl(k) - Slow - Hold(k))
  <2>1. CASE pc[t] = "touch"
    BY <2>1 DEF Inv, ThreadOK
  <2>2. CASE pc[t] # "touch"
    <3>1. Since(n, s - Hold(k))
      BY <2>2 DEF Inv, ThreadOK
    <3>2. s - Hold(k) \in Int /\ s - Ttl(k) - Slow - Hold(k) \in Int
          /\ s - Ttl(k) - Slow - Hold(k) <= s - Hold(k)
      BY <1>1, <1>2
    <3>3. QED
      BY <3>1, <3>2, SinceEarlier DEF Inv
  <2>3. QED
    BY <2>1, <2>2
<1>4. ASSUME k # a
      PROVE  Since(n, s - CardsTtl - Slow)
  <2>1. Ttl(k) = CardsTtl /\ Hold(k) = 0
    BY <1>1, <1>4, Bounds
  <2>2. s - Ttl(k) - Slow - Hold(k) = s - CardsTtl - Slow
    BY <1>1, <1>2, <2>1
  <2>3. QED
    BY <1>3, <2>2
<1>5. ASSUME k = a
      PROVE  Servable(t, n)
  <2>1. AgeBound[a] = Ttl(a) + 2 * Slow + Hold(a)
    BY <1>1, Bounds
  <2>2. /\ s - Ttl(k) - Slow - Hold(k) \in Int /\ now - AgeBound[a] \in Int
        /\ now - AgeBound[a] <= s - Ttl(k) - Slow - Hold(k)
    BY <1>1, <1>2, <1>5, <2>1
  <2>3. QED
    BY <1>3, <2>2, SinceEarlier DEF Servable, Inv
<1>6. QED
  BY <1>1, <1>4, <1>5 DEF ValueOK

LEMMA HitValue ==
  ASSUME Inv, NEW t \in Threads, pc[t] = "get", NEW item \in Item,
         ItemOK(item, task[t].key), Live(item)
  PROVE  /\ ValueOK(t, item.seen, now)
         /\ Since(item.seen, now - Ttl(task[t].key) - Slow - Hold(task[t].key))
<1> DEFINE k == task[t].key
           a == task[t].asked
<1>1. /\ a \in Pages /\ k \in Keys
      /\ k = a \/ (k = "cards" /\ a = "snapshot")
      /\ item.seen \in 0..MaxCommits /\ item.expires \in Nat /\ item.expires > now
  BY DEF Inv, TypeOK, ThreadOK, Reading, Keys, Pages, Item, Live
<1>2. now \in Nat /\ Slow \in Nat /\ CardsTtl \in Nat /\ Ttl(k) \in Nat /\ Hold(k) \in Nat
  BY <1>1, TtlNat, CacheAssumption DEF Inv, TypeOK
<1>3. Since(item.seen, now - Ttl(k) - Slow - Hold(k))
  <2>1. Since(item.seen, item.expires - Ttl(k) - Slow - Hold(k))
    BY DEF ItemOK
  <2>2. /\ item.expires - Ttl(k) - Slow - Hold(k) \in Int /\ now - Ttl(k) - Slow - Hold(k) \in Int
        /\ now - Ttl(k) - Slow - Hold(k) <= item.expires - Ttl(k) - Slow - Hold(k)
    BY <1>1, <1>2
  <2>3. QED
    BY <2>1, <2>2, SinceEarlier DEF Inv
<1>4. ASSUME k # a
      PROVE  Since(item.seen, now - CardsTtl - Slow)
  <2>1. Ttl(k) = CardsTtl /\ Hold(k) = 0
    BY <1>1, <1>4, Bounds
  <2>2. now - Ttl(k) - Slow - Hold(k) = now - CardsTtl - Slow
    BY <1>2, <2>1
  <2>3. QED
    BY <1>3, <2>2
<1>5. ASSUME k = a
      PROVE  Servable(t, item.seen)
  <2>1. AgeBound[a] = Ttl(a) + 2 * Slow + Hold(a)
    BY <1>1, Bounds
  <2>2. /\ now - Ttl(k) - Slow - Hold(k) \in Int /\ now - AgeBound[a] \in Int
        /\ now - AgeBound[a] <= now - Ttl(k) - Slow - Hold(k)
    BY <1>1, <1>2, <1>5, <2>1
  <2>3. QED
    BY <1>3, <2>2, SinceEarlier DEF Servable, Inv
<1>6. QED
  BY <1>1, <1>2, <1>3, <1>4, <1>5 DEF ValueOK
-----------------------------------------------------------------------------
(* The steps of a reading thread. *)

LEMMA MissInv ==
  ASSUME Inv, NEW t \in Threads, pc[t] \in {"get", "drop"}, Miss(t), UNCHANGED <<now, log>>
  PROVE  /\ pc' \in [Threads -> Steps] /\ task' \in [Threads -> Task] /\ answer' = answer
         /\ \A u \in Threads : ThreadOK(u)'
<1>0. pc \in [Threads -> Steps] /\ task \in [Threads -> Task] /\ ThreadOK(t)
  BY DEF Inv, TypeOK
<1>1. CASE task[t].key = "snapshot"
  <2>1. /\ task' = [task EXCEPT ![t].key = "cards"]
        /\ pc' = [pc EXCEPT ![t] = "get"]
        /\ answer' = answer
    BY <1>1 DEF Miss, Goto
  <2>2. task[t].asked = "snapshot" /\ "cards" \in Keys
    BY <1>0, <1>1 DEF ThreadOK, Reading, Keys
  <2>3. [task[t] EXCEPT !.key = "cards"] \in Task
    BY <1>0, <2>2 DEF Task
  <2>4. task' \in [Threads -> Task]
    BY <1>0, <2>1, <2>3
  <2>5. pc'[t] = "get" /\ task'[t].key = "cards" /\ task'[t].asked = "snapshot"
    BY <1>0, <2>1, <2>2 DEF Task
  <2>6. ThreadOK(t)'
    BY <2>5 DEF ThreadOK, Reading, Pages
  <2>7. \A u \in Threads : ThreadOK(u)'
    BY <1>0, <2>1, <2>6, ThreadsInv
  <2>8. QED
    BY <1>0, <2>1, <2>4, <2>7 DEF Steps
<1>2. CASE task[t].key # "snapshot"
  <2>1. task' = task /\ pc' = [pc EXCEPT ![t] = "load"] /\ answer' = answer
    BY <1>2 DEF Miss, Goto
  <2>2. ThreadOK(t)'
    BY <1>0, <2>1 DEF ThreadOK, Reading
  <2>3. \A u \in Threads : ThreadOK(u)'
    BY <1>0, <2>1, <2>2, ThreadsInv
  <2>4. QED
    BY <1>0, <2>1, <2>3 DEF Steps
<1>3. QED
  BY <1>1, <1>2

(* A thread moves on with its local variables as they are, to a step that  *)
(* needs nothing new of them.                                              *)
LEMMA GotoInv ==
  ASSUME Inv, NEW t \in Threads, NEW step \in Steps, Goto(t, step),
         UNCHANGED <<now, log, task>>,
         step \notin {"get", "touch", "drop", "load", "set", "settle"}
  PROVE  pc' \in [Threads -> Steps] /\ \A u \in Threads : ThreadOK(u)'
<1>1. ThreadOK(t)'
  BY DEF Goto, Inv, TypeOK, ThreadOK, Reading
<1>2. \A u \in Threads : ThreadOK(u)'
  BY <1>1, ThreadsInv DEF Goto, Inv, TypeOK
<1>3. QED
  BY <1>2 DEF Goto, Inv, TypeOK

LEMMA NewItemOK ==
  ASSUME Inv, NEW t \in Threads, pc[t] = "set"
  PROVE  /\ NewItem(t) \in Item /\ task[t].key \in Keys
         /\ ItemOK(NewItem(t), task[t].key)
<1> DEFINE k == task[t].key
           s == task[t].since
           n == task[t].seen
<1>1. k \in Keys /\ n \in 0..MaxCommits /\ s \in Nat /\ s <= now /\ now <= s + Slow
  BY DEF Inv, TypeOK, ThreadOK, Reading, Task, Keys, Pages
<1>2. now \in Nat /\ Slow \in Nat /\ Ttl(k) \in Nat /\ Hold(k) \in Nat /\ Len(log) \in 0..MaxCommits
  BY <1>1, TtlNat, CacheAssumption DEF Inv, TypeOK
<1>3. now + Ttl(k) \in Nat
  BY <1>2
<1>4. NewItem(t) \in Item
  BY <1>1, <1>2, <1>3 DEF NewItem, Item
<1>5. Since(n, (now + Ttl(k)) - Ttl(k) - Slow - Hold(k))
  <2>1. Since(n, s - Hold(k))
    BY DEF Inv, ThreadOK
  <2>2. /\ s - Hold(k) \in Int /\ (now + Ttl(k)) - Ttl(k) - Slow - Hold(k) \in Int
        /\ (now + Ttl(k)) - Ttl(k) - Slow - Hold(k) <= s - Hold(k)
    BY <1>1, <1>2
  <2>3. QED
    BY <2>1, <2>2, SinceEarlier DEF Inv
<1>6. QED
  BY <1>1, <1>2, <1>4, <1>5 DEF ItemOK, NewItem
-----------------------------------------------------------------------------
(* The parts of the invariant that a step of a thread restores.            *)
LEMMA Assemble ==
  ASSUME Inv, UNCHANGED <<now, log, up>>, StoresOK',
         shared' \in [Keys -> Item \cup {None}],
         memory' \in [Workers -> [Keys -> Item \cup {None}]],
         pc' \in [Threads -> Steps], task' \in [Threads -> Task],
         answer' \in [Threads -> [key : Pages, seen : 0..MaxCommits] \cup {None}],
         \A u \in Threads : ThreadOK(u)'
  PROVE  Inv'
  BY DEF Inv, TypeOK, LogOK

LEMMA SameStores ==
  ASSUME Inv, UNCHANGED <<now, log, shared, memory>>
  PROVE  /\ StoresOK'
         /\ shared' \in [Keys -> Item \cup {None}]
         /\ memory' \in [Workers -> [Keys -> Item \cup {None}]]
  BY DEF Inv, TypeOK, StoresOK, ItemOK, Since, Promise!CurrentSince

LEMMA SharedPut ==
  ASSUME Inv, NEW k \in Keys, NEW item \in Item \cup {None}, item # None => ItemOK(item, k),
         shared' = Put(shared, k, item), UNCHANGED <<now, log, memory>>
  PROVE  /\ StoresOK'
         /\ shared' \in [Keys -> Item \cup {None}]
         /\ memory' \in [Workers -> [Keys -> Item \cup {None}]]
  BY DEF Inv, TypeOK, StoresOK, ItemOK, Since, Promise!CurrentSince, Put

LEMMA MemoryPut ==
  ASSUME Inv, NEW w \in Workers, NEW k \in Keys, NEW item \in Item \cup {None},
         item # None => ItemOK(item, k),
         memory' = [memory EXCEPT ![w] = Put(@, k, item)], UNCHANGED <<now, log, shared>>
  PROVE  /\ StoresOK'
         /\ shared' \in [Keys -> Item \cup {None}]
         /\ memory' \in [Workers -> [Keys -> Item \cup {None}]]
  BY DEF Inv, TypeOK, StoresOK, ItemOK, Since, Promise!CurrentSince, Put

LEMMA ReadInv ==
  ASSUME Inv, NEW t \in Threads, Read(t)
  PROVE  Inv'
<1>0. /\ TypeOK /\ ThreadOK(t) /\ WorkerOf(t) \in Workers
      /\ pc \in [Threads -> Steps] /\ task \in [Threads -> Task]
      /\ answer \in [Threads -> [key : Pages, seen : 0..MaxCommits] \cup {None}]
      /\ shared \in [Keys -> Item \cup {None}]
      /\ memory \in [Workers -> [Keys -> Item \cup {None}]]
  BY WorkerOfThread DEF Inv, TypeOK
<1>1. ASSUME NEW k \in Pages, AskFor(t, k)
      PROVE  Inv'
  <2>1. [Idle EXCEPT !.asked = k, !.key = k] \in Task
    <3>1. Idle \in Task /\ k \in Keys
      BY IdleTask DEF Keys
    <3>2. QED
      BY <3>1 DEF Task
  <2>2. task' \in [Threads -> Task] /\ pc' \in [Threads -> Steps]
    BY <1>0, <1>1, <2>1 DEF AskFor, Goto, Steps
  <2>3. pc'[t] = "get" /\ task'[t].asked = k /\ task'[t].key = k
    BY <1>0, <1>1 DEF AskFor, Goto, Idle
  <2>4. ThreadOK(t)'
    BY <2>3 DEF ThreadOK, Reading
  <2>5. \A u \in Threads : ThreadOK(u)'
    BY <1>0, <1>1, <2>4, ThreadsInv DEF AskFor, Goto
  <2>6. QED
    BY <1>0, <1>1, <2>2, <2>5, SameStores, Assemble DEF AskFor
<1>2. CASE GetRedis(t)
  <2> DEFINE k == task[t].key
  <2>1. k \in Keys /\ Reading(t)
    BY <1>0, <1>2 DEF GetRedis, ThreadOK, Reading, Keys, Pages
  <2>2. CASE Live(shared[k])
    <3>1. shared[k] \in Item /\ ItemOK(shared[k], k)
      BY <1>0, <2>1, <2>2 DEF Live, Inv, StoresOK
    <3>2. ValueOK(t, shared[k].seen, now) /\ HaveValue(t, shared[k].seen, now)
      BY <1>2, <2>2, <3>1, HitValue DEF GetRedis
    <3>3. QED
      BY <1>2, <2>1, <3>2, HaveValueInv, SameStores, Assemble DEF GetRedis
  <2>3. CASE ~Live(shared[k])
    BY <1>0, <1>2, <2>3, MissInv, SameStores, Assemble DEF GetRedis
  <2>4. QED
    BY <2>2, <2>3
<1>3. CASE GetMemory(t)
  <2> DEFINE w == WorkerOf(t)
             k == task[t].key
             item == memory[w][k]
  <2>1. k \in Keys /\ Reading(t)
    BY <1>0, <1>3 DEF GetMemory, ThreadOK, Reading, Keys, Pages
  <2>2. CASE Live(item)
    <3>1. item \in Item /\ ItemOK(item, k)
      BY <1>0, <2>1, <2>2 DEF Live, Inv, StoresOK
    <3>2. /\ ValueOK(t, item.seen, now)
          /\ Since(item.seen, now - Ttl(k) - Slow - Hold(k))
      BY <1>3, <2>2, <3>1, HitValue DEF GetMemory
    <3>3. /\ pc' = [pc EXCEPT ![t] = "touch"]
          /\ task' = [task EXCEPT ![t].seen = item.seen, ![t].since = now]
          /\ UNCHANGED <<now, log, up, shared, memory, answer>>
      BY <1>3, <2>2 DEF GetMemory, Goto, Live
    <3>4. [task[t] EXCEPT !.seen = item.seen, !.since = now] \in Task
      BY <1>0, <3>2 DEF ValueOK, Task
    <3>5. task' \in [Threads -> Task] /\ pc' \in [Threads -> Steps]
      BY <1>0, <3>3, <3>4 DEF Steps
    <3>6. /\ pc'[t] = "touch" /\ task'[t].asked = task[t].asked /\ task'[t].key = k
          /\ task'[t].seen = item.seen /\ task'[t].since = now
      BY <1>0, <3>3 DEF Task
    <3>7. ThreadOK(t)'
      BY <1>0, <2>1, <3>2, <3>3, <3>6 DEF ThreadOK, Reading, ValueOK, Since, Promise!CurrentSince, Ttl, Hold
    <3>8. \A u \in Threads : ThreadOK(u)'
      BY <1>0, <3>3, <3>7, ThreadsInv
    <3>9. QED
      BY <1>0, <3>3, <3>5, <3>8, SameStores, Assemble
  <2>3. CASE item # None /\ ~Live(item)
    <3>1. /\ pc' = [pc EXCEPT ![t] = "drop"]
          /\ UNCHANGED <<now, log, up, shared, memory, task, answer>>
      BY <1>3, <2>3 DEF GetMemory, Goto
    <3>2. pc'[t] = "drop" /\ pc' \in [Threads -> Steps]
      BY <1>0, <3>1 DEF Steps
    <3>3. ThreadOK(t)'
      BY <1>0, <2>1, <3>1, <3>2 DEF ThreadOK, Reading
    <3>4. \A u \in Threads : ThreadOK(u)'
      BY <1>0, <3>1, <3>3, ThreadsInv
    <3>5. QED
      BY <1>0, <3>1, <3>2, <3>4, SameStores, Assemble
  <2>4. CASE item = None
    <3>1. Miss(t) /\ pc[t] = "get" /\ UNCHANGED <<now, log, up, shared, memory>>
      BY <1>3, <2>4 DEF GetMemory, Live
    <3>2. QED
      BY <1>0, <3>1, MissInv, SameStores, Assemble
  <2>5. QED
    BY <2>2, <2>3, <2>4
<1>4. CASE Touch(t)
  <2>1. CASE memory[WorkerOf(t)][task[t].key] = None
    <3>1. Goto(t, "failed") /\ UNCHANGED <<now, log, up, shared, memory, task, answer>>
      BY <1>4, <2>1 DEF Touch
    <3>2. QED
      BY <1>0, <3>1, GotoInv, SameStores, Assemble DEF Steps
  <2>2. CASE memory[WorkerOf(t)][task[t].key] # None
    <3>1. HaveValue(t, task[t].seen, task[t].since) /\ UNCHANGED <<now, log, up, shared, memory>>
          /\ pc[t] = "touch"
      BY <1>4, <2>2 DEF Touch
    <3>2. QED
      BY <3>1, HeldValue, HaveValueInv, SameStores, Assemble DEF Reading
  <2>3. QED
    BY <2>1, <2>2
<1>5. CASE Load(t)
  <2>1. CASE Goto(t, "failed") /\ UNCHANGED task
    BY <1>0, <1>5, <2>1, GotoInv, SameStores, Assemble DEF Load, Steps
  <2>2. CASE /\ task' = [task EXCEPT ![t].seen = Len(log), ![t].since = now]
             /\ Goto(t, "set")
    <3>1. Len(log) \in 0..MaxCommits /\ now \in Nat
      BY <1>0, CacheAssumption DEF TypeOK
    <3>2. [task[t] EXCEPT !.seen = Len(log), !.since = now] \in Task
      BY <1>0, <3>1 DEF Task
    <3>3. task' \in [Threads -> Task] /\ pc' \in [Threads -> Steps]
      BY <1>0, <2>2, <3>2 DEF Goto, Steps
    <3>4. /\ pc'[t] = "set" /\ task'[t].asked = task[t].asked /\ task'[t].key = task[t].key
          /\ task'[t].seen = Len(log) /\ task'[t].since = now
      BY <1>0, <2>2 DEF Goto, Task
    <3>5. task[t].key \in Keys /\ now - Hold(task[t].key) \in Int
      BY <1>0, <1>5, <3>1, TtlNat DEF Load, ThreadOK, Reading, Keys, Pages
    <3>6. Since(Len(log), now - Hold(task[t].key))
      BY <1>0, <3>5, LatestSince
    <3>7. ThreadOK(t)'
      BY <1>0, <1>5, <3>1, <3>4, <3>6, CacheAssumption
         DEF Load, ThreadOK, Reading, Since, Promise!CurrentSince, Hold
    <3>8. \A u \in Threads : ThreadOK(u)'
      BY <1>0, <1>5, <2>2, <3>7, ThreadsInv DEF Load, Goto
    <3>9. QED
      BY <1>0, <1>5, <3>3, <3>8, SameStores, Assemble DEF Load
  <2>3. QED
    BY <1>5, <2>1, <2>2 DEF Load
<1>6. CASE SetRedis(t)
  BY <1>6, NewItemOK, HeldValue, HaveValueInv, SharedPut, Assemble DEF SetRedis, Reading
<1>7. CASE SetMemory(t)
  <2>1. /\ pc[t] = "set" /\ pc' = [pc EXCEPT ![t] = "settle"]
        /\ memory' = [memory EXCEPT ![WorkerOf(t)] = Put(@, task[t].key, NewItem(t))]
        /\ UNCHANGED <<now, log, up, shared, task, answer>>
    BY <1>7 DEF SetMemory, Goto
  <2>2. ThreadOK(t)'
    BY <1>0, <2>1 DEF ThreadOK, Reading, Since, Promise!CurrentSince
  <2>3. \A u \in Threads : ThreadOK(u)'
    BY <1>0, <2>1, <2>2, ThreadsInv
  <2>4. pc' \in [Threads -> Steps]
    BY <1>0, <2>1 DEF Steps
  <2>5. QED
    BY <1>0, <2>1, <2>3, <2>4, NewItemOK, MemoryPut, Assemble
<1>8. CASE Settle(t)
  <2> DEFINE w == WorkerOf(t)
             k == task[t].key
  <2>1. CASE memory[w][k] = None
    <3>1. Goto(t, "failed") /\ UNCHANGED <<now, log, up, shared, memory, task, answer>>
      BY <1>8, <2>1 DEF Settle
    <3>2. QED
      BY <1>0, <3>1, GotoInv, SameStores, Assemble DEF Steps
  <2>2. CASE memory[w][k] # None
    <3>1. /\ HaveValue(t, task[t].seen, task[t].since) /\ UNCHANGED <<now, log, up, shared>>
          /\ pc[t] = "settle"
      BY <1>8, <2>2 DEF Settle
    <3>2. PICK gone \in SUBSET (Cached(w) \ {k}) :
             memory' = [memory EXCEPT ![w] = [x \in Keys |-> IF x \in gone THEN None ELSE @[x]]]
      BY <1>8, <2>2 DEF Settle
    <3>3. StoresKept
      BY <1>0, <3>1, <3>2 DEF StoresKept
    <3>4. QED
      BY <3>1, <3>3, StoresKeptInv, HeldValue, HaveValueInv, Assemble DEF Reading, StoresKept
  <2>3. QED
    BY <2>1, <2>2
<1>9. CASE Drop(t)
  <2>1. /\ Miss(t) /\ pc[t] = "drop" /\ UNCHANGED <<now, log, up, shared>>
        /\ memory' = [memory EXCEPT ![WorkerOf(t)] = Put(@, task[t].key, None)]
    BY <1>9 DEF Drop
  <2>2. task[t].key \in Keys
    BY <1>0, <2>1 DEF ThreadOK, Reading, Keys, Pages
  <2>3. QED
    BY <1>0, <2>1, <2>2, MissInv, MemoryPut, Assemble
<1>10. QED
  BY <1>1, <1>2, <1>3, <1>4, <1>5, <1>6, <1>7, <1>8, <1>9 DEF Read
-----------------------------------------------------------------------------
(* The steps of a writing thread. *)

LEMMA ToDo ==
  ASSUME NEW todo \in Seq(Keys)
  PROVE  /\ todo # <<>> => Head(todo) \in Keys /\ Tail(todo) \in Seq(Keys)
         /\ Listed(todo) \in SUBSET Keys
<1>1. ASSUME todo # <<>>
      PROVE  Head(todo) \in Keys /\ Tail(todo) \in Seq(Keys)
  BY <1>1, HeadTailProperties
<1>2. \A i \in 1..Len(todo) : todo[i] \in Keys
  BY ElementOfSeq
<1>3. QED
  BY <1>1, <1>2 DEF Listed

LEMMA BeginInv ==
  ASSUME Inv, NEW t \in Threads, NEW about \in SUBSET Facts, NEW todo \in Seq(Keys),
         Begin(t, about, todo)
  PROVE  Inv'
<1>0. /\ pc \in [Threads -> Steps] /\ task \in [Threads -> Task]
      /\ answer \in [Threads -> [key : Pages, seen : 0..MaxCommits] \cup {None}]
  BY DEF Inv, TypeOK
<1>1. [Idle EXCEPT !.about = about, !.todo = todo] \in Task
  BY IdleTask DEF Task
<1>2. task' \in [Threads -> Task] /\ pc' \in [Threads -> Steps]
  BY <1>0, <1>1 DEF Begin, Goto, Steps
<1>3. pc'[t] = "commit"
  BY <1>0 DEF Begin, Goto
<1>4. ThreadOK(t)'
  BY <1>3 DEF ThreadOK, Reading
<1>5. \A u \in Threads : ThreadOK(u)'
  BY <1>0, <1>4, ThreadsInv DEF Begin, Goto
<1>6. QED
  BY <1>0, <1>2, <1>5, SameStores, Assemble DEF Begin

(* The write is the latest: what was current until now stays so.           *)
LEMMA CommitInv ==
  ASSUME Inv, NEW t \in Threads, Commit(t)
  PROVE  Inv'
<1>0. /\ TypeOK /\ pc \in [Threads -> Steps] /\ task \in [Threads -> Task]
      /\ answer \in [Threads -> [key : Pages, seen : 0..MaxCommits] \cup {None}]
      /\ shared \in [Keys -> Item \cup {None}]
      /\ memory \in [Workers -> [Keys -> Item \cup {None}]]
      /\ log \in Seq([at : 0..Horizon, change : Changes])
      /\ now \in 0..Horizon /\ Len(log) \in Nat
  BY DEF Inv, TypeOK
<1>1. CASE Goto(t, "failed") /\ UNCHANGED <<log, task>>
  BY <1>0, <1>1, GotoInv, SameStores, Assemble DEF Commit, Steps
<1>2. ASSUME NEW step \in {"invalidate", "failed"}, Goto(t, step), Len(log) < MaxCommits,
             log' = Append(log, [at |-> now, change |-> [about |-> task[t].about,
                                                         drops |-> Listed(task[t].todo)]]),
             task' = [task EXCEPT ![t].commit = Len(log) + 1]
      PROVE  Inv'
  <2> DEFINE c == [about |-> task[t].about, drops |-> Listed(task[t].todo)]
             e == [at |-> now, change |-> c]
  <2>1. /\ log' = Append(log, e)
        /\ task' = [task EXCEPT ![t].commit = Len(log) + 1]
        /\ pc' = [pc EXCEPT ![t] = step]
        /\ UNCHANGED <<now, up, shared, memory, answer>>
    BY <1>2 DEF Commit, Goto
  <2>2. task[t] \in Task /\ task[t].todo \in Seq(Keys) /\ task[t].about \in SUBSET Facts
    BY <1>0 DEF Task
  <2>3. e \in [at : 0..Horizon, change : Changes]
    BY <1>0, <2>2, ToDo DEF Changes
  <2>4. /\ log' \in Seq([at : 0..Horizon, change : Changes])
        /\ Len(log') = Len(log) + 1 /\ Len(log') <= MaxCommits
        /\ \A n \in 1..Len(log) : log'[n] = log[n]
        /\ log'[Len(log) + 1] = e
    BY <1>0, <1>2, <2>1, <2>3, CacheAssumption
  <2>5. LogOK'
    BY <1>0, <2>1, <2>4 DEF LogOK, Inv
  <2>6. Len(log) + 1 \in 0..MaxCommits
    BY <1>0, <1>2, CacheAssumption
  <2>7. [task[t] EXCEPT !.commit = Len(log) + 1] \in Task
    BY <2>2, <2>6 DEF Task
  <2>8. task' \in [Threads -> Task] /\ pc' \in [Threads -> Steps]
    BY <1>0, <2>1, <2>7 DEF Steps
  <2>9. TypeOK'
    BY <1>0, <2>1, <2>4, <2>8 DEF TypeOK
  <2>10. ASSUME NEW k \in Keys, NEW item \in Item, ItemOK(item, k)
         PROVE  ItemOK(item, k)'
    <3>1. Ttl(k) \in Nat /\ Hold(k) \in Nat /\ Slow \in Nat /\ item.expires \in Nat
      BY TtlNat, CacheAssumption DEF Item
    <3>2. /\ item.expires - Ttl(k) - Slow - Hold(k) \in Int
          /\ item.expires - Ttl(k) - Slow - Hold(k) <= now
      BY <1>0, <3>1, <2>10 DEF ItemOK
    <3>3. Since(item.seen, item.expires - Ttl(k) - Slow - Hold(k))
      BY <2>10 DEF ItemOK
    <3>4. Since(item.seen, item.expires - Ttl(k) - Slow - Hold(k))'
      BY <1>0, <2>1, <3>2, <3>3, SinceAppend
    <3>5. QED
      BY <2>1, <2>10, <3>4 DEF ItemOK, Hold, Ttl
  <2>11. StoresOK'
    BY <1>0, <2>1, <2>10 DEF StoresOK, Inv
  <2>12. ASSUME NEW u \in Threads
         PROVE  ThreadOK(u)'
    <3>1. CASE u = t
      <4>1. pc'[t] = step
        BY <1>0, <2>1
      <4>2. QED
        BY <3>1, <4>1 DEF ThreadOK, Reading
    <3>2. CASE u # t
      <4> DEFINE k == task[u].key
                 s == task[u].since
                 n == task[u].seen
      <4>1. ThreadOK(u) /\ task'[u] = task[u] /\ pc'[u] = pc[u] /\ s \in Nat
        BY <1>0, <2>1, <3>2 DEF Inv, Task
      <4>2. ASSUME pc[u] \in {"set", "settle"}
            PROVE  Since(n, s - Hold(k))'
        <5>1. k \in Keys
          BY <4>1, <4>2 DEF ThreadOK, Reading, Keys, Pages
        <5>2. s - Hold(k) \in Int /\ s - Hold(k) <= now
          BY <1>0, <4>1, <4>2, <5>1, TtlNat DEF ThreadOK
        <5>3. Since(n, s - Hold(k))
          BY <4>1, <4>2 DEF ThreadOK
        <5>4. Since(n, s - Hold(k))'
          BY <1>0, <2>1, <5>2, <5>3, SinceAppend
        <5>5. QED
          BY <5>4
      <4>3. ASSUME pc[u] = "touch"
            PROVE  Since(n, s - Ttl(k) - Slow - Hold(k))'
        <5>1. k \in Keys
          BY <4>1, <4>3 DEF ThreadOK, Reading, Keys, Pages
        <5>2. /\ s - Ttl(k) - Slow - Hold(k) \in Int
              /\ s - Ttl(k) - Slow - Hold(k) <= now
          <6>1. Ttl(k) \in Nat /\ Hold(k) \in Nat /\ Slow \in Nat /\ s \in Nat /\ now \in Nat
            BY <1>0, <4>1, <5>1, TtlNat, CacheAssumption DEF Inv, TypeOK
          <6>2. s <= now
            BY <4>1, <4>3 DEF ThreadOK
          <6> HIDE DEF k, s
          <6>3. QED
            BY <6>1, <6>2
        <5>3. Since(n, s - Ttl(k) - Slow - Hold(k))
          BY <4>1, <4>3 DEF ThreadOK
        <5>4. QED
          BY <1>0, <2>1, <5>2, <5>3, SinceAppend
      <4>4. QED
        BY <2>1, <4>1, <4>2, <4>3 DEF ThreadOK, Reading, Hold, Ttl
    <3>3. QED
      BY <3>1, <3>2
  <2>13. QED
    BY <2>5, <2>9, <2>11, <2>12 DEF Inv
<1>3. QED
  BY <1>1, <1>2 DEF Commit

LEMMA InvalidateInv ==
  ASSUME Inv, NEW t \in Threads, InvalidatePrefix(t)
  PROVE  Inv'
<1> DEFINE todo == task[t].todo
<1>0. /\ pc \in [Threads -> Steps] /\ task \in [Threads -> Task] /\ task[t] \in Task
      /\ answer \in [Threads -> [key : Pages, seen : 0..MaxCommits] \cup {None}]
      /\ todo \in Seq(Keys) /\ todo # <<>> /\ WorkerOf(t) \in Workers
  BY WorkerOfThread DEF Inv, TypeOK, InvalidatePrefix, Task
<1>1. Head(todo) \in Keys /\ Tail(todo) \in Seq(Keys)
  BY <1>0, ToDo
<1>2. /\ task' = [task EXCEPT ![t].todo = Tail(todo)] /\ pc[t] = "invalidate"
      /\ UNCHANGED <<now, log, up, pc, answer>>
  BY DEF InvalidatePrefix
<1>3. [task[t] EXCEPT !.todo = Tail(todo)] \in Task
  BY <1>0, <1>1 DEF Task
<1>4. task' \in [Threads -> Task]
  BY <1>0, <1>2, <1>3
<1>5. ThreadOK(t)'
  BY <1>2 DEF ThreadOK, Reading
<1>6. \A u \in Threads : ThreadOK(u)'
  BY <1>0, <1>2, <1>5, ThreadsInv
<1>7. /\ StoresOK'
      /\ shared' \in [Keys -> Item \cup {None}]
      /\ memory' \in [Workers -> [Keys -> Item \cup {None}]]
  <2>1. CASE up
    <3>1. shared' = Put(shared, Head(todo), None) /\ UNCHANGED memory
      BY <2>1 DEF InvalidatePrefix
    <3>2. QED
      BY <1>1, <1>2, <3>1, SharedPut
  <2>2. CASE ~up
    <3>1. /\ memory' = [memory EXCEPT ![WorkerOf(t)] = Put(@, Head(todo), None)]
          /\ UNCHANGED shared
      BY <2>2 DEF InvalidatePrefix
    <3>2. QED
      BY <1>0, <1>1, <1>2, <3>1, MemoryPut
  <2>3. QED
    BY <2>1, <2>2
<1>8. QED
  BY <1>0, <1>2, <1>4, <1>6, <1>7, Assemble

LEMMA ChangeInv ==
  ASSUME Inv, NEW t \in Threads, Change(t)
  PROVE  Inv'
<1>0. /\ \A v \in Vehicles : v \in Keys /\ v \in Facts
      /\ "snapshot" \in Keys /\ "vehicles" \in Keys /\ "fleet" \in Facts
  BY DEF Keys, Pages, Facts
<1>1. CASE SaveEntry(t)
  <2>1. PICK v \in Vehicles : Begin(t, {v}, <<"snapshot", v>>)
    BY <1>1 DEF SaveEntry
  <2>2. {v} \in SUBSET Facts /\ <<"snapshot", v>> \in Seq(Keys)
    BY <1>0
  <2>3. QED
    BY <2>1, <2>2, BeginInv
<1>2. CASE MoveEntry(t)
  <2>1. PICK v \in Vehicles, to \in Vehicles : Begin(t, {v, to}, <<"snapshot", to>>)
    BY <1>2 DEF MoveEntry
  <2>2. {v, to} \in SUBSET Facts /\ <<"snapshot", to>> \in Seq(Keys)
    BY <1>0
  <2>3. QED
    BY <2>1, <2>2, BeginInv
<1>3. CASE PurgeEntry(t)
  <2>1. PICK v \in Vehicles : Begin(t, {v}, <<>>)
    BY <1>3 DEF PurgeEntry
  <2>2. {v} \in SUBSET Facts /\ <<>> \in Seq(Keys)
    BY <1>0
  <2>3. QED
    BY <2>1, <2>2, BeginInv
<1>4. CASE SaveVehicle(t)
  <2>1. {"fleet"} \in SUBSET Facts /\ <<"vehicles", "snapshot">> \in Seq(Keys)
    BY <1>0
  <2>2. QED
    BY <1>4, <2>1, BeginInv DEF SaveVehicle
<1>5. CASE Commit(t)
  BY <1>5, CommitInv
<1>6. CASE InvalidatePrefix(t)
  BY <1>6, InvalidateInv
<1>7. CASE SweepFails(t)
  <2>1. PICK step \in {"failed", "done"} : Goto(t, step)
    BY <1>7 DEF SweepFails
  <2>2. step \in Steps /\ UNCHANGED <<now, log, up, shared, memory, task, answer>>
    BY <1>7 DEF SweepFails, Steps
  <2>3. QED
    BY <2>1, <2>2, GotoInv, SameStores, Assemble DEF Inv, TypeOK
<1>8. CASE Written(t)
  <2>1. Goto(t, "done") /\ UNCHANGED <<now, log, up, shared, memory, task, answer>>
    BY <1>8 DEF Written, Done
  <2>2. QED
    BY <2>1, GotoInv, SameStores, Assemble DEF Inv, TypeOK, Steps
<1>9. QED
  BY <1>1, <1>2, <1>3, <1>4, <1>5, <1>6, <1>7, <1>8 DEF Change
-----------------------------------------------------------------------------
(* The surroundings. *)

LEMMA ReplyInv ==
  ASSUME Inv, NEW t \in Threads, Reply(t)
  PROVE  Inv'
<1>0. /\ pc \in [Threads -> Steps] /\ task \in [Threads -> Task]
      /\ answer \in [Threads -> [key : Pages, seen : 0..MaxCommits] \cup {None}]
  BY DEF Inv, TypeOK
<1>1. /\ pc' = [pc EXCEPT ![t] = "idle"] /\ task' = [task EXCEPT ![t] = Idle]
      /\ answer' = [answer EXCEPT ![t] = None]
      /\ UNCHANGED <<now, log, up, shared, memory>>
  BY DEF Reply, Goto
<1>2. /\ pc' \in [Threads -> Steps] /\ task' \in [Threads -> Task] /\ pc'[t] = "idle"
      /\ answer' \in [Threads -> [key : Pages, seen : 0..MaxCommits] \cup {None}]
  BY <1>0, <1>1, IdleTask DEF Steps
<1>3. ThreadOK(t)'
  BY <1>2 DEF ThreadOK, Reading
<1>4. \A u \in Threads : ThreadOK(u)'
  BY <1>0, <1>1, <1>3, ThreadsInv
<1>5. QED
  BY <1>1, <1>2, <1>4, SameStores, Assemble

LEMMA RestartInv ==
  ASSUME Inv, NEW w \in Workers, Restart(w)
  PROVE  Inv'
<1>0. /\ pc \in [Threads -> Steps] /\ task \in [Threads -> Task]
      /\ answer \in [Threads -> [key : Pages, seen : 0..MaxCommits] \cup {None}]
      /\ shared \in [Keys -> Item \cup {None}]
      /\ memory \in [Workers -> [Keys -> Item \cup {None}]]
  BY DEF Inv, TypeOK
<1>1. /\ pc' \in [Threads -> Steps] /\ task' \in [Threads -> Task]
      /\ answer' \in [Threads -> [key : Pages, seen : 0..MaxCommits] \cup {None}]
  BY <1>0, IdleTask DEF Restart, Steps
<1>2. UNCHANGED <<now, log, up, shared>> /\ StoresKept
  BY <1>0 DEF Restart, StoresKept
<1>3. ASSUME NEW t \in Threads
      PROVE  ThreadOK(t)'
  <2>1. CASE WorkerOf(t) = w
    <3>1. pc'[t] = "idle"
      BY <2>1 DEF Restart
    <3>2. QED
      BY <3>1 DEF ThreadOK, Reading
  <2>2. CASE WorkerOf(t) # w
    <3>1. pc'[t] = pc[t] /\ task'[t] = task[t]
      BY <2>2 DEF Restart
    <3>2. QED
      BY <1>2, <3>1 DEF Inv, ThreadOK, Reading, Since, Promise!CurrentSince
  <2>3. QED
    BY <2>1, <2>2
<1>4. QED
  BY <1>1, <1>2, <1>3, StoresKeptInv, Assemble DEF StoresKept

(* Time makes what is stored older, but not what it was current since.     *)
LEMMA TickInv ==
  ASSUME Inv, Tick
  PROVE  Inv'
<1>0. /\ now \in Nat /\ Horizon \in Nat /\ now < Horizon /\ now' = now + 1
      /\ UNCHANGED <<log, up, memory, pc, task, answer>>
      /\ shared \in [Keys -> Item \cup {None}]
      /\ memory \in [Workers -> [Keys -> Item \cup {None}]]
      /\ task \in [Threads -> Task]
      /\ log \in Seq([at : 0..Horizon, change : Changes])
  BY CacheAssumption DEF Inv, TypeOK, Tick
<1>1. \A k \in Keys : shared'[k] \in {shared[k], None}
  BY <1>0 DEF Tick
<1>2. shared' \in [Keys -> Item \cup {None}]
  BY <1>0 DEF Tick
<1>3. TypeOK'
  BY <1>0, <1>2 DEF Inv, TypeOK
<1>4. LogOK'
  <2>1. ASSUME NEW n \in 1..Len(log)
        PROVE  log[n].at <= now + 1
    <3>1. log[n] \in [at : 0..Horizon, change : Changes]
      BY <1>0, ElementOfSeq
    <3>2. log[n].at \in Int /\ log[n].at <= now
      BY <1>0, <3>1 DEF Inv, LogOK
    <3>3. QED
      BY <1>0, <3>2
  <2>2. QED
    BY <1>0, <2>1 DEF LogOK
<1>5. ASSUME NEW k \in Keys, NEW item \in Item, ItemOK(item, k)
      PROVE  ItemOK(item, k)'
  <2>1. Ttl(k) \in Nat /\ item.expires \in Nat
    BY TtlNat DEF Item
  <2>2. item.expires <= (now + Ttl(k)) + 1
    BY <1>0, <1>5, <2>1 DEF ItemOK
  <2>3. item.expires <= (now + 1) + Ttl(k)
    BY <1>0, <2>1, <2>2
  <2>4. QED
    BY <1>0, <1>5, <2>3 DEF ItemOK, Since, Promise!CurrentSince, Hold, Ttl
<1>6. StoresOK'
  <2>1. ASSUME NEW k \in Keys, shared'[k] # None
        PROVE  ItemOK(shared[k], k)' /\ shared'[k] = shared[k]
    <3>1. shared'[k] = shared[k] /\ shared[k] \in Item /\ ItemOK(shared[k], k)
      BY <1>0, <1>1, <2>1 DEF Inv, StoresOK
    <3>2. QED
      BY <1>5, <3>1 DEF ItemOK, Since, Promise!CurrentSince, Hold, Ttl
  <2>2. ASSUME NEW w \in Workers, NEW k \in Keys, memory[w][k] # None
        PROVE  ItemOK(memory[w][k], k)'
    <3>1. memory[w][k] \in Item /\ ItemOK(memory[w][k], k)
      BY <1>0, <2>2 DEF Inv, StoresOK
    <3>2. QED
      BY <1>0, <1>5, <3>1 DEF ItemOK, Since, Promise!CurrentSince, Hold, Ttl
  <2>3. QED
    BY <1>0, <2>1, <2>2 DEF StoresOK, ItemOK, Since, Promise!CurrentSince
<1>7. ASSUME NEW t \in Threads
      PROVE  ThreadOK(t)'
  <2>1. task[t].since \in Nat /\ Slow \in Nat
    BY <1>0, CacheAssumption DEF Task
  <2>2. ASSUME pc[t] \in {"touch", "set", "settle"}
        PROVE  task[t].since <= now + 1 /\ now + 1 <= task[t].since + Slow
    <3>1. task[t].since <= now /\ now < task[t].since + Slow
      BY <2>2 DEF Inv, ThreadOK, Tick
    <3>2. QED
      BY <1>0, <2>1, <3>1
  <2>3. QED
    BY <1>0, <2>2 DEF Inv, ThreadOK, Reading, Since, Promise!CurrentSince, Hold, Ttl
<1>8. QED
  BY <1>3, <1>4, <1>6, <1>7 DEF Inv

LEMMA NextInv == Inv /\ [Next]_vars => Inv'
<1> SUFFICES ASSUME Inv, [Next]_vars
             PROVE  Inv'
  OBVIOUS
<1>1. ASSUME NEW t \in Threads, Read(t)
      PROVE  Inv'
  BY <1>1, ReadInv
<1>2. ASSUME NEW t \in Threads, Change(t)
      PROVE  Inv'
  BY <1>2, ChangeInv
<1>3. ASSUME NEW t \in Threads, Reply(t)
      PROVE  Inv'
  BY <1>3, ReplyInv
<1>4. CASE RedisFails \/ RedisReturns
  BY <1>4 DEF RedisFails, RedisReturns, Inv, TypeOK, LogOK, StoresOK, ItemOK, ThreadOK, Reading,
              Since, Promise!CurrentSince
<1>5. CASE Tick
  BY <1>5, TickInv
<1>6. ASSUME NEW w \in Workers, Restart(w)
      PROVE  Inv'
  BY <1>6, RestartInv
<1>7. CASE UNCHANGED vars
  BY <1>7 DEF vars, Inv, TypeOK, LogOK, StoresOK, ItemOK, ThreadOK, Reading,
              Since, Promise!CurrentSince
<1>8. QED
  BY <1>1, <1>2, <1>3, <1>4, <1>5, <1>6, <1>7 DEF Next

(* The invariant holds in every reachable state: every cached value was    *)
(* current when it was read from the database, and how long ago that was    *)
(* follows from its expiry.                                                *)
THEOREM Invariance == Spec => []Inv
<1>1. QED
  BY InitInv, NextInv, PTL DEF Spec

(* The variables of RedisCache, of the worker threads and of the database   *)
(* keep their types, through outages, restarts and failures.                *)
THEOREM TypeCorrect == Spec => []TypeOK
<1>1. Inv => TypeOK
  BY DEF Inv
<1>2. QED
  BY <1>1, Invariance, PTL
-----------------------------------------------------------------------------
(* The steps of Cache are steps of Freshness. *)

LEMMA AnswerStep ==
  ASSUME Inv, NEW t \in Threads, Reading(t), NEW seen, NEW since, ValueOK(t, seen, since),
         HaveValue(t, seen, since), UNCHANGED <<now, log>>
  PROVE  [Promise!Next]_<<now, log, answer>>
<1>1. CASE task[t].key = task[t].asked
  <2> DEFINE k == task[t].asked
  <2>1. k \in Keys
    BY DEF Inv, ThreadOK, Keys
  <2>2. answer' = [answer EXCEPT ![t] = [key |-> k, seen |-> seen]]
    BY <1>1 DEF HaveValue, Respond
  <2>3. Promise!CurrentSince(seen, now - AgeBound[k])
    BY <1>1 DEF ValueOK, Servable, Since
  <2>4. seen \in 0..Len(log)
    BY <2>3 DEF Promise!CurrentSince
  <2>5. Promise!Answer(t, k)
    BY <2>2, <2>3, <2>4 DEF Promise!Answer
  <2>6. QED
    BY <2>1, <2>5 DEF Promise!Next
<1>2. CASE task[t].key # task[t].asked
  BY <1>2 DEF HaveValue
<1>3. QED
  BY <1>1, <1>2

LEMMA ReadStep ==
  ASSUME Inv, NEW t \in Threads, Read(t)
  PROVE  [Promise!Next]_<<now, log, answer>>
<1>0. /\ ThreadOK(t) /\ WorkerOf(t) \in Workers
      /\ shared \in [Keys -> Item \cup {None}]
      /\ memory \in [Workers -> [Keys -> Item \cup {None}]]
  BY WorkerOfThread DEF Inv, TypeOK
<1>1. ASSUME NEW k \in Pages, AskFor(t, k)
      PROVE  UNCHANGED <<now, log, answer>>
  BY <1>1 DEF AskFor
<1>2. CASE GetRedis(t)
  <2> DEFINE k == task[t].key
  <2>1. CASE Live(shared[k])
    <3>1. k \in Keys /\ Reading(t) /\ pc[t] = "get"
      BY <1>0, <1>2 DEF GetRedis, ThreadOK, Reading, Keys, Pages
    <3>2. shared[k] \in Item /\ ItemOK(shared[k], k)
      BY <1>0, <2>1, <3>1 DEF Live, Inv, StoresOK
    <3>3. ValueOK(t, shared[k].seen, now)
      BY <2>1, <3>1, <3>2, HitValue
    <3>4. QED
      BY <1>2, <2>1, <3>1, <3>3, AnswerStep DEF GetRedis
  <2>2. CASE ~Live(shared[k])
    BY <1>2, <2>2 DEF GetRedis, Miss
  <2>3. QED
    BY <2>1, <2>2
<1>3. CASE GetMemory(t)
  BY <1>3 DEF GetMemory, Miss
<1>4. CASE Touch(t)
  BY <1>4, HeldValue, AnswerStep DEF Touch, Reading
<1>5. CASE Load(t)
  BY <1>5 DEF Load
<1>6. CASE SetRedis(t)
  BY <1>6, HeldValue, AnswerStep DEF SetRedis, Reading
<1>7. CASE SetMemory(t)
  BY <1>7 DEF SetMemory
<1>8. CASE Settle(t)
  BY <1>8, HeldValue, AnswerStep DEF Settle, Reading
<1>9. CASE Drop(t)
  BY <1>9 DEF Drop, Miss
<1>10. QED
  BY <1>1, <1>2, <1>3, <1>4, <1>5, <1>6, <1>7, <1>8, <1>9 DEF Read

LEMMA ChangeStep ==
  ASSUME Inv, NEW t \in Threads, Change(t)
  PROVE  [Promise!Next]_<<now, log, answer>>
<1>1. CASE Commit(t)
  <2>1. CASE UNCHANGED log
    BY <1>1, <2>1 DEF Commit
  <2>2. CASE ~UNCHANGED log
    <3> DEFINE c == [about |-> task[t].about, drops |-> Listed(task[t].todo)]
    <3>1. log' = Append(log, [at |-> now, change |-> c]) /\ UNCHANGED <<now, answer>>
      BY <1>1, <2>2 DEF Commit
    <3>2. task[t] \in Task
      BY DEF Inv, TypeOK
    <3>3. task[t].todo \in Seq(Keys) /\ task[t].about \in SUBSET Facts
      BY <3>2 DEF Task
    <3>4. c \in Changes
      BY <3>3, ToDo DEF Changes
    <3>5. QED
      BY <3>1, <3>4 DEF Promise!Next, Promise!Write
  <2>3. QED
    BY <2>1, <2>2
<1>2. CASE ~Commit(t)
  BY <1>2 DEF Change, SaveEntry, MoveEntry, PurgeEntry, SaveVehicle, Begin, InvalidatePrefix,
              SweepFails, Written, Done
<1>3. QED
  BY <1>1, <1>2

LEMMA ForgetStep ==
  ASSUME Inv, NEW T \in SUBSET Threads, UNCHANGED <<now, log>>,
         answer' = [t \in Threads |-> IF t \in T THEN None ELSE answer[t]]
  PROVE  [Promise!Next]_<<now, log, answer>>
  BY DEF Promise!Next, Promise!Forget

(* The cache keeps its promise: however requests, writes, invalidations,    *)
(* outages of Redis and restarts of workers interleave, what a page shows   *)
(* was the truth at most AgeBound ago.                                     *)
THEOREM Refinement == Spec => ImplementsFreshness
<1>1. Init => Promise!Init
  BY DEF Init, Promise!Init
<1>2. Inv /\ [Next]_vars => [Promise!Next]_<<now, log, answer>>
  <2> SUFFICES ASSUME Inv, [Next]_vars
               PROVE  [Promise!Next]_<<now, log, answer>>
    OBVIOUS
  <2>0. answer \in [Threads -> [key : Pages, seen : 0..MaxCommits] \cup {None}]
    BY DEF Inv, TypeOK
  <2>1. ASSUME NEW t \in Threads, Read(t)
        PROVE  [Promise!Next]_<<now, log, answer>>
    BY <2>1, ReadStep
  <2>2. ASSUME NEW t \in Threads, Change(t)
        PROVE  [Promise!Next]_<<now, log, answer>>
    BY <2>2, ChangeStep
  <2>3. ASSUME NEW t \in Threads, Reply(t)
        PROVE  [Promise!Next]_<<now, log, answer>>
    <3>1. answer' = [u \in Threads |-> IF u \in {t} THEN None ELSE answer[u]]
      BY <2>0, <2>3 DEF Reply
    <3>2. {t} \in SUBSET Threads /\ UNCHANGED <<now, log>>
      BY <2>3 DEF Reply
    <3>3. QED
      BY <3>1, <3>2, ForgetStep
  <2>4. ASSUME NEW w \in Workers, Restart(w)
        PROVE  [Promise!Next]_<<now, log, answer>>
    <3> DEFINE T == {u \in Threads : WorkerOf(u) = w}
    <3>1. answer' = [u \in Threads |-> IF u \in T THEN None ELSE answer[u]]
      BY <2>4 DEF Restart
    <3>2. T \in SUBSET Threads /\ UNCHANGED <<now, log>>
      BY <2>4 DEF Restart
    <3>3. QED
      BY <3>1, <3>2, ForgetStep
  <2>5. CASE RedisFails \/ RedisReturns \/ UNCHANGED vars
    BY <2>5 DEF RedisFails, RedisReturns, vars
  <2>6. CASE Tick
    BY <2>6 DEF Tick, Promise!Next, Promise!Pass
  <2>7. QED
    BY <2>1, <2>2, <2>3, <2>4, <2>5, <2>6 DEF Next
<1>3. QED
  BY <1>1, <1>2, Invariance, PTL DEF Spec, ImplementsFreshness, Promise!Spec
-----------------------------------------------------------------------------
(* How many entries the memory of a worker holds. *)

Settling(w) == {t \in Threads : WorkerOf(t) = w /\ pc[t] = "settle"}

(* The entries that no thread is about to evict for. *)
Kept(w) == Cached(w) \ {task[t].key : t \in Settling(w)}

RoomOf(w) == IsFiniteSet(Cached(w)) /\ IsFiniteSet(Settling(w)) /\ Cardinality(Kept(w)) <= MaxSize

Room == \A w \in Workers : RoomOf(w)

LEMMA MaxSizeNat == MaxSize \in Nat
BY CacheAssumption

(* Fewer entries are kept, and one thread more at most is about to evict. *)
LEMMA RoomKept ==
  ASSUME NEW w \in Workers, RoomOf(w), NEW x, NEW t,
         Cached(w)' \subseteq Cached(w) \cup {x}, Settling(w)' \subseteq Settling(w) \cup {t},
         Kept(w)' \subseteq Kept(w)
  PROVE  RoomOf(w)'
<1>1. IsFiniteSet(Cached(w)') /\ IsFiniteSet(Settling(w)')
  BY FS_AddElement, FS_Subset DEF RoomOf
<1>2. IsFiniteSet(Kept(w))
  BY FS_Subset DEF RoomOf, Kept
<1>3. /\ Cardinality(Kept(w)') \in Nat /\ Cardinality(Kept(w)) \in Nat
      /\ Cardinality(Kept(w)') <= Cardinality(Kept(w))
  BY <1>2, FS_Subset, FS_CardinalityType
<1>4. Cardinality(Kept(w)) <= MaxSize
  BY DEF RoomOf
<1>5. Cardinality(Kept(w)') <= MaxSize
  BY <1>3, <1>4, MaxSizeNat
<1> QED
  BY <1>1, <1>5 DEF RoomOf

(* No thread comes to evict or has done so, and entries only go. *)
Elsewhere(t) ==
  /\ pc[t] # "settle" /\ pc'[t] # "settle"
  /\ \A u \in Threads \ {t} : pc'[u] = pc[u] /\ task'[u] = task[u]
  /\ \A w \in Workers, k \in Keys : memory'[w][k] \in {memory[w][k], None}

LEMMA ElsewhereRoom == ASSUME Room, NEW t \in Threads, Elsewhere(t) PROVE Room'
<1> SUFFICES ASSUME NEW w \in Workers PROVE RoomOf(w)'
  BY DEF Room
<1>1. Settling(w)' = Settling(w)
  BY DEF Elsewhere, Settling
<1>2. \A u \in Settling(w) : task'[u] = task[u]
  BY DEF Elsewhere, Settling
<1>3. Cached(w)' \subseteq Cached(w)
  BY DEF Elsewhere, Cached
<1>4. Kept(w)' \subseteq Kept(w)
  BY <1>1, <1>2, <1>3 DEF Kept
<1> QED
  BY <1>1, <1>3, <1>4, RoomKept DEF Room

LEMMA HaveValueMoves ==
  ASSUME Inv, NEW t \in Threads, NEW seen, NEW since, HaveValue(t, seen, since)
  PROVE  /\ pc'[t] \in {"done", "set"}
         /\ \A u \in Threads \ {t} : pc'[u] = pc[u] /\ task'[u] = task[u]
         /\ task'[t].commit = task[t].commit /\ task'[t].todo = task[t].todo
<1>1. pc \in [Threads -> Steps] /\ task \in [Threads -> Task] /\ task[t] \in Task
  BY DEF Inv, TypeOK
<1>2. CASE task[t].key = task[t].asked
  BY <1>1, <1>2 DEF HaveValue, Respond, Goto
<1>3. CASE task[t].key # task[t].asked
  <2>1. /\ pc' = [pc EXCEPT ![t] = "set"]
        /\ task' = [task EXCEPT ![t].key = task[t].asked, ![t].seen = seen, ![t].since = since]
    BY <1>3 DEF HaveValue, Goto
  <2>2. task'[t] = [task[t] EXCEPT !.key = task[t].asked, !.seen = seen, !.since = since]
    BY <1>1, <2>1
  <2> QED
    BY <1>1, <2>1, <2>2 DEF Task
<1> QED
  BY <1>2, <1>3

LEMMA MissMoves ==
  ASSUME Inv, NEW t \in Threads, Miss(t)
  PROVE  /\ pc'[t] \in {"get", "load"}
         /\ \A u \in Threads \ {t} : pc'[u] = pc[u] /\ task'[u] = task[u]
         /\ task'[t].commit = task[t].commit /\ task'[t].todo = task[t].todo
<1>1. pc \in [Threads -> Steps] /\ task \in [Threads -> Task] /\ task[t] \in Task
  BY DEF Inv, TypeOK
<1>2. CASE task[t].key # "snapshot"
  BY <1>1, <1>2 DEF Miss, Goto
<1>3. CASE task[t].key = "snapshot"
  <2>1. pc' = [pc EXCEPT ![t] = "get"] /\ task' = [task EXCEPT ![t].key = "cards"]
    BY <1>3 DEF Miss, Goto
  <2>2. task'[t] = [task[t] EXCEPT !.key = "cards"]
    BY <1>1, <2>1
  <2> QED
    BY <1>1, <2>1, <2>2 DEF Task
<1> QED
  BY <1>2, <1>3

LEMMA ReadRoom == ASSUME Inv, Room, NEW t \in Threads, Read(t) PROVE Room'
<1>1. /\ pc \in [Threads -> Steps] /\ task \in [Threads -> Task]
      /\ memory \in [Workers -> [Keys -> Item \cup {None}]] /\ WorkerOf(t) \in Workers
  BY WorkerOfThread DEF Inv, TypeOK
<1>2. ASSUME NEW k \in Pages, AskFor(t, k) PROVE Room'
  <2>1. Elsewhere(t)
    BY <1>1, <1>2 DEF AskFor, Goto, Elsewhere
  <2> QED
    BY <2>1, ElsewhereRoom
<1>3. CASE GetRedis(t)
  <2>1. Elsewhere(t)
    BY <1>3, HaveValueMoves, MissMoves DEF GetRedis, Elsewhere
  <2> QED
    BY <2>1, ElsewhereRoom
<1>4. CASE GetMemory(t)
  <2>1. pc[t] = "get" /\ memory' = memory
    BY <1>4 DEF GetMemory
  <2>2. /\ pc'[t] # "settle"
        /\ \A u \in Threads \ {t} : pc'[u] = pc[u] /\ task'[u] = task[u]
    BY <1>1, <1>4, MissMoves DEF GetMemory, Goto
  <2>3. Elsewhere(t)
    BY <2>1, <2>2 DEF Elsewhere
  <2> QED
    BY <2>3, ElsewhereRoom
<1>5. CASE Drop(t)
  <2>1. /\ pc[t] = "drop" /\ Miss(t)
        /\ memory' = [memory EXCEPT ![WorkerOf(t)] = [@ EXCEPT ![task[t].key] = None]]
    BY <1>5 DEF Drop, Put
  <2>2. \A w \in Workers, k \in Keys : memory'[w][k] \in {memory[w][k], None}
    BY <1>1, <2>1
  <2>3. Elsewhere(t)
    BY <2>1, <2>2, MissMoves DEF Elsewhere
  <2> QED
    BY <2>3, ElsewhereRoom
<1>6. CASE Touch(t)
  <2>1. pc[t] = "touch" /\ memory' = memory
    BY <1>6 DEF Touch
  <2>2. /\ pc'[t] # "settle"
        /\ \A u \in Threads \ {t} : pc'[u] = pc[u] /\ task'[u] = task[u]
    BY <1>1, <1>6, HaveValueMoves DEF Touch, Goto
  <2>3. Elsewhere(t)
    BY <2>1, <2>2 DEF Elsewhere
  <2> QED
    BY <2>3, ElsewhereRoom
<1>7. CASE Load(t)
  <2>1. Elsewhere(t)
    BY <1>1, <1>7 DEF Load, Goto, Elsewhere
  <2> QED
    BY <2>1, ElsewhereRoom
<1>8. CASE SetRedis(t)
  <2>1. Elsewhere(t)
    BY <1>8, HaveValueMoves DEF SetRedis, Elsewhere
  <2> QED
    BY <2>1, ElsewhereRoom
<1>9. CASE SetMemory(t)
  <2> DEFINE v == WorkerOf(t)
             k == task[t].key
  <2>1. /\ pc' = [pc EXCEPT ![t] = "settle"] /\ task' = task
        /\ memory' = [memory EXCEPT ![v] = [@ EXCEPT ![k] = NewItem(t)]]
    BY <1>9 DEF SetMemory, Goto, Put
  <2>2. ASSUME NEW w \in Workers PROVE RoomOf(w)'
    <3>1. Settling(w) \subseteq Settling(w)' /\ Settling(w)' \subseteq Settling(w) \cup {t}
      BY <1>1, <2>1 DEF Settling
    <3>2. Cached(w)' \subseteq Cached(w) \cup (IF w = v THEN {k} ELSE {})
      BY <1>1, <2>1 DEF Cached
    <3>3. w = v => t \in Settling(w)'
      BY <1>1, <2>1 DEF Settling
    <3>4. Kept(w)' \subseteq Kept(w)
      BY <2>1, <3>1, <3>2, <3>3 DEF Kept
    <3>5. Cached(w)' \subseteq Cached(w) \cup {k}
      BY <3>2
    <3> QED
      BY <3>1, <3>4, <3>5, RoomKept DEF Room
  <2> QED
    BY <2>2 DEF Room
<1>10. CASE Settle(t)
  <2> DEFINE v == WorkerOf(t)
             k == task[t].key
  <2>1. /\ pc[t] = "settle" /\ pc'[t] # "settle"
        /\ \A u \in Threads \ {t} : pc'[u] = pc[u] /\ task'[u] = task[u]
    BY <1>1, <1>10, HaveValueMoves DEF Settle, Goto
  <2>2. \A w \in Workers : Settling(w)' = Settling(w) \ {t}
    BY <2>1 DEF Settling
  <2>3. ASSUME NEW w \in Workers, Cached(w)' \subseteq Cached(w),
               w = v => k \notin Cached(w)
        PROVE  RoomOf(w)'
    <3>1. w # v => t \notin Settling(w)
      BY DEF Settling
    <3>2. \A u \in Settling(w) \ {t} : task'[u] = task[u]
      BY <2>1 DEF Settling
    <3>3. Kept(w)' \subseteq Kept(w)
      BY <2>2, <2>3, <3>1, <3>2 DEF Kept
    <3> QED
      BY <2>2, <2>3, <3>3, RoomKept DEF Room
  <2>4. CASE memory[v][k] = None
    <3>1. memory' = memory /\ k \notin Cached(v)
      BY <1>10, <2>4 DEF Settle, Cached
    <3>2. \A w \in Workers : Cached(w)' = Cached(w)
      BY <3>1 DEF Cached
    <3> QED
      BY <2>3, <3>1, <3>2 DEF Room
  <2>5. CASE memory[v][k] # None
    <3>1. PICK gone \in SUBSET (Cached(v) \ {k}) :
            /\ \/ gone = {} /\ Cardinality(Cached(v)) <= MaxSize
               \/ Cardinality(Cached(v) \ gone) = MaxSize
            /\ memory' = [memory EXCEPT ![v] = [x \in Keys |-> IF x \in gone THEN None ELSE @[x]]]
      BY <1>10, <2>5 DEF Settle
    <3>2. Cached(v)' = Cached(v) \ gone
      BY <1>1, <3>1 DEF Cached
    <3>3. Cardinality(Cached(v)') <= MaxSize
      BY <3>1, <3>2, MaxSizeNat
    <3>4. IsFiniteSet(Cached(v)') /\ IsFiniteSet(Settling(v)')
      BY <1>1, <2>2, <3>2, FS_Subset DEF Room, RoomOf
    <3>5. Cardinality(Kept(v)') <= MaxSize
      <4>1. /\ Cardinality(Kept(v)') \in Nat /\ Cardinality(Cached(v)') \in Nat
            /\ Cardinality(Kept(v)') <= Cardinality(Cached(v)')
        BY <3>4, FS_Subset, FS_CardinalityType DEF Kept
      <4> QED
        BY <3>3, <4>1, MaxSizeNat
    <3>6. \A w \in Workers \ {v} : Cached(w)' = Cached(w)
      BY <1>1, <3>1 DEF Cached
    <3> QED
      BY <2>3, <3>4, <3>5, <3>6 DEF Room, RoomOf
  <2> QED
    BY <2>4, <2>5
<1> QED
  BY <1>2, <1>3, <1>4, <1>5, <1>6, <1>7, <1>8, <1>9, <1>10 DEF Read

(* What a write does to the others and to the memory. *)
LEMMA ChangeMoves ==
  ASSUME Inv, NEW t \in Threads, Change(t) \/ Reply(t)
  PROVE  Elsewhere(t)
<1>1. /\ pc \in [Threads -> Steps] /\ task \in [Threads -> Task]
      /\ memory \in [Workers -> [Keys -> Item \cup {None}]] /\ WorkerOf(t) \in Workers
  BY WorkerOfThread DEF Inv, TypeOK
<1>2. ASSUME NEW about, NEW todo, Begin(t, about, todo) PROVE Elsewhere(t)
  BY <1>1, <1>2 DEF Begin, Goto, Elsewhere
<1>3. CASE SaveEntry(t) \/ MoveEntry(t) \/ PurgeEntry(t) \/ SaveVehicle(t)
  BY <1>2, <1>3 DEF SaveEntry, MoveEntry, PurgeEntry, SaveVehicle
<1>4. CASE Commit(t)
  BY <1>1, <1>4 DEF Commit, Goto, Elsewhere
<1>5. CASE InvalidatePrefix(t)
  <2>1. pc[t] = "invalidate" /\ pc' = pc /\ task' = [task EXCEPT ![t].todo = Tail(@)]
    BY <1>5 DEF InvalidatePrefix
  <2>2. \A w \in Workers, k \in Keys : memory'[w][k] \in {memory[w][k], None}
    <3>1. \/ memory' = memory
          \/ memory' = [memory EXCEPT ![WorkerOf(t)] = [@ EXCEPT ![Head(task[t].todo)] = None]]
      BY <1>5 DEF InvalidatePrefix, Put
    <3> QED
      BY <1>1, <3>1
  <2> QED
    BY <1>1, <2>1, <2>2 DEF Elsewhere
<1>6. CASE SweepFails(t) \/ Written(t)
  BY <1>1, <1>6 DEF SweepFails, Written, Done, Goto, Elsewhere
<1>7. CASE Reply(t)
  BY <1>1, <1>7 DEF Reply, Goto, Elsewhere
<1> QED
  BY <1>3, <1>4, <1>5, <1>6, <1>7 DEF Change

LEMMA RestartRoom == ASSUME Inv, Room, NEW v \in Workers, Restart(v) PROVE Room'
<1> SUFFICES ASSUME NEW w \in Workers PROVE RoomOf(w)'
  BY DEF Room
<1>1. memory \in [Workers -> [Keys -> Item \cup {None}]]
  BY DEF Inv, TypeOK
<1>2. Settling(w)' \subseteq Settling(w)
  BY DEF Restart, Settling
<1>3. CASE w = v
  <2>1. Cached(w)' = {}
    BY <1>1, <1>3 DEF Restart, Cached
  <2>2. Kept(w)' = {}
    BY <2>1 DEF Kept
  <2> QED
    BY <1>2, <2>1, <2>2, RoomKept DEF Room
<1>4. CASE w # v
  <2>1. Cached(w)' = Cached(w)
    BY <1>1, <1>4 DEF Restart, Cached
  <2>2. Settling(w)' = Settling(w) /\ \A u \in Settling(w) : task'[u] = task[u]
    BY <1>4 DEF Restart, Settling
  <2>3. Kept(w)' = Kept(w)
    BY <2>1, <2>2 DEF Kept
  <2> QED
    BY <2>1, <2>2, <2>3, RoomKept DEF Room
<1> QED
  BY <1>3, <1>4

LEMMA InitRoom == Init => Room
<1> SUFFICES ASSUME Init, NEW w \in Workers PROVE RoomOf(w)
  BY DEF Room
<1>1. Cached(w) = {} /\ Settling(w) = {} /\ Kept(w) = {}
  BY DEF Init, Cached, Settling, Kept
<1> QED
  BY <1>1, FS_EmptySet, MaxSizeNat DEF RoomOf

LEMMA NextRoom == Inv /\ Room /\ [Next]_vars => Room'
<1> SUFFICES ASSUME Inv, Room, [Next]_vars PROVE Room'
  OBVIOUS
<1>1. ASSUME NEW t \in Threads, Read(t) \/ Change(t) \/ Reply(t) PROVE Room'
  BY <1>1, ReadRoom, ChangeMoves, ElsewhereRoom
<1>2. ASSUME NEW w \in Workers, Restart(w) PROVE Room'
  BY <1>2, RestartRoom
<1>3. CASE RedisFails \/ RedisReturns \/ Tick \/ UNCHANGED vars
  <2>1. memory' = memory /\ pc' = pc /\ task' = task
    BY <1>3 DEF RedisFails, RedisReturns, Tick, vars
  <2>2. \A w \in Workers : Cached(w)' = Cached(w) /\ Settling(w)' = Settling(w) /\ Kept(w)' = Kept(w)
    BY <2>1 DEF Cached, Settling, Kept
  <2> QED
    BY <2>2 DEF Room, RoomOf
<1> QED
  BY <1>1, <1>2, <1>3 DEF Next

LEMMA KeysBound ==
  ASSUME NEW w \in Workers, RoomOf(w)
  PROVE  /\ IsFiniteSet({task[t].key : t \in Settling(w)})
         /\ Cardinality({task[t].key : t \in Settling(w)}) <= Cardinality(Settling(w))
<1> DEFINE K == {task[t].key : t \in Settling(w)}
           f == [t \in Settling(w) |-> task[t].key]
<1>1. f \in Surjection(Settling(w), K)
  BY DEF Surjection
<1> QED
  BY <1>1, FS_Surjection DEF RoomOf

(* Without Redis, whatever the threads of a worker do to its memory between *)
(* a set and the evictions that follow it, it holds MaxSize entries, and one *)
(* for each thread still to evict.                                         *)
THEOREM MemoryStaysBounded == Spec => []MemoryBounded
<1>1. Room => MemoryBounded
  <2> SUFFICES ASSUME Room, NEW w \in Workers
               PROVE  Cardinality(Cached(w)) <= MaxSize + Cardinality(Settling(w))
    BY DEF MemoryBounded, Settling
  <2> DEFINE K == {task[t].key : t \in Settling(w)}
  <2>1. RoomOf(w) /\ IsFiniteSet(Cached(w)) /\ IsFiniteSet(Settling(w)) /\ IsFiniteSet(Kept(w))
        /\ Cardinality(Kept(w)) <= MaxSize
    BY FS_Subset DEF Room, RoomOf, Kept
  <2>2. IsFiniteSet(K) /\ Cardinality(K) <= Cardinality(Settling(w))
    BY <2>1, KeysBound
  <2>3. Cached(w) \subseteq Kept(w) \cup K
    BY DEF Kept
  <2> HIDE DEF K
  <2>4. /\ IsFiniteSet(Kept(w) \cup K) /\ IsFiniteSet(Kept(w) \cap K)
        /\ Cardinality(Kept(w) \cup K)
             = Cardinality(Kept(w)) + Cardinality(K) - Cardinality(Kept(w) \cap K)
    BY <2>1, <2>2, FS_Union, FS_Intersection
  <2>5. Cardinality(Cached(w)) <= Cardinality(Kept(w) \cup K)
    BY <2>3, <2>4, FS_Subset
  <2>6. /\ Cardinality(Kept(w)) \in Nat /\ Cardinality(K) \in Nat
        /\ Cardinality(Kept(w) \cap K) \in Nat /\ Cardinality(Settling(w)) \in Nat
        /\ Cardinality(Cached(w)) \in Nat /\ Cardinality(Kept(w) \cup K) \in Nat
    BY <2>1, <2>2, <2>4, FS_CardinalityType
  <2> QED
    BY <2>1, <2>2, <2>4, <2>5, <2>6, MaxSizeNat
<1>2. Spec => []Room
  BY InitRoom, NextRoom, Invariance, PTL DEF Spec
<1> QED
  BY <1>1, <1>2, PTL
-----------------------------------------------------------------------------
(* What the invalidations of a write leave behind, while Redis answers and *)
(* no worker dies: every entry older than the write that its handler names *)
(* is gone, or that handler is still going through its prefixes.           *)

(* The thread has no invalidation left to do. *)
AtRest(t) == task[t].commit = 0 \/ task[t].todo = <<>>

(* With Redis there, a handler leaves its prefixes only when it is through *)
(* with them; without it, nothing comes to be in Redis.                    *)
Swept ==
  /\ up => \A t \in Threads : pc[t] # "invalidate" => AtRest(t)
  /\ ~up => \A k \in Keys : shared[k] = None

Sweep == Swept /\ InvalidationComplete

(* One thread moves that has nothing to invalidate, before or after.       *)
Steady(t) ==
  /\ log' = log /\ up' = up /\ AtRest(t) /\ AtRest(t)'
  /\ \A u \in Threads \ {t} : pc'[u] = pc[u] /\ task'[u] = task[u]
  /\ \A k \in Keys :
       shared'[k] \in {shared[k], None} \/ shared'[k].stored = Len(log)

LEMMA LogLength == ASSUME Inv PROVE Len(log) \in Nat
BY DEF Inv, TypeOK

LEMMA RestDoesNotOwe ==
  ASSUME NEW t, AtRest(t), NEW k, NEW n \in 1..Len(log), Inv
  PROVE  ~(task[t].commit = n /\ k \in Listed(task[t].todo))
<1>1. n # 0
  BY LogLength
<1>2. task[t].todo = <<>> => Listed(task[t].todo) = {}
  BY DEF Listed
<1> QED
  BY <1>1, <1>2 DEF AtRest

LEMMA SteadySweep ==
  ASSUME Inv, Sweep, up, NEW t \in Threads, Steady(t)
  PROVE  Sweep'
<1>1. Swept'
  BY DEF Sweep, Swept, Steady, AtRest
<1>2. ASSUME NEW k \in Keys, NEW n \in 1..Len(log), shared'[k] # None, shared'[k].stored < n,
             k \in log[n].change.drops
      PROVE  \E u \in Threads : task'[u].commit = n /\ k \in Listed(task'[u].todo)
  <2>1. shared'[k].stored # Len(log)
    BY <1>2, LogLength
  <2>2. shared'[k] = shared[k]
    BY <1>2, <2>1 DEF Steady
  <2>3. PICK u \in Threads : task[u].commit = n /\ k \in Listed(task[u].todo)
    BY <1>2, <2>2 DEF Sweep, InvalidationComplete
  <2>4. u # t
    BY <2>3, RestDoesNotOwe DEF Steady
  <2> QED
    BY <2>3, <2>4 DEF Steady
<1> QED
  BY <1>1, <1>2 DEF Sweep, InvalidationComplete, Steady

(* Without Redis, from the start and for good, there is nothing to sweep.  *)
LEMMA AbsentSweep ==
  ASSUME Sweep, ~up, up' = up, \A k \in Keys : shared'[k] \in {shared[k], None}
  PROVE  Sweep'
BY DEF Sweep, Swept, InvalidationComplete

(* A reader leaves what its thread has to invalidate alone, or starts anew. *)
Moved(t) ==
  /\ \A u \in Threads \ {t} : pc'[u] = pc[u] /\ task'[u] = task[u]
  /\ \/ task'[t].commit = task[t].commit /\ task'[t].todo = task[t].todo
     \/ task'[t].commit = 0

LEMMA ReadSweep == ASSUME Inv, Sweep, NEW t \in Threads, Read(t) PROVE Sweep'
<1>1. /\ pc \in [Threads -> Steps] /\ task \in [Threads -> Task] /\ task[t] \in Task
      /\ shared \in [Keys -> Item \cup {None}]
  BY DEF Inv, TypeOK
<1>2. log' = log /\ up' = up
  BY DEF Read, AskFor, GetRedis, GetMemory, Touch, Drop, Load, SetRedis, SetMemory, Settle
<1>3. pc[t] # "invalidate"
  BY DEF Read, AskFor, GetRedis, GetMemory, Touch, Drop, Load, SetRedis, SetMemory, Settle
<1>4. ASSUME NEW seen, NEW since, HaveValue(t, seen, since) PROVE Moved(t)
  BY <1>4, HaveValueMoves DEF Moved
<1>5. ASSUME Miss(t) PROVE Moved(t)
  BY <1>5, MissMoves DEF Moved
<1>6. Moved(t)
  <2>1. ASSUME NEW k \in Pages, AskFor(t, k) PROVE Moved(t)
    <3>1. task' = [task EXCEPT ![t] = [Idle EXCEPT !.asked = k, !.key = k]]
          /\ pc' = [pc EXCEPT ![t] = "get"]
      BY <2>1 DEF AskFor, Goto
    <3>2. task'[t] = [Idle EXCEPT !.asked = k, !.key = k]
      BY <1>1, <3>1
    <3>3. task'[t].commit = 0
      BY <3>2 DEF Idle
    <3> QED
      BY <1>1, <3>1, <3>3 DEF Moved
  <2>2. CASE GetRedis(t)
    BY <1>4, <1>5, <2>2 DEF GetRedis
  <2>3. CASE GetMemory(t)
    <3>1. ASSUME NEW s, Goto(t, "touch"), task' = [task EXCEPT ![t].seen = s, ![t].since = now]
          PROVE  Moved(t)
      <4>1. task'[t] = [task[t] EXCEPT !.seen = s, !.since = now]
        BY <1>1, <3>1
      <4>2. task'[t].commit = task[t].commit /\ task'[t].todo = task[t].todo
        BY <1>1, <4>1 DEF Task
      <4> QED
        BY <1>1, <3>1, <4>2 DEF Moved, Goto
    <3>2. ASSUME Goto(t, "drop"), task' = task PROVE Moved(t)
      BY <1>1, <3>2 DEF Moved, Goto
    <3> QED
      BY <1>5, <2>3, <3>1, <3>2 DEF GetMemory
  <2>4. CASE Touch(t)
    <3>1. ASSUME Goto(t, "failed"), task' = task PROVE Moved(t)
      BY <1>1, <3>1 DEF Moved, Goto
    <3> QED
      BY <1>4, <2>4, <3>1 DEF Touch
  <2>5. CASE Drop(t)
    BY <1>5, <2>5 DEF Drop
  <2>6. CASE Load(t)
    <3>1. ASSUME Goto(t, "set"), task' = [task EXCEPT ![t].seen = Len(log), ![t].since = now]
          PROVE  Moved(t)
      <4>1. task'[t] = [task[t] EXCEPT !.seen = Len(log), !.since = now]
        BY <1>1, <3>1
      <4>2. task'[t].commit = task[t].commit /\ task'[t].todo = task[t].todo
        BY <1>1, <4>1 DEF Task
      <4> QED
        BY <1>1, <3>1, <4>2 DEF Moved, Goto
    <3>2. ASSUME Goto(t, "failed"), task' = task PROVE Moved(t)
      BY <1>1, <3>2 DEF Moved, Goto
    <3> QED
      BY <2>6, <3>1, <3>2 DEF Load
  <2>7. CASE SetRedis(t)
    BY <1>4, <2>7 DEF SetRedis
  <2>8. CASE SetMemory(t)
    BY <1>1, <2>8 DEF SetMemory, Goto, Moved
  <2>9. CASE Settle(t)
    <3>1. ASSUME Goto(t, "failed"), task' = task PROVE Moved(t)
      BY <1>1, <3>1 DEF Moved, Goto
    <3> QED
      BY <1>4, <2>9, <3>1 DEF Settle
  <2> QED
    BY <2>1, <2>2, <2>3, <2>4, <2>5, <2>6, <2>7, <2>8, <2>9 DEF Read
<1>7. CASE up
  <2>1. AtRest(t) /\ AtRest(t)'
    BY <1>3, <1>6, <1>7 DEF Sweep, Swept, AtRest, Moved
  <2>2. ASSUME NEW k \in Keys
        PROVE  shared'[k] \in {shared[k], None} \/ shared'[k].stored = Len(log)
    <3>1. CASE SetRedis(t)
      <4>1. shared' = [shared EXCEPT ![task[t].key] = NewItem(t)]
        BY <3>1 DEF SetRedis, Put
      <4>2. NewItem(t).stored = Len(log)
        BY DEF NewItem
      <4> QED
        BY <1>1, <4>1, <4>2
    <3>2. CASE ~SetRedis(t)
      BY <3>2 DEF Read, AskFor, GetRedis, GetMemory, Touch, Drop, Load, SetMemory, Settle
    <3> QED
      BY <3>1, <3>2
  <2>3. Steady(t)
    BY <1>2, <1>6, <2>1, <2>2 DEF Steady, Moved
  <2> QED
    BY <1>7, <2>3, SteadySweep
<1>8. CASE ~up
  <2>1. shared' = shared
    BY <1>8 DEF Read, AskFor, GetRedis, GetMemory, Touch, Drop, Load, SetRedis, SetMemory, Settle
  <2> QED
    BY <1>2, <1>8, <2>1, AbsentSweep
<1> QED
  BY <1>7, <1>8

(* The write that is committed is newer than everything in Redis, and its  *)
(* handler has all its prefixes before it.                                 *)
LEMMA CommitSweep ==
  ASSUME ~Outages, Inv, Sweep, up, NEW t \in Threads, Commit(t) PROVE Sweep'
<1>1. /\ pc \in [Threads -> Steps] /\ task \in [Threads -> Task] /\ task[t] \in Task
      /\ shared \in [Keys -> Item \cup {None}]
      /\ log \in Seq([at : 0..Horizon, change : Changes])
  BY DEF Inv, TypeOK
<1>2. shared' = shared /\ up' = up /\ pc[t] = "commit" /\ AtRest(t)
  BY DEF Commit, Sweep, Swept
<1>3. CASE Goto(t, "failed") /\ UNCHANGED <<log, task>>
  <2>1. Steady(t)
    BY <1>1, <1>2, <1>3 DEF Steady, AtRest, Goto
  <2> QED
    BY <2>1, SteadySweep
<1>4. CASE Goto(t, "invalidate") /\ ~(Goto(t, "failed") /\ UNCHANGED <<log, task>>)
  <2> DEFINE e == [at |-> now, change |-> [about |-> task[t].about, drops |-> Listed(task[t].todo)]]
  <2>1. /\ log' = Append(log, e) /\ task' = [task EXCEPT ![t].commit = Len(log) + 1]
        /\ pc' = [pc EXCEPT ![t] = "invalidate"]
    BY <1>4 DEF Commit, Goto
  <2>2. task'[t] = [task[t] EXCEPT !.commit = Len(log) + 1]
    BY <1>1, <2>1
  <2>3. task'[t].commit = Len(log) + 1 /\ task'[t].todo = task[t].todo
    BY <1>1, <2>2 DEF Task
  <2>4. /\ pc'[t] = "invalidate"
        /\ \A u \in Threads \ {t} : pc'[u] = pc[u] /\ task'[u] = task[u]
    BY <1>1, <2>1
  <2>5. Swept'
    BY <1>2, <2>4 DEF Sweep, Swept, AtRest
  <2>6. /\ Len(log) \in Nat /\ Len(log') = Len(log) + 1 /\ log'[Len(log) + 1] = e
        /\ \A n \in 1..Len(log) : log'[n] = log[n]
    BY <1>1, <2>1, LogLength
  <2>7. ASSUME NEW k \in Keys, NEW n \in 1..Len(log'), shared[k] # None, shared[k].stored < n,
               k \in log'[n].change.drops
        PROVE  \E u \in Threads : task'[u].commit = n /\ k \in Listed(task'[u].todo)
    <3>1. CASE n = Len(log) + 1
      BY <2>3, <2>6, <2>7, <3>1
    <3>2. CASE n # Len(log) + 1
      <4>1. n \in 1..Len(log)
        BY <2>6, <3>2
      <4>2. PICK u \in Threads : task[u].commit = n /\ k \in Listed(task[u].todo)
        BY <2>6, <2>7, <4>1 DEF Sweep, InvalidationComplete
      <4>3. u # t
        BY <1>2, <4>1, <4>2, RestDoesNotOwe
      <4> QED
        BY <2>4, <4>2, <4>3
    <3> QED
      BY <3>1, <3>2
  <2> QED
    BY <1>2, <2>5, <2>7 DEF Sweep, InvalidationComplete
<1> QED
  BY <1>3, <1>4 DEF Commit

(* A prefix goes from Redis before it goes from the list. *)
LEMMA PrefixSweep ==
  ASSUME Inv, Sweep, up, NEW t \in Threads, InvalidatePrefix(t) PROVE Sweep'
<1>1. /\ pc \in [Threads -> Steps] /\ task \in [Threads -> Task] /\ task[t] \in Task
      /\ shared \in [Keys -> Item \cup {None}]
  BY DEF Inv, TypeOK
<1> DEFINE k0 == Head(task[t].todo)
<1>2. /\ pc[t] = "invalidate" /\ task[t].todo # <<>> /\ log' = log /\ up' = up /\ pc' = pc
      /\ shared' = [shared EXCEPT ![k0] = None] /\ task' = [task EXCEPT ![t].todo = Tail(@)]
  BY DEF InvalidatePrefix, Put
<1>3. task'[t] = [task[t] EXCEPT !.todo = Tail(@)]
  BY <1>1, <1>2
<1>4. /\ task'[t].commit = task[t].commit /\ task'[t].todo = Tail(task[t].todo)
      /\ \A u \in Threads \ {t} : task'[u] = task[u]
      /\ task[t].todo \in Seq(Keys)
  BY <1>1, <1>2, <1>3 DEF Task
<1>5. Listed(task[t].todo) \subseteq Listed(Tail(task[t].todo)) \cup {k0}
  <2> SUFFICES ASSUME NEW i \in 1..Len(task[t].todo), task[t].todo[i] # k0
               PROVE  \E j \in 1..Len(Tail(task[t].todo)) : task[t].todo[i] = Tail(task[t].todo)[j]
    BY DEF Listed
  <2>1. /\ Len(task[t].todo) \in Nat /\ Len(Tail(task[t].todo)) = Len(task[t].todo) - 1
        /\ \A j \in 1..Len(Tail(task[t].todo)) : Tail(task[t].todo)[j] = task[t].todo[j + 1]
    BY <1>2, <1>4, HeadTailProperties
  <2>2. i # 1
    BY <1>2, <1>4
  <2>3. i - 1 \in 1..Len(Tail(task[t].todo)) /\ (i - 1) + 1 = i
    BY <2>1, <2>2
  <2> QED
    BY <2>1, <2>3
<1>6. Swept'
  BY <1>2, <1>4 DEF Sweep, Swept, AtRest
<1>7. ASSUME NEW k \in Keys, NEW n \in 1..Len(log), shared'[k] # None, shared'[k].stored < n,
             k \in log[n].change.drops
      PROVE  \E u \in Threads : task'[u].commit = n /\ k \in Listed(task'[u].todo)
  <2>1. k # k0 /\ shared'[k] = shared[k]
    BY <1>1, <1>2, <1>7
  <2>2. PICK u \in Threads : task[u].commit = n /\ k \in Listed(task[u].todo)
    BY <1>7, <2>1 DEF Sweep, InvalidationComplete
  <2> QED
    BY <1>4, <1>5, <2>1, <2>2
<1> QED
  BY <1>2, <1>6, <1>7 DEF Sweep, InvalidationComplete

LEMMA ChangeSweep ==
  ASSUME ~Outages, Inv, Sweep, NEW t \in Threads, Change(t) \/ Reply(t) PROVE Sweep'
<1>1. pc \in [Threads -> Steps] /\ task \in [Threads -> Task] /\ task[t] \in Task
  BY DEF Inv, TypeOK
<1>2. up' = up
  BY DEF Change, SaveEntry, MoveEntry, PurgeEntry, SaveVehicle, Begin, Commit, InvalidatePrefix,
         SweepFails, Written, Reply
<1>3. CASE ~up
  <2>1. shared' = shared
    BY <1>3 DEF Change, SaveEntry, MoveEntry, PurgeEntry, SaveVehicle, Begin, Commit,
                InvalidatePrefix, SweepFails, Written, Reply
  <2> QED
    BY <1>2, <1>3, <2>1, AbsentSweep
<1>4. CASE up
  <2>1. ASSUME NEW about, NEW todo, Begin(t, about, todo) PROVE Sweep'
    <3>1. /\ pc[t] = "idle" /\ log' = log /\ shared' = shared /\ pc' = [pc EXCEPT ![t] = "commit"]
          /\ task' = [task EXCEPT ![t] = [Idle EXCEPT !.about = about, !.todo = todo]]
      BY <2>1 DEF Begin, Goto
    <3>2. task'[t] = [Idle EXCEPT !.about = about, !.todo = todo]
      BY <1>1, <3>1
    <3>3. task'[t].commit = 0
      BY <3>2 DEF Idle
    <3>4. AtRest(t) /\ AtRest(t)'
      BY <1>4, <3>1, <3>3 DEF AtRest, Sweep, Swept
    <3>5. Steady(t)
      BY <1>1, <1>2, <3>1, <3>4 DEF Steady
    <3> QED
      BY <1>4, <3>5, SteadySweep
  <2>2. CASE SaveEntry(t) \/ MoveEntry(t) \/ PurgeEntry(t) \/ SaveVehicle(t)
    BY <2>1, <2>2 DEF SaveEntry, MoveEntry, PurgeEntry, SaveVehicle
  <2>3. CASE SweepFails(t)
    BY <1>4, <2>3 DEF SweepFails
  <2>4. CASE Written(t)
    <3>1. /\ task[t].todo = <<>> /\ task' = task /\ log' = log /\ shared' = shared
          /\ pc' = [pc EXCEPT ![t] = "done"]
      BY <2>4 DEF Written, Done, Goto
    <3>2. Steady(t)
      BY <1>1, <1>2, <3>1 DEF Steady, AtRest
    <3> QED
      BY <1>4, <3>2, SteadySweep
  <2>5. CASE Reply(t)
    <3>1. /\ pc[t] \in {"done", "failed"} /\ task' = [task EXCEPT ![t] = Idle] /\ log' = log
          /\ shared' = shared /\ pc' = [pc EXCEPT ![t] = "idle"]
      BY <2>5 DEF Reply, Goto
    <3>2. task'[t].commit = 0
      BY <1>1, <3>1 DEF Idle
    <3>3. AtRest(t) /\ AtRest(t)'
      BY <1>4, <3>1, <3>2 DEF AtRest, Sweep, Swept
    <3>4. Steady(t)
      BY <1>1, <1>2, <3>1, <3>3 DEF Steady
    <3> QED
      BY <1>4, <3>4, SteadySweep
  <2> QED
    BY <1>4, <2>2, <2>3, <2>4, <2>5, CommitSweep, PrefixSweep DEF Change
<1> QED
  BY <1>3, <1>4

LEMMA NextSweep == ~Outages /\ Inv /\ Sweep /\ [Next]_vars => Sweep'
<1> SUFFICES ASSUME ~Outages, Inv, Sweep, [Next]_vars PROVE Sweep'
  OBVIOUS
<1>1. CASE Tick \/ UNCHANGED vars
  <2>1. /\ log' = log /\ up' = up /\ pc' = pc /\ task' = task
        /\ \A k \in Keys : shared'[k] \in {shared[k], None}
    BY <1>1 DEF Tick, vars, Inv, TypeOK
  <2>2. Swept'
    BY <2>1 DEF Sweep, Swept, AtRest
  <2> QED
    BY <2>1, <2>2 DEF Sweep, InvalidationComplete
<1> QED
  BY <1>1, ReadSweep, ChangeSweep DEF Next, RedisFails, RedisReturns, Restart

LEMMA InitSweep == Init => Sweep
BY DEF Init, Sweep, Swept, InvalidationComplete, AtRest, Idle

(* While Redis answers and no worker is restarted, a write's invalidations *)
(* do reach every older entry, whatever reads and writes run beside them:  *)
(* what a slow loader stores afterwards counts as stored after the write.  *)
THEOREM NothingOlderStays == ASSUME ~Outages PROVE Spec => []InvalidationComplete
<1>1. Inv /\ Sweep /\ [Next]_vars => Sweep'
  BY NextSweep
<1>2. Sweep => InvalidationComplete
  BY DEF Sweep
<1> QED
  BY <1>1, <1>2, InitSweep, Invariance, PTL DEF Spec
=============================================================================
