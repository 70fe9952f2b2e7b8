-------------------------- MODULE QuickTripProofs ---------------------------
(***************************************************************************)
(* Theorems about QuickTrip, for any trips, tabs and flushes: TypeOK, and,  *)
(* as long as one handler waits at a time, KeptUntilSaved and SavedOnce.   *)
(* Base holds whatever handlers overlap.  OneByOne adds what one handler   *)
(* at a time keeps to: PaidFor, which counts a chance of a row with the    *)
(* rows there are, and KeptAll.                                            *)
(***************************************************************************)
EXTENDS QuickTrip, FiniteSetTheorems, TLAPS

(* The trips of a queue that an older version left. *)
OldQueues == Contents(stored.mid) \cup Contents(stored.v1)

(* The trips of a flush that are not yet out of the queue it has read. *)
Held(p) == run[p].todo \cup run[p].remaining

(* A handler at work knows its trip and its tab. *)
AtWork ==
  \A p \in Runs :
    /\ run[p].pc = "idle" => run[p] = Idle
    /\ run[p].pc # "idle" => run[p].tab \in Tabs
    /\ run[p].pc = "confirm" =>
         /\ p \in confirmed /\ run[p].item = p /\ Held(p) = {}
         /\ p \notin Queue \cup OldQueues /\ \A q \in Runs : p \notin Held(q)
    /\ run[p].pc = "flush" /\ run[p].item # None => run[p].item \in run[p].todo
    /\ run[p].todo \cap run[p].remaining = {}

(* Each queue has trips of its own, which were confirmed; without the two   *)
(* old queues there is one of them at most.                                *)
QueuesApart ==
  /\ Queue \cup OldQueues \subseteq confirmed
  /\ Queue \cap OldQueues = {}
  /\ \A p \in Runs : Held(p) \subseteq confirmed /\ Held(p) \cap OldQueues = {}
  /\ "two old queues" \notin troubles => None \in {stored.mid, stored.v1}

Active == {p \in Runs : run[p].pc # "idle"}

Base == TypeOK /\ AtWork /\ QueuesApart /\ IsFiniteSet(Active)

(* What holds as long as one handler waits at a time. *)
Alone == \A p, q \in Active : p = q

Saved(p, t) == run[p].item = t /\ run[p].post = "saved"

Flushers == {p \in Runs : run[p].pc = "flush"}

(* t may get a row without anything being forgotten. *)
MayBeSaved(t) ==
  \/ t \notin confirmed
  \/ run[t].pc = "confirm" /\ ~Saved(t, t)
  \/ \E p \in Flushers : t \in Held(p) /\ ~Saved(p, t)
  \/ Flushers = {} /\ t \in Queue
  \/ t \in OldQueues

PaidFor(t) == rows[t] + (IF MayBeSaved(t) THEN 1 ELSE 0) <= 1 + forgotten[t]

(* What a page takes for saved is saved. *)
TakenForSaved ==
  /\ \A p \in Runs : run[p].post # "login"
  /\ \A p \in Runs : run[p].post = "saved" => rows[run[p].item] > 0
  /\ \A p \in Flushers : \A t \in Queue \ Held(p) : rows[t] > 0

-----------------------------------------------------------------------------
LEMMA RunIs ==
  ASSUME TypeOK, NEW p \in Runs
  PROVE  /\ run[p] \in Run /\ run[p].item \in Trips \cup {None}
         /\ run[p].todo \subseteq Trips /\ run[p].remaining \subseteq Trips
         /\ run[p].item = None <=> run[p].post = "none"
         /\ run[p].tab \in Tabs \cup {None}
BY DEF TypeOK, Run

LEMMA QueueIs == TypeOK => Queue \subseteq Trips /\ OldQueues \subseteq Trips
BY QuickTripAssumption DEF TypeOK, Queue, OldQueues, Contents

LEMMA IdleIs == Idle \in Run /\ Idle.pc = "idle" /\ Idle.item = None /\ Idle.post = "none"
                /\ Idle.todo = {} /\ Idle.remaining = {} /\ Idle.tab = None
BY DEF Idle, Run

LEMMA FlushingIs ==
  ASSUME NEW w \in Tabs, NEW Q \in SUBSET Trips
  PROVE  LET r == Flushing(w, Q) IN
         /\ r \in Run /\ r.item = None /\ r.post = "none" /\ r.todo = Q /\ r.remaining = {}
         /\ r.pc \in {"idle", "flush"} /\ (r.pc = "idle" => r = Idle /\ Q = {})
         /\ (r.pc = "flush" => r.tab = w)
BY DEF Flushing, Idle, Run

LEMMA QueuePut ==
  ASSUME TypeOK, NEW Q \in SUBSET Trips, stored' = [stored EXCEPT !.v2 = Q]
  PROVE  /\ Queue' = Q /\ OldQueues' = OldQueues
         /\ stored'.mid = stored.mid /\ stored'.v1 = stored.v1
         /\ stored' \in [v2 : {None} \cup SUBSET Trips, mid : {None} \cup SUBSET Trips,
                          v1 : {None} \cup SUBSET Trips]
BY QuickTripAssumption DEF TypeOK, Queue, OldQueues, Contents

(* A handler takes a step of its own. *)
LEMMA RunStep ==
  ASSUME Base, NEW p \in Runs, NEW r \in Run, run' = [run EXCEPT ![p] = r],
         r.pc = "idle" => r = Idle,
         r.pc # "idle" => r.tab \in Tabs,
         r.pc = "confirm" =>
           /\ run[p].pc = "confirm" \/ p \in confirmed' \ confirmed
           /\ r.item = p /\ r.todo = {} /\ r.remaining = {},
         r.pc = "flush" /\ r.item # None => r.item \in r.todo,
         r.todo \cap r.remaining = {},
         r.todo \cup r.remaining \subseteq Held(p) \cup Queue,
         Queue' \subseteq Queue \cup Held(p) \cup (IF r.pc = "idle" THEN {p} \cap confirmed ELSE {}),
         run[p].pc = "confirm" \/ Queue' \subseteq Queue \cup Held(p),
         stored'.mid = stored.mid, stored'.v1 = stored.v1,
         confirmed \subseteq confirmed', troubles' = troubles
  PROVE  AtWork' /\ QueuesApart' /\ IsFiniteSet(Active')
<1> DEFINE HeldAt(q) == IF q = p THEN r.todo \cup r.remaining ELSE Held(q)
<1>1. \A q \in Runs : run'[q] = IF q = p THEN r ELSE run[q]
  BY DEF Base, TypeOK
<1>2. \A q \in Runs : Held(q)' = HeldAt(q)
  BY <1>1 DEF Held
<1>3. OldQueues' = OldQueues
  BY DEF OldQueues, Contents
<1>4. AtWork'
  <2>1. \A q \in Runs : HeldAt(q) \subseteq Held(q) \cup Queue \cup Held(p)
    OBVIOUS
  <2>2. ASSUME NEW q \in Runs, run'[q].pc = "confirm"
        PROVE  /\ q \in confirmed' /\ run'[q].item = q /\ Held(q)' = {}
               /\ q \notin Queue' \cup OldQueues' /\ \A x \in Runs : q \notin Held(x)'
    <3>1. CASE run[q].pc = "confirm"
      <4>1. /\ q \in confirmed /\ Held(q) = {} /\ q \notin Queue \cup OldQueues
            /\ \A x \in Runs : q \notin Held(x)
        BY <3>1 DEF Base, AtWork
      <4>2. q \notin Queue'
        BY <1>1, <2>2, <4>1
      <4>3. run'[q].item = q /\ Held(q)' = {}
        BY <1>1, <1>2, <2>2, <3>1, <4>1 DEF Base, AtWork
      <4> QED
        BY <1>2, <1>3, <2>1, <4>1, <4>2, <4>3
    <3>2. CASE run[q].pc # "confirm"
      <4>1. q = p /\ p \in confirmed' \ confirmed
        BY <1>1, <2>2, <3>2
      <4>2. p \notin Queue \cup OldQueues /\ \A x \in Runs : p \notin Held(x)
        BY <4>1 DEF Base, QueuesApart
      <4>3. p \notin Queue'
        BY <1>1, <2>2, <4>1, <4>2
      <4> QED
        BY <1>1, <1>2, <1>3, <2>1, <2>2, <4>1, <4>2, <4>3
    <3> QED
      BY <3>1, <3>2
  <2>3. ASSUME NEW q \in Runs
        PROVE  /\ run'[q].pc = "idle" => run'[q] = Idle
               /\ run'[q].pc # "idle" => run'[q].tab \in Tabs
               /\ run'[q].pc = "flush" /\ run'[q].item # None => run'[q].item \in run'[q].todo
               /\ run'[q].todo \cap run'[q].remaining = {}
    BY <1>1 DEF Base, AtWork
  <2> QED
    BY <2>2, <2>3 DEF AtWork
<1>5. QueuesApart'
  <2>1. Held(p) \subseteq confirmed /\ Held(p) \cap OldQueues = {}
    BY DEF Base, QueuesApart
  <2>2. Queue \cup OldQueues \subseteq confirmed /\ Queue \cap OldQueues = {}
    BY DEF Base, QueuesApart
  <2>3. Queue' \cup OldQueues' \subseteq confirmed'
    BY <1>3, <2>1, <2>2
  <2>4. Queue' \cap OldQueues' = {}
    <3>1. run[p].pc = "confirm" => p \notin OldQueues
      BY DEF Base, AtWork
    <3> QED
      BY <1>3, <2>1, <2>2, <3>1
  <2>5. \A q \in Runs : Held(q)' \subseteq confirmed' /\ Held(q)' \cap OldQueues' = {}
    <3>1. \A q \in Runs : Held(q) \subseteq confirmed /\ Held(q) \cap OldQueues = {}
      BY DEF Base, QueuesApart
    <3>2. \A q \in Runs : HeldAt(q) \subseteq confirmed' /\ HeldAt(q) \cap OldQueues = {}
      BY <2>2, <3>1
    <3> QED
      BY <1>2, <1>3, <3>2
  <2> QED
    BY <2>3, <2>4, <2>5 DEF Base, QueuesApart
<1>6. Active' \subseteq Active \cup {p}
  BY <1>1 DEF Active
<1>7. IsFiniteSet(Active')
  BY <1>6, FS_AddElement, FS_Subset DEF Base
<1> QED
  BY <1>4, <1>5, <1>7

-----------------------------------------------------------------------------
(* What each action but PageLoad does to the handler that takes it.         *)

LEMMA ServeRun ==
  ASSUME Base, NEW p \in Runs, NEW o \in {"saved", "refused", "login"}, Serve(p, o)
  PROVE  \E r \in Run :
           /\ run' = [run EXCEPT ![p] = r]
           /\ r.pc = run[p].pc /\ r.tab = run[p].tab /\ r.item = run[p].item
           /\ r.todo = run[p].todo /\ r.remaining = run[p].remaining /\ r.post = o
           /\ run[p].item \in Trips /\ run[p].pc # "idle" /\ run[p].post = "sent"
<1> DEFINE r == [run[p] EXCEPT !.post = o]
<1>1. run[p] \in Run
  BY RunIs DEF Base
<1>2. run' = [run EXCEPT ![p] = r]
  BY DEF Serve, Base, TypeOK
<1>3. r \in Run /\ r.pc = run[p].pc /\ r.tab = run[p].tab /\ r.item = run[p].item
      /\ r.todo = run[p].todo /\ r.remaining = run[p].remaining /\ r.post = o
  BY <1>1 DEF Run
<1>4. run[p].item \in Trips
  BY RunIs DEF Serve, Base
<1>5. run[p].pc # "idle"
  BY IdleIs DEF Serve, Base, AtWork
<1> HIDE DEF r
<1> QED
  BY <1>2, <1>3, <1>4, <1>5 DEF Serve

LEMMA ServeBase ==
  ASSUME Base, NEW p \in Runs, NEW o \in {"saved", "refused", "login"}, Serve(p, o),
         rows' \in [Trips -> Nat], failures' \in 0..MaxFailures, forgotten' \in [Trips -> Nat]
  PROVE  Base'
<1>1. PICK r \in Run :
        /\ run' = [run EXCEPT ![p] = r]
        /\ r.pc = run[p].pc /\ r.tab = run[p].tab /\ r.item = run[p].item
        /\ r.todo = run[p].todo /\ r.remaining = run[p].remaining /\ r.post = o
        /\ run[p].item \in Trips /\ run[p].pc # "idle" /\ run[p].post = "sent"
  BY ServeRun
<1>2. stored' = stored /\ UNCHANGED page
  BY DEF Serve
<1>3. Queue' = Queue
  BY <1>2 DEF Queue, Contents
<1>4. /\ run[p].tab \in Tabs /\ run[p].todo \cap run[p].remaining = {}
      /\ run[p].pc = "confirm" => run[p].item = p /\ Held(p) = {}
      /\ run[p].pc = "flush" => run[p].item \in run[p].todo
  BY <1>1, QuickTripAssumption DEF Base, AtWork, Runs
<1>5. AtWork' /\ QueuesApart' /\ IsFiniteSet(Active')
  BY <1>1, <1>2, <1>3, <1>4, RunStep DEF page, Held
<1>6. TypeOK'
  <2>1. None \notin Trips
    BY QuickTripAssumption DEF Runs
  <2> QED
    BY <1>1, <1>2, <2>1 DEF Base, TypeOK, page
<1> QED
  BY <1>5, <1>6 DEF Base

LEMMA RequestBase ==
  ASSUME Base, NEW p \in Runs, Request(p)
  PROVE  Base'
<1>1. CASE ServerSaves(p)
  <2>1. run[p].item \in Trips
    BY <1>1, ServeRun DEF ServerSaves
  <2>2. rows' \in [Trips -> Nat]
    BY <1>1, <2>1 DEF ServerSaves, Base, TypeOK
  <2> QED
    BY <1>1, <2>2, ServeBase DEF ServerSaves, counts, Base, TypeOK
<1>2. CASE ServerRefuses(p)
  <2>1. failures' \in 0..MaxFailures
    BY <1>2, QuickTripAssumption DEF ServerRefuses, Fail, Base, TypeOK
  <2> QED
    BY <1>2, <2>1, ServeBase DEF ServerRefuses, Base, TypeOK
<1>3. CASE ServerFailsLate(p)
  <2>1. run[p].item \in Trips
    BY <1>3, ServeRun DEF ServerFailsLate
  <2>2. rows' \in [Trips -> Nat] /\ forgotten' \in [Trips -> Nat]
    BY <1>3, <2>1 DEF ServerFailsLate, Base, TypeOK
  <2>3. failures' \in 0..MaxFailures
    BY <1>3, QuickTripAssumption DEF ServerFailsLate, Fail, Base, TypeOK
  <2> QED
    BY <1>3, <2>2, <2>3, ServeBase DEF ServerFailsLate
<1>4. CASE ServerRedirects(p)
  BY <1>4, ServeBase DEF ServerRedirects, counts, Base, TypeOK
<1> QED
  BY <1>1, <1>2, <1>3, <1>4 DEF Request

(* A request that fails counts, and so does one that was answered in vain.  *)
LEMMA ThrowsCounts ==
  ASSUME Base, NEW p \in Runs, Throws(p)
  PROVE  /\ failures' \in 0..MaxFailures /\ forgotten' \in [Trips -> Nat]
         /\ run[p].post \in {"refused", "sent", "saved"}
         /\ run[p].item \in Trips
         /\ run[p].post # "saved" => forgotten' = forgotten
         /\ run[p].post = "saved" => forgotten' = [forgotten EXCEPT ![run[p].item] = @ + 1]
<1>1. run[p].post \in {"refused", "sent", "saved"}
  BY DEF Throws
<1>2. run[p].item \in Trips
  BY <1>1, RunIs DEF Base
<1>3. failures' \in 0..MaxFailures
  <2>1. failures \in 0..MaxFailures /\ MaxFailures \in Nat
    BY QuickTripAssumption DEF Base, TypeOK
  <2>2. failures' = failures \/ Fail
    BY DEF Throws, counts
  <2> QED
    BY <2>1, <2>2 DEF Fail
<1>4. /\ run[p].post # "saved" => forgotten' = forgotten
      /\ run[p].post = "saved" => forgotten' = [forgotten EXCEPT ![run[p].item] = @ + 1]
  BY DEF Throws, counts
<1>5. forgotten' \in [Trips -> Nat]
  BY <1>1, <1>2, <1>4 DEF Base, TypeOK
<1> QED
  BY <1>1, <1>2, <1>3, <1>4, <1>5

LEMMA ConfirmBase ==
  ASSUME Base, NEW t \in Trips, NEW w \in Tabs, Confirm(t, w)
  PROVE  Base'
<1> DEFINE r == [Idle EXCEPT !.pc = "confirm", !.tab = w, !.item = t, !.post = "sent"]
<1>1. /\ r \in Run /\ r.pc = "confirm" /\ r.tab = w /\ r.item = t /\ r.post = "sent"
      /\ r.todo = {} /\ r.remaining = {}
  BY DEF Idle, Run
<1>2. run' = [run EXCEPT ![t] = r] /\ t \in Runs
  BY DEF Confirm, Runs
<1> HIDE DEF r
<1>3. stored' = stored /\ Queue' = Queue
  BY DEF Confirm, Queue, Contents
<1>4. confirmed' = confirmed \cup {t} /\ t \notin confirmed /\ troubles' = troubles
  BY DEF Confirm
<1>5. AtWork' /\ QueuesApart' /\ IsFiniteSet(Active')
  BY <1>1, <1>2, <1>3, <1>4, RunStep
<1>6. TypeOK'
  <2>1. None \notin Trips
    BY QuickTripAssumption DEF Runs
  <2>2. run' \in [Runs -> Run] /\ \A q \in Runs : run'[q].item = None <=> run'[q].post = "none"
    BY <1>1, <1>2, <2>1 DEF Base, TypeOK
  <2>3. toasts' \in [Tabs -> SUBSET confirmed'] /\ pending' \in [Tabs -> Trips \cup {None}]
    BY DEF Confirm, Base, TypeOK
  <2> QED
    BY <1>3, <1>4, <2>2, <2>3 DEF Confirm, counts, Base, TypeOK
<1> QED
  BY <1>5, <1>6 DEF Base

LEMMA ConfirmSavedBase ==
  ASSUME Base, NEW t \in Trips, ConfirmSaved(t)
  PROVE  Base'
<1>1. t \in Runs /\ run[t].pc = "confirm" /\ stored' = stored /\ UNCHANGED <<page, rows, forgotten>>
  BY DEF ConfirmSaved, Runs
<1>2. run[t].tab \in Tabs
  BY <1>1 DEF Base, AtWork
<1>3. Queue \in SUBSET Trips /\ Queue' = Queue
  BY <1>1, QueueIs DEF Base, Queue, Contents
<1>4. PICK r \in Run :
        /\ run' = [run EXCEPT ![t] = r] /\ r.item = None /\ r.post = "none"
        /\ r.todo \subseteq Queue /\ r.remaining = {}
        /\ r.pc \in {"idle", "flush"} /\ (r.pc = "idle" => r = Idle)
        /\ (r.pc = "flush" => r.tab \in Tabs)
  <2>1. CASE run' = [run EXCEPT ![t] = Idle]
    BY <2>1, IdleIs
  <2>2. CASE run' = [run EXCEPT ![t] = Flushing(run[t].tab, Queue)]
    <3> DEFINE r == Flushing(run[t].tab, Queue)
    <3>1. /\ r \in Run /\ r.item = None /\ r.post = "none" /\ r.todo = Queue /\ r.remaining = {}
          /\ r.pc \in {"idle", "flush"} /\ (r.pc = "idle" => r = Idle)
          /\ (r.pc = "flush" => r.tab = run[t].tab)
      BY <1>2, <1>3, FlushingIs
    <3> HIDE DEF r
    <3> QED
      BY <1>2, <2>2, <3>1 DEF r
  <2> QED
    BY <2>1, <2>2 DEF ConfirmSaved
<1>5. AtWork' /\ QueuesApart' /\ IsFiniteSet(Active')
  BY <1>1, <1>3, <1>4, RunStep DEF page
<1>6. TypeOK'
  <2>1. failures' \in 0..MaxFailures
    BY QuickTripAssumption DEF ConfirmSaved, Fail, Base, TypeOK
  <2> QED
    BY <1>1, <1>4, <2>1 DEF page, Base, TypeOK
<1> QED
  BY <1>5, <1>6 DEF Base

LEMMA ConfirmFailsBase ==
  ASSUME Base, NEW t \in Trips, ConfirmFails(t)
  PROVE  Base'
<1>1. /\ t \in Runs /\ run[t].pc = "confirm" /\ Throws(t) /\ UNCHANGED <<page, rows>>
      /\ stored' = [stored EXCEPT !.v2 = Queue \cup {t}] /\ run' = [run EXCEPT ![t] = Idle]
  BY DEF ConfirmFails, Runs
<1>2. Queue \cup {t} \in SUBSET Trips
  BY QueueIs DEF Base
<1>3. /\ Queue' = Queue \cup {t} /\ stored'.mid = stored.mid /\ stored'.v1 = stored.v1
      /\ stored' \in [v2 : {None} \cup SUBSET Trips, mid : {None} \cup SUBSET Trips,
                       v1 : {None} \cup SUBSET Trips]
  BY <1>1, <1>2, QueuePut DEF Base
<1>4. t \in confirmed
  BY <1>1 DEF Base, AtWork
<1>5. AtWork' /\ QueuesApart' /\ IsFiniteSet(Active')
  BY <1>1, <1>3, <1>4, IdleIs, RunStep DEF page
<1>6. TypeOK'
  <2>1. run' \in [Runs -> Run] /\ \A q \in Runs : run'[q].item = None <=> run'[q].post = "none"
    BY <1>1, IdleIs DEF Base, TypeOK
  <2> QED
    BY <1>1, <1>3, <2>1, ThrowsCounts DEF page, Base, TypeOK
<1> QED
  BY <1>5, <1>6 DEF Base

(* Without a step of a handler, a queue may lose trips. *)
LEMMA Unmoved ==
  ASSUME Base, run' = run, confirmed' = confirmed, troubles' = troubles,
         OldQueues' = OldQueues, Queue' \subseteq Queue,
         stored'.mid = stored.mid, stored'.v1 = stored.v1
  PROVE  AtWork' /\ QueuesApart' /\ IsFiniteSet(Active')
<1>1. \A q \in Runs : Held(q)' = Held(q)
  BY DEF Held
<1>2. AtWork'
  BY <1>1 DEF Base, AtWork
<1>3. QueuesApart'
  BY <1>1 DEF Base, QueuesApart
<1>4. Active' = Active
  BY DEF Active
<1> QED
  BY <1>2, <1>3, <1>4 DEF Base

LEMMA UndoBase ==
  ASSUME Base, NEW t \in Trips, NEW w \in Tabs, Undo(t, w) \/ UndoExpires(t, w)
  PROVE  Base'
<1>1. CASE Undo(t, w)
  <2>1. Queue \ {t} \in SUBSET Trips
    BY QueueIs DEF Base
  <2>2. stored' = [stored EXCEPT !.v2 = Queue \ {t}]
    BY <1>1 DEF Undo
  <2>3. /\ Queue' = Queue \ {t} /\ stored'.mid = stored.mid /\ stored'.v1 = stored.v1
        /\ OldQueues' = OldQueues
        /\ stored' \in [v2 : {None} \cup SUBSET Trips, mid : {None} \cup SUBSET Trips,
                         v1 : {None} \cup SUBSET Trips]
    BY <2>1, <2>2, QueuePut DEF Base
  <2>4. AtWork' /\ QueuesApart' /\ IsFiniteSet(Active')
    BY <1>1, <2>3, Unmoved DEF Undo
  <2>5. TypeOK'
    <3>1. undone' \in SUBSET confirmed' /\ toasts' \in [Tabs -> SUBSET confirmed']
          /\ pending' \in [Tabs -> Trips \cup {None}]
      BY <1>1 DEF Undo, Base, TypeOK
    <3> QED
      BY <1>1, <2>3, <3>1 DEF Undo, counts, Base, TypeOK
  <2> QED
    BY <2>4, <2>5 DEF Base
<1>2. CASE UndoExpires(t, w)
  <2>1. Queue' = Queue /\ OldQueues' = OldQueues
    BY <1>2 DEF UndoExpires, Queue, OldQueues, Contents
  <2>2. AtWork' /\ QueuesApart' /\ IsFiniteSet(Active')
    BY <1>2, <2>1, Unmoved DEF UndoExpires
  <2>3. TypeOK'
    BY <1>2 DEF UndoExpires, counts, Base, TypeOK
  <2> QED
    BY <2>2, <2>3 DEF Base
<1> QED
  BY <1>1, <1>2

(* A step of a flush that goes on with what r says. *)
LEMMA FlushGoesOn ==
  ASSUME Base, NEW p \in Runs, run[p].pc = "flush", NEW r \in Run,
         run' = [run EXCEPT ![p] = r], stored' = stored, UNCHANGED <<page, rows>>,
         failures' \in 0..MaxFailures, forgotten' \in [Trips -> Nat],
         r.pc = "flush", r.tab = run[p].tab, r.item = None <=> r.post = "none",
         r.item # None => r.item \in r.todo,
         r.todo \cap r.remaining = {}, r.todo \cup r.remaining \subseteq Held(p)
  PROVE  Base'
<1>1. r.tab \in Tabs
  BY DEF Base, AtWork
<1>2. Queue' = Queue
  BY DEF Queue, Contents
<1>3. AtWork' /\ QueuesApart' /\ IsFiniteSet(Active')
  BY <1>1, <1>2, RunStep DEF page
<1>4. TypeOK'
  BY DEF page, Base, TypeOK
<1> QED
  BY <1>3, <1>4 DEF Base

(* The steps of a flush before its last. *)
FlushStep(p) == FlushHolds(p) \/ FlushPosts(p) \/ FlushSaved(p) \/ FlushFails(p)

LEMMA FlushRun ==
  ASSUME Base, NEW p \in Runs, FlushStep(p)
  PROVE  /\ run[p].pc = "flush" /\ stored' = stored /\ UNCHANGED <<page, rows>>
         /\ failures' \in 0..MaxFailures /\ forgotten' \in [Trips -> Nat]
         /\ \E r \in Run :
              /\ run' = [run EXCEPT ![p] = r]
              /\ r.pc = "flush" /\ r.tab = run[p].tab /\ (r.item = None <=> r.post = "none")
              /\ (r.item # None => r.item \in r.todo) /\ r.todo \cap r.remaining = {}
              /\ r.post \in {"none", "sent"}
              /\ \/ r.todo \cup r.remaining = Held(p) /\ run[p].post # "saved"
                    /\ forgotten' = forgotten
                 \/ r.todo \cup r.remaining = Held(p) /\ run[p].post = "saved"
                    /\ run[p].item \in Trips
                    /\ forgotten' = [forgotten EXCEPT ![run[p].item] = @ + 1]
                 \/ r.todo \cup r.remaining = Held(p) \ {run[p].item} /\ Returns(p)
                    /\ run[p].item \in Trips /\ forgotten' = forgotten
<1>1. run[p].pc = "flush" /\ stored' = stored /\ UNCHANGED <<page, rows>>
  BY DEF FlushStep, FlushHolds, FlushPosts, FlushSaved, FlushFails
<1>2. /\ run[p] \in Run /\ run \in [Runs -> Run] /\ run[p].todo \cap run[p].remaining = {}
      /\ run[p].item # None => run[p].item \in run[p].todo
      /\ run[p].item = None <=> run[p].post = "none"
      /\ run[p].todo \subseteq Trips /\ run[p].remaining \subseteq Trips
      /\ failures \in 0..MaxFailures /\ forgotten \in [Trips -> Nat]
  BY <1>1, RunIs DEF Base, TypeOK, AtWork
<1>3. CASE FlushHolds(p)
  <2>1. PICK t \in run[p].todo :
          run' = [run EXCEPT ![p].todo = @ \ {t}, ![p].remaining = @ \cup {t}]
    BY <1>3 DEF FlushHolds
  <2> DEFINE r == [run[p] EXCEPT !.todo = @ \ {t}, !.remaining = @ \cup {t}]
  <2>2. run' = [run EXCEPT ![p] = r]
    BY <1>2, <2>1
  <2>3. /\ r \in Run /\ r.pc = run[p].pc /\ r.tab = run[p].tab /\ r.item = run[p].item
        /\ r.post = run[p].post
        /\ r.todo = run[p].todo \ {t} /\ r.remaining = run[p].remaining \cup {t}
    BY <1>2, <2>1 DEF Run
  <2> HIDE DEF r
  <2>4. run[p].item = None /\ forgotten' = forgotten /\ failures' = failures
    BY <1>3 DEF FlushHolds, counts
  <2>5. r.todo \cup r.remaining = Held(p) /\ r.todo \cap r.remaining = {}
    BY <1>2, <2>1, <2>3 DEF Held
  <2> QED
    BY <1>1, <1>2, <2>2, <2>3, <2>4, <2>5
<1>4. CASE FlushPosts(p)
  <2>1. PICK t \in run[p].todo : run' = [run EXCEPT ![p].item = t, ![p].post = "sent"]
    BY <1>4 DEF FlushPosts
  <2> DEFINE r == [run[p] EXCEPT !.item = t, !.post = "sent"]
  <2>2. run' = [run EXCEPT ![p] = r]
    BY <1>2, <2>1
  <2>3. /\ r \in Run /\ r.pc = run[p].pc /\ r.tab = run[p].tab /\ r.item = t /\ r.post = "sent"
        /\ r.todo = run[p].todo /\ r.remaining = run[p].remaining
    BY <1>2, <2>1 DEF Run
  <2> HIDE DEF r
  <2>4. /\ run[p].post = "none" /\ forgotten' = forgotten /\ failures' = failures /\ t # None
    BY <1>2, <1>4, <2>1, QuickTripAssumption DEF FlushPosts, counts, Runs
  <2> QED
    BY <1>1, <1>2, <2>1, <2>2, <2>3, <2>4 DEF Held
<1>5. ASSUME run[p].item \in Trips, NEW R \in {run[p].remaining, run[p].remaining \cup {run[p].item}},
             run' = [run EXCEPT ![p].todo = @ \ {run[p].item}, ![p].remaining = R,
                                ![p].item = None, ![p].post = "none"]
      PROVE  \E r \in Run :
               /\ run' = [run EXCEPT ![p] = r]
               /\ r.pc = "flush" /\ r.tab = run[p].tab /\ r.item = None /\ r.post = "none"
               /\ r.todo = run[p].todo \ {run[p].item} /\ r.remaining = R
  <2> DEFINE r == [run[p] EXCEPT !.todo = @ \ {run[p].item}, !.remaining = R, !.item = None,
                                 !.post = "none"]
  <2>1. run' = [run EXCEPT ![p] = r]
    BY <1>2, <1>5
  <2>2. R \in SUBSET Trips
    BY <1>2, <1>5
  <2>3. /\ r \in Run /\ r.pc = run[p].pc /\ r.tab = run[p].tab /\ r.item = None /\ r.post = "none"
        /\ r.todo = run[p].todo \ {run[p].item} /\ r.remaining = R
    BY <1>2, <2>2 DEF Run
  <2> HIDE DEF r
  <2> QED
    BY <1>1, <2>1, <2>3
<1>6. CASE FlushSaved(p)
  <2>1. Returns(p) /\ run[p].post # "none" /\ forgotten' = forgotten /\ failures' = failures
    BY <1>6 DEF FlushSaved, Returns, counts
  <2>2. run[p].item \in run[p].todo /\ run[p].item \in Trips
    BY <1>2, <2>1
  <2>3. PICK r \in Run :
          /\ run' = [run EXCEPT ![p] = r]
          /\ r.pc = "flush" /\ r.tab = run[p].tab /\ r.item = None /\ r.post = "none"
          /\ r.todo = run[p].todo \ {run[p].item} /\ r.remaining = run[p].remaining
    <3>1. run' = [run EXCEPT ![p].todo = @ \ {run[p].item}, ![p].remaining = run[p].remaining,
                             ![p].item = None, ![p].post = "none"]
      BY <1>2, <1>6 DEF FlushSaved, Run
    <3> QED
      BY <1>5, <2>2, <3>1
  <2>4. r.todo \cup r.remaining = Held(p) \ {run[p].item} /\ r.todo \cap r.remaining = {}
    BY <1>2, <2>2, <2>3 DEF Held
  <2> QED
    BY <1>1, <1>2, <2>1, <2>2, <2>3, <2>4
<1>7. CASE FlushFails(p)
  <2>1. Throws(p)
    BY <1>7 DEF FlushFails
  <2>2. run[p].post # "none" /\ run[p].item \in run[p].todo /\ run[p].item \in Trips
    BY <1>2, <2>1, ThrowsCounts
  <2>3. PICK r \in Run :
          /\ run' = [run EXCEPT ![p] = r]
          /\ r.pc = "flush" /\ r.tab = run[p].tab /\ r.item = None /\ r.post = "none"
          /\ r.todo = run[p].todo \ {run[p].item}
          /\ r.remaining = run[p].remaining \cup {run[p].item}
    <3>1. run' = [run EXCEPT ![p].todo = @ \ {run[p].item},
                             ![p].remaining = run[p].remaining \cup {run[p].item},
                             ![p].item = None, ![p].post = "none"]
      BY <1>2, <1>7 DEF FlushFails
    <3> QED
      BY <1>5, <2>2, <3>1
  <2>4. r.todo \cup r.remaining = Held(p) /\ r.todo \cap r.remaining = {}
    BY <1>2, <2>2, <2>3 DEF Held
  <2> QED
    BY <1>1, <1>2, <2>1, <2>2, <2>3, <2>4, ThrowsCounts
<1> QED
  BY <1>3, <1>4, <1>6, <1>7 DEF FlushStep

LEMMA FlushBase ==
  ASSUME Base, NEW p \in Runs, Flush(p)
  PROVE  Base'
<1>1. CASE FlushStep(p)
  <2>1. /\ run[p].pc = "flush" /\ stored' = stored /\ UNCHANGED <<page, rows>>
        /\ failures' \in 0..MaxFailures /\ forgotten' \in [Trips -> Nat]
    BY <1>1, FlushRun
  <2>2. PICK r \in Run :
          /\ run' = [run EXCEPT ![p] = r]
          /\ r.pc = "flush" /\ r.tab = run[p].tab /\ (r.item = None <=> r.post = "none")
          /\ (r.item # None => r.item \in r.todo) /\ r.todo \cap r.remaining = {}
          /\ r.todo \cup r.remaining \subseteq Held(p)
    BY <1>1, FlushRun
  <2> QED
    BY <2>1, <2>2, FlushGoesOn
<1>2. CASE FlushEnds(p)
  <2>1. /\ run[p].pc = "flush" /\ UNCHANGED <<rows, page, counts>>
        /\ stored' = [stored EXCEPT !.v2 = run[p].remaining] /\ run' = [run EXCEPT ![p] = Idle]
    BY <1>2 DEF FlushEnds
  <2>2. run[p].remaining \in SUBSET Trips /\ run[p].remaining \subseteq Held(p)
    BY RunIs DEF Base, Held
  <2>3. /\ Queue' = run[p].remaining /\ stored'.mid = stored.mid /\ stored'.v1 = stored.v1
        /\ stored' \in [v2 : {None} \cup SUBSET Trips, mid : {None} \cup SUBSET Trips,
                         v1 : {None} \cup SUBSET Trips]
    BY <2>1, <2>2, QueuePut DEF Base
  <2>4. AtWork' /\ QueuesApart' /\ IsFiniteSet(Active')
    BY <2>1, <2>2, <2>3, IdleIs, RunStep DEF page
  <2>5. run' \in [Runs -> Run] /\ \A q \in Runs : run'[q].item = None <=> run'[q].post = "none"
    BY <2>1, IdleIs DEF Base, TypeOK
  <2>6. TypeOK'
    BY <2>1, <2>3, <2>5 DEF page, counts, Base, TypeOK
  <2> QED
    BY <2>4, <2>6 DEF Base
<1> QED
  BY <1>1, <1>2 DEF Flush, FlushStep

LEMMA OnlineBase ==
  ASSUME Base, NEW p \in Flushes, NEW w \in Tabs, Online(p, w)
  PROVE  Base'
<1>1. p \in Runs /\ stored' = stored /\ UNCHANGED <<rows, page, counts>>
      /\ run' = [run EXCEPT ![p] = Flushing(w, Queue)]
  BY DEF Online, Runs
<1>2. Queue \in SUBSET Trips /\ Queue' = Queue
  BY <1>1, QueueIs DEF Base, Queue, Contents
<1> DEFINE r == Flushing(w, Queue)
<1>3. /\ r \in Run /\ r.item = None /\ r.post = "none" /\ r.todo = Queue /\ r.remaining = {}
      /\ r.pc \in {"idle", "flush"} /\ (r.pc = "idle" => r = Idle) /\ (r.pc = "flush" => r.tab = w)
  BY <1>2, FlushingIs
<1> HIDE DEF r
<1>4. run' = [run EXCEPT ![p] = r]
  BY <1>1 DEF r
<1>5. AtWork' /\ QueuesApart' /\ IsFiniteSet(Active')
  BY <1>1, <1>2, <1>3, <1>4, RunStep DEF page
<1>6. TypeOK'
  BY <1>1, <1>3, <1>4 DEF page, counts, Base, TypeOK
<1> QED
  BY <1>5, <1>6 DEF Base

-----------------------------------------------------------------------------
(* A page load. *)

LEMMA MigratedIs ==
  ASSUME Base, stored' = Migrated
  PROVE  /\ stored' \in [v2 : {None} \cup SUBSET Trips, mid : {None} \cup SUBSET Trips,
                          v1 : {None} \cup SUBSET Trips]
         /\ Queue' \in SUBSET Trips /\ Contents(Migrated.v2) = Queue'
         /\ \/ stored' = stored /\ Queue' = Queue /\ OldQueues' = OldQueues
            \/ /\ Queue = {} /\ Queue' \subseteq OldQueues /\ OldQueues' = {}
               /\ stored'.mid = None
               /\ "two old queues" \notin troubles => Queue' = OldQueues
<1>1. /\ stored \in [v2 : {None} \cup SUBSET Trips, mid : {None} \cup SUBSET Trips,
                     v1 : {None} \cup SUBSET Trips]
      /\ "two old queues" \notin troubles => None \in {stored.mid, stored.v1}
  BY DEF Base, TypeOK, QueuesApart
<1>2. Old \in SUBSET Trips /\ Old \subseteq OldQueues
      /\ (None \in {stored.mid, stored.v1} => Old = OldQueues)
  BY <1>1, QuickTripAssumption DEF Old, OldQueues, Contents
<1>3. CASE stored.v2 # None \/ Old = {}
  <2>1. stored' = stored
    BY <1>3 DEF Migrated
  <2>2. Queue' = Queue /\ OldQueues' = OldQueues /\ Contents(Migrated.v2) = Queue
    BY <1>3, <2>1 DEF Queue, OldQueues, Contents, Migrated
  <2>3. Queue \in SUBSET Trips
    BY QueueIs DEF Base
  <2> QED
    BY <1>1, <2>1, <2>2, <2>3
<1>4. CASE ~(stored.v2 # None \/ Old = {})
  <2>1. stored' = [v2 |-> Old, mid |-> None, v1 |-> None] /\ Queue = {}
    BY <1>4 DEF Migrated, Queue, Contents
  <2>2. Old # None
    BY <1>2, QuickTripAssumption
  <2>3. Queue' = Old /\ OldQueues' = {}
    BY <2>1, <2>2 DEF Queue, OldQueues, Contents
  <2>4. Contents(Migrated.v2) = Old
    BY <1>4, <2>2 DEF Migrated, Contents
  <2>5. stored'.mid = None /\ stored' \in [v2 : {None} \cup SUBSET Trips,
                         mid : {None} \cup SUBSET Trips, v1 : {None} \cup SUBSET Trips]
    BY <1>2, <2>1
  <2>6. /\ Queue' \in SUBSET Trips /\ Contents(Migrated.v2) = Queue'
        /\ Queue' \subseteq OldQueues /\ ("two old queues" \notin troubles => Queue' = OldQueues)
    BY <1>1, <1>2, <2>3, <2>4
  <2> QED
    BY <2>1, <2>3, <2>5, <2>6
<1> QED
  BY <1>3, <1>4

Ended(w) == {q \in Runs : run[q].tab = w}

(* The load p of tab w, as r, ends what ran in the tab. *)
Loads(p, w, r) ==
  /\ run' = [q \in Runs |-> IF q = p THEN r ELSE IF q \in Ended(w) THEN Idle ELSE run[q]]
  /\ r.item = None /\ r.post = "none" /\ r.todo \subseteq Queue' /\ r.remaining = {}
  /\ r.pc \in {"idle", "flush"} /\ (r.pc = "idle" => r = Idle)
  /\ (r.pc = "flush" => r.tab = w /\ r.todo = Queue')

LEMMA PageRun ==
  ASSUME Base, NEW p \in Flushes, NEW w \in Tabs, PageLoad(p, w)
  PROVE  /\ p \in Runs /\ run[p] = Idle /\ stored' = Migrated
         /\ UNCHANGED <<rows, confirmed, undone, troubles>> /\ failures' \in 0..MaxFailures
         /\ \A q \in Ended(w) : /\ run[q].pc = "confirm" => "leaves trip" \in troubles
                                /\ run[q].pc = "flush" => "leaves flush" \in troubles
         /\ "overlap" \notin troubles => \A q \in Runs \ Ended(w) : run[q].pc = "idle"
         /\ forgotten' = [t \in Trips |->
              forgotten[t] + Cardinality({q \in Ended(w) : t \in Unwritten(q)})]
         /\ \E r \in Run : Loads(p, w, r)
<1>1. p \in Runs /\ run[p] = Idle /\ stored' = Migrated
  BY DEF PageLoad, Base, AtWork, Runs
<1>2. /\ UNCHANGED <<rows, confirmed, undone, troubles>>
      /\ \A q \in Ended(w) : /\ run[q].pc = "confirm" => "leaves trip" \in troubles
                             /\ run[q].pc = "flush" => "leaves flush" \in troubles
      /\ "overlap" \notin troubles => \A q \in Runs \ Ended(w) : run[q].pc = "idle"
      /\ forgotten' = [t \in Trips |->
           forgotten[t] + Cardinality({q \in Ended(w) : t \in Unwritten(q)})]
  BY DEF PageLoad, Ended
<1>3. failures' \in 0..MaxFailures
  <2>1. failures \in 0..MaxFailures /\ MaxFailures \in Nat
    BY QuickTripAssumption DEF Base, TypeOK
  <2>2. failures' = failures \/ Fail
    BY DEF PageLoad
  <2> QED
    BY <2>1, <2>2 DEF Fail
<1> DEFINE r == Flushing(w, Queue')
<1>4. Queue' \in SUBSET Trips /\ Contents(Migrated.v2) = Queue'
  BY <1>1, MigratedIs
<1>5. /\ r \in Run /\ r.item = None /\ r.post = "none" /\ r.todo = Queue' /\ r.remaining = {}
      /\ r.pc \in {"idle", "flush"} /\ (r.pc = "idle" => r = Idle) /\ (r.pc = "flush" => r.tab = w)
  BY <1>4, FlushingIs
<1> HIDE DEF r
<1>6. CASE run' = [q \in Runs |-> IF q = p THEN r ELSE IF q \in Ended(w) THEN Idle ELSE run[q]]
  <2>1. Loads(p, w, r)
    BY <1>5, <1>6 DEF Loads
  <2> QED
    BY <1>1, <1>2, <1>3, <1>5, <2>1
<1>7. CASE run' = [q \in Runs |-> IF q \in Ended(w) THEN Idle ELSE run[q]]
  <2>1. run' = [q \in Runs |-> IF q = p THEN Idle ELSE IF q \in Ended(w) THEN Idle ELSE run[q]]
    BY <1>1, <1>7
  <2>2. Loads(p, w, Idle)
    BY <2>1, IdleIs DEF Loads
  <2> QED
    BY <1>1, <1>2, <1>3, <2>2, IdleIs
<1>8. \/ run' = [q \in Runs |-> IF q = p THEN r ELSE IF q \in Ended(w) THEN Idle ELSE run[q]]
      \/ run' = [q \in Runs |-> IF q \in Ended(w) THEN Idle ELSE run[q]]
  BY <1>4 DEF PageLoad, Ended, r
<1> QED
  BY <1>6, <1>7, <1>8

LEMMA UnwrittenFinite ==
  ASSUME Base, NEW t \in Trips, NEW w \in Tabs
  PROVE  LET S == {q \in Ended(w) : t \in Unwritten(q)} IN
         IsFiniteSet(S) /\ Cardinality(S) \in Nat /\ (S # {} => Cardinality(S) >= 1)
<1> DEFINE S == {q \in Ended(w) : t \in Unwritten(q)}
<1>1. S \subseteq Active
  <2> SUFFICES ASSUME NEW q \in S PROVE run[q].pc # "idle"
    BY DEF Active, Ended
  <2>1. t \in Unwritten(q) /\ q \in Runs
    BY DEF Ended
  <2>2. CASE run[q].item = t /\ run[q].post = "saved"
    BY <2>1, <2>2, IdleIs DEF Base, AtWork
  <2> QED
    BY <2>1, <2>2 DEF Unwritten
<1> HIDE DEF S
<1>2. IsFiniteSet(S)
  BY <1>1, FS_Subset DEF Base
<1>3. Cardinality(S) \in Nat /\ (Cardinality(S) = 0 <=> S = {})
  BY <1>2, FS_CardinalityType, FS_EmptySet
<1>4. S # {} => Cardinality(S) >= 1
  BY <1>3
<1> QED
  BY <1>2, <1>3, <1>4 DEF S

LEMMA PageLoadBase ==
  ASSUME Base, NEW p \in Flushes, NEW w \in Tabs, PageLoad(p, w)
  PROVE  Base'
<1>1. /\ p \in Runs /\ run[p] = Idle /\ stored' = Migrated
      /\ UNCHANGED <<rows, confirmed, undone, troubles>> /\ failures' \in 0..MaxFailures
      /\ forgotten' = [t \in Trips |->
           forgotten[t] + Cardinality({q \in Ended(w) : t \in Unwritten(q)})]
  BY PageRun
<1>10. PICK r \in Run : Loads(p, w, r)
  BY PageRun
<1>2. /\ run' = [q \in Runs |-> IF q = p THEN r ELSE IF q \in Ended(w) THEN Idle ELSE run[q]]
      /\ r.item = None /\ r.post = "none" /\ r.todo \subseteq Queue' /\ r.remaining = {}
      /\ r.pc \in {"idle", "flush"} /\ (r.pc = "idle" => r = Idle)
      /\ (r.pc = "flush" => r.tab = w /\ r.todo = Queue')
  BY <1>10 DEF Loads
<1>3. /\ stored' \in [v2 : {None} \cup SUBSET Trips, mid : {None} \cup SUBSET Trips,
                       v1 : {None} \cup SUBSET Trips]
      /\ Queue' \in SUBSET Trips
      /\ \/ stored' = stored /\ Queue' = Queue /\ OldQueues' = OldQueues
         \/ Queue = {} /\ Queue' \subseteq OldQueues /\ OldQueues' = {} /\ stored'.mid = None
  BY <1>1, MigratedIs
<1>4. Queue' \cup OldQueues' \subseteq Queue \cup OldQueues
  BY <1>3
<1>5. \A q \in Runs : \/ run'[q] = Idle /\ Held(q)' = {}
                      \/ run'[q] = run[q] /\ Held(q)' = Held(q)
                      \/ q = p /\ run'[q] = r /\ Held(q)' = r.todo
  BY <1>2, IdleIs DEF Held
<1>6. AtWork'
  <2>1. ASSUME NEW q \in Runs, run'[q].pc = "confirm"
        PROVE  /\ q \in confirmed' /\ run'[q].item = q /\ Held(q)' = {}
               /\ q \notin Queue' \cup OldQueues' /\ \A x \in Runs : q \notin Held(x)'
    <3>1. run'[q] = run[q] /\ Held(q)' = Held(q)
      BY <1>2, <1>5, <2>1, IdleIs
    <3>2. /\ q \in confirmed /\ run[q].item = q /\ Held(q) = {}
          /\ q \notin Queue \cup OldQueues /\ \A x \in Runs : q \notin Held(x)
      BY <2>1, <3>1 DEF Base, AtWork
    <3> QED
      BY <1>1, <1>2, <1>4, <1>5, <3>1, <3>2
  <2>2. ASSUME NEW q \in Runs
        PROVE  /\ run'[q].pc = "idle" => run'[q] = Idle
               /\ run'[q].pc # "idle" => run'[q].tab \in Tabs
               /\ run'[q].pc = "flush" /\ run'[q].item # None => run'[q].item \in run'[q].todo
               /\ run'[q].todo \cap run'[q].remaining = {}
    BY <1>2, <1>5, IdleIs DEF Base, AtWork
  <2> QED
    BY <2>1, <2>2 DEF AtWork
<1>7. QueuesApart'
  <2>1. Queue \cup OldQueues \subseteq confirmed /\ Queue \cap OldQueues = {}
    BY DEF Base, QueuesApart
  <2>2. Queue' \cup OldQueues' \subseteq confirmed' /\ Queue' \cap OldQueues' = {}
    BY <1>1, <1>3, <2>1
  <2>3. \A q \in Runs : Held(q) \subseteq confirmed /\ Held(q) \cap OldQueues = {}
    BY DEF Base, QueuesApart
  <2>4. OldQueues' \subseteq OldQueues
    BY <1>3
  <2>5. \A q \in Runs : Held(q)' \subseteq confirmed' /\ Held(q)' \cap OldQueues' = {}
    BY <1>1, <1>2, <1>5, <2>2, <2>3, <2>4
  <2>6. "two old queues" \notin troubles' => None \in {stored'.mid, stored'.v1}
    BY <1>1, <1>3 DEF Base, QueuesApart
  <2> QED
    BY <2>2, <2>5, <2>6 DEF QueuesApart
<1>8. IsFiniteSet(Active')
  <2>1. Active' \subseteq Active \cup {p}
    BY <1>2, <1>5, IdleIs DEF Active
  <2> QED
    BY <2>1, FS_AddElement, FS_Subset DEF Base
<1>9. TypeOK'
  <2>1. run' \in [Runs -> Run] /\ \A q \in Runs : run'[q].item = None <=> run'[q].post = "none"
    BY <1>2, IdleIs DEF Base, TypeOK
  <2>2. forgotten' \in [Trips -> Nat]
    <3>1. \A t \in Trips : Cardinality({q \in Ended(w) : t \in Unwritten(q)}) \in Nat
      BY UnwrittenFinite
    <3> QED
      BY <1>1, <3>1 DEF Base, TypeOK
  <2>3. open' \in SUBSET Tabs /\ toasts' \in [Tabs -> SUBSET confirmed']
        /\ pending' \in [Tabs -> Trips \cup {None}]
    BY <1>1 DEF PageLoad, Base, TypeOK
  <2> QED
    BY <1>1, <1>3, <2>1, <2>2, <2>3 DEF Base, TypeOK
<1> QED
  BY <1>6, <1>7, <1>8, <1>9 DEF Base

-----------------------------------------------------------------------------
LEMMA InitBase == Init => Base
<1> SUFFICES ASSUME Init PROVE Base
  OBVIOUS
<1>1. \A p \in Runs : run[p] = Idle
  BY DEF Init
<1>2. Contents(stored.mid) \subseteq Trips /\ Contents(stored.v1) \subseteq Trips
      /\ Queue = {} /\ confirmed = OldQueues
  BY QuickTripAssumption DEF Init, Contents, Queue, OldQueues
<1>3. TypeOK
  <2>1. stored \in [v2 : {None} \cup SUBSET Trips, mid : {None} \cup SUBSET Trips,
                   v1 : {None} \cup SUBSET Trips]
    BY QuickTripAssumption DEF Init
  <2>2. run \in [Runs -> Run] /\ \A p \in Runs : run[p].item = None <=> run[p].post = "none"
    BY IdleIs DEF Init
  <2>3. confirmed \in SUBSET Trips
    BY <1>2 DEF Init
  <2>4. rows \in [Trips -> Nat] /\ forgotten \in [Trips -> Nat]
    BY DEF Init
  <2>6. failures \in 0..MaxFailures
    <3>1. failures = 0 /\ MaxFailures \in Nat
      BY QuickTripAssumption DEF Init
    <3> QED
      BY <3>1
  <2>5. /\ undone \in SUBSET confirmed /\ open \in SUBSET Tabs /\ troubles \in Troubles
        /\ toasts \in [Tabs -> SUBSET confirmed] /\ pending \in [Tabs -> Trips \cup {None}]
    BY DEF Init
  <2> QED
    BY <2>1, <2>2, <2>3, <2>4, <2>5, <2>6 DEF TypeOK
<1>4. \A p \in Runs : Held(p) = {}
  BY <1>1, IdleIs DEF Held
<1>5. AtWork
  BY <1>1, <1>4, IdleIs DEF AtWork
<1>6. QueuesApart
  BY <1>2, <1>4 DEF QueuesApart, Init
<1>7. Active = {}
  BY <1>1, IdleIs DEF Active
<1> QED
  BY <1>3, <1>5, <1>6, <1>7, FS_EmptySet DEF Base

LEMMA NextBase == Base /\ [Next]_vars => Base'
<1> SUFFICES ASSUME Base, [Next]_vars PROVE Base'
  OBVIOUS
<1>1. ASSUME NEW p \in Runs, Request(p) \/ Flush(p) PROVE Base'
  BY <1>1, RequestBase, FlushBase
<1>2. ASSUME NEW t \in Trips, ConfirmSaved(t) \/ ConfirmFails(t) PROVE Base'
  BY <1>2, ConfirmSavedBase, ConfirmFailsBase
<1>3. ASSUME NEW t \in Trips, NEW w \in Tabs, Confirm(t, w) \/ Undo(t, w) \/ UndoExpires(t, w)
      PROVE  Base'
  BY <1>3, ConfirmBase, UndoBase
<1>4. ASSUME NEW p \in Flushes, NEW w \in Tabs, Online(p, w) \/ PageLoad(p, w) PROVE Base'
  BY <1>4, OnlineBase, PageLoadBase
<1>5. CASE UNCHANGED vars
  <2>1. Queue' = Queue /\ OldQueues' = OldQueues
    BY <1>5 DEF vars, Queue, OldQueues, Contents
  <2>2. AtWork' /\ QueuesApart' /\ IsFiniteSet(Active')
    BY <1>5, <2>1, Unmoved DEF vars
  <2>3. TypeOK'
    BY <1>5 DEF vars, Base, TypeOK
  <2> QED
    BY <2>2, <2>3 DEF Base
<1> QED
  BY <1>1, <1>2, <1>3, <1>4, <1>5 DEF Next

-----------------------------------------------------------------------------
(* One handler at a time. *)

Others(p) == \A q \in Runs \ {p} : run[q].pc = "idle"

LEMMA OthersIdle ==
  ASSUME Alone, NEW p \in Runs, run[p].pc # "idle"
  PROVE  Others(p)
BY DEF Alone, Active, Others

LEMMA QuietIdle ==
  ASSUME "overlap" \notin troubles, Quiet, NEW p \in Runs
  PROVE  Others(p) /\ run[p].pc = "idle"
BY DEF Quiet, Others

LEMMA OthersStay ==
  ASSUME TypeOK, NEW p \in Runs, NEW r, run' = [run EXCEPT ![p] = r], Others(p)
  PROVE  Others(p)' /\ Alone' /\ run'[p] = r
BY DEF TypeOK, Others, Alone, Active

(* MayBeSaved, when nobody but p is at work. *)
May(p, t) ==
  \/ t \notin confirmed
  \/ p = t /\ run[p].pc = "confirm" /\ ~Saved(p, t)
  \/ run[p].pc = "flush" /\ t \in Held(p) /\ ~Saved(p, t)
  \/ run[p].pc # "flush" /\ t \in Queue
  \/ t \in OldQueues

LEMMA MayIs ==
  ASSUME NEW p \in Runs, NEW t \in Trips, Others(p)
  PROVE  MayBeSaved(t) <=> May(p, t)
BY DEF MayBeSaved, May, Others, Flushers, Runs

LEMMA MayIsNext ==
  ASSUME NEW p \in Runs, NEW t \in Trips, Others(p)'
  PROVE  MayBeSaved(t)' <=> May(p, t)'
BY DEF MayBeSaved, May, Others, Flushers, Runs

(* A row is paid for by the chance to get it, a new chance by what is       *)
(* forgotten.                                                              *)
LEMMA Pays ==
  ASSUME TypeOK, TypeOK', NEW t \in Trips, PaidFor(t),
         \/ rows'[t] = rows[t] /\ forgotten'[t] = forgotten[t] /\ (MayBeSaved(t)' => MayBeSaved(t))
         \/ rows'[t] = rows[t] + 1 /\ forgotten'[t] = forgotten[t] /\ MayBeSaved(t) /\ ~MayBeSaved(t)'
         \/ rows'[t] = rows[t] /\ forgotten'[t] >= forgotten[t] + 1
         \/ rows'[t] = rows[t] + 1 /\ forgotten'[t] = forgotten[t] + 1
            /\ (MayBeSaved(t)' => MayBeSaved(t))
  PROVE  PaidFor(t)'
<1>1. rows[t] \in Nat /\ rows'[t] \in Nat /\ forgotten[t] \in Nat /\ forgotten'[t] \in Nat
  BY DEF TypeOK
<1> QED
  BY <1>1 DEF PaidFor

(* An answer leaves the chances as they were, unless it says that the trip  *)
(* of the request was saved.                                               *)
LEMMA AnswerKeepsChances ==
  ASSUME Base, Alone, NEW p \in Runs, NEW o \in {"saved", "refused", "login"}, Serve(p, o),
         NEW t \in Trips, ~(run[p].item = t /\ o = "saved")
  PROVE  MayBeSaved(t)' => MayBeSaved(t)
<1>1. PICK r \in Run :
        /\ run' = [run EXCEPT ![p] = r]
        /\ r.pc = run[p].pc /\ r.tab = run[p].tab /\ r.item = run[p].item
        /\ r.todo = run[p].todo /\ r.remaining = run[p].remaining /\ r.post = o
        /\ run[p].item \in Trips /\ run[p].pc # "idle" /\ run[p].post = "sent"
  BY ServeRun
<1>2. Others(p) /\ Others(p)' /\ run'[p] = r
  BY <1>1, OthersIdle, OthersStay DEF Base
<1>3. Queue' = Queue /\ OldQueues' = OldQueues /\ confirmed' = confirmed /\ Held(p)' = Held(p)
  BY <1>1, <1>2 DEF Serve, page, Queue, OldQueues, Contents, Held
<1>4. ~Saved(p, t) /\ ~Saved(p, t)'
  BY <1>1, <1>2 DEF Saved
<1>5. May(p, t)' => May(p, t)
  BY <1>1, <1>2, <1>3, <1>4 DEF May
<1> QED
  BY <1>2, <1>5, MayIs, MayIsNext

(* An error after the commit adds a row and is counted.                     *)
LEMMA LateFailurePays ==
  ASSUME Base, Base', Alone, NEW p \in Runs, ServerFailsLate(p), NEW t \in Trips, PaidFor(t)
  PROVE  PaidFor(t)'
<1>1. MayBeSaved(t)' => MayBeSaved(t)
  BY AnswerKeepsChances DEF ServerFailsLate
<1>2. \/ rows'[t] = rows[t] + 1 /\ forgotten'[t] = forgotten[t] + 1
      \/ rows'[t] = rows[t] /\ forgotten'[t] = forgotten[t]
  BY DEF ServerFailsLate, Base, TypeOK
<1> QED
  BY <1>1, <1>2, Pays DEF Base

LEMMA ServePays ==
  ASSUME Base, Base', Alone, NEW p \in Runs, Request(p), ~ServerFailsLate(p),
         NEW t \in Trips, PaidFor(t)
  PROVE  PaidFor(t)'
<1>1. PICK o \in {"saved", "refused", "login"} :
        /\ Serve(p, o) /\ forgotten' = forgotten
        /\ IF o = "saved" THEN rows' = [rows EXCEPT ![run[p].item] = @ + 1] ELSE rows' = rows
  BY DEF Request, ServerSaves, ServerRefuses, ServerRedirects, counts
<1>2. PICK r \in Run :
        /\ run' = [run EXCEPT ![p] = r]
        /\ r.pc = run[p].pc /\ r.tab = run[p].tab /\ r.item = run[p].item
        /\ r.todo = run[p].todo /\ r.remaining = run[p].remaining /\ r.post = o
        /\ run[p].item \in Trips /\ run[p].pc # "idle" /\ run[p].post = "sent"
  BY <1>1, ServeRun
<1>3. Others(p) /\ Others(p)' /\ Alone' /\ run'[p] = r
  BY <1>2, OthersIdle, OthersStay DEF Base
<1>4. Queue' = Queue /\ OldQueues' = OldQueues /\ confirmed' = confirmed /\ Held(p)' = Held(p)
  BY <1>1, <1>2, <1>3 DEF Serve, page, Queue, OldQueues, Contents, Held
<1>5. ~Saved(p, t) /\ (Saved(p, t)' <=> run[p].item = t /\ o = "saved")
  BY <1>2, <1>3 DEF Saved
<1>6. CASE run[p].item = t /\ o = "saved"
  <2>1. rows'[t] = rows[t] + 1
    BY <1>1, <1>6 DEF Base, TypeOK
  <2>4. \/ run[p].pc = "confirm" /\ p = t /\ t \in confirmed /\ t \notin Queue \cup OldQueues
        \/ run[p].pc = "flush" /\ t \in Held(p) /\ t \in confirmed /\ t \notin OldQueues
    <3>1. run[p].pc \in {"confirm", "flush"} /\ run[p].item # None
      BY <1>2, RunIs, QuickTripAssumption DEF Base, Run, Runs
    <3>2. CASE run[p].pc = "confirm"
      BY <1>6, <3>2 DEF Base, AtWork
    <3>3. CASE run[p].pc = "flush"
      <4>1. t \in Held(p)
        BY <1>6, <3>1, <3>3 DEF Base, AtWork, Held
      <4> QED
        BY <3>3, <4>1 DEF Base, QueuesApart
    <3> QED
      BY <3>1, <3>2, <3>3
  <2>2. May(p, t)
    BY <1>5, <2>4 DEF May
  <2>3. ~May(p, t)'
    <3>1. t \in confirmed /\ t \notin OldQueues
      BY <2>4
    <3>2. run[p].pc # "flush" => t \notin Queue
      BY <2>4
    <3> QED
      BY <1>2, <1>3, <1>4, <1>5, <1>6, <3>1, <3>2 DEF May
  <2> QED
    BY <1>1, <1>3, <2>1, <2>2, <2>3, MayIs, MayIsNext, Pays DEF Base
<1>7. CASE ~(run[p].item = t /\ o = "saved")
  <2>1. rows'[t] = rows[t]
    BY <1>1, <1>2, <1>7 DEF Base, TypeOK
  <2>2. MayBeSaved(t)' => MayBeSaved(t)
    BY <1>1, <1>7, AnswerKeepsChances
  <2> QED
    BY <1>1, <2>1, <2>2, Pays DEF Base
<1> QED
  BY <1>6, <1>7

LEMMA ConfirmPays ==
  ASSUME Base, Base', "overlap" \notin troubles, NEW p \in Trips, NEW w \in Tabs, Confirm(p, w),
         NEW t \in Trips, PaidFor(t)
  PROVE  PaidFor(t)'
<1> DEFINE r == [Idle EXCEPT !.pc = "confirm", !.tab = w, !.item = p, !.post = "sent"]
<1>1. r.pc = "confirm" /\ r.item = p /\ r.post = "sent" /\ r.todo = {} /\ r.remaining = {}
  BY DEF Idle
<1>2. run' = [run EXCEPT ![p] = r] /\ p \in Runs /\ Quiet
  BY DEF Confirm, Runs
<1> HIDE DEF r
<1>3. Others(p) /\ run[p].pc = "idle" /\ Others(p)' /\ Alone' /\ run'[p] = r
  BY <1>2, QuietIdle, OthersStay DEF Base
<1>4. /\ rows' = rows /\ forgotten' = forgotten /\ confirmed' = confirmed \cup {p} /\ p \notin confirmed
      /\ Queue' = Queue /\ OldQueues' = OldQueues
  BY DEF Confirm, counts, Queue, OldQueues, Contents
<1>5. May(p, t)' => May(p, t)
  BY <1>1, <1>3, <1>4 DEF May
<1> QED
  BY <1>2, <1>3, <1>4, <1>5, MayIs, MayIsNext, Pays DEF Base

LEMMA ConfirmEndsPays ==
  ASSUME Base, Base', Alone, NEW p \in Trips, ConfirmSaved(p) \/ ConfirmFails(p),
         NEW t \in Trips, PaidFor(t)
  PROVE  PaidFor(t)'
<1>1. p \in Runs /\ run[p].pc = "confirm" /\ UNCHANGED <<page, rows>>
  BY DEF ConfirmSaved, ConfirmFails, Runs
<1>2. Others(p) /\ p \in confirmed /\ Held(p) = {} /\ p \notin Queue /\ run[p].item = p
  BY <1>1, OthersIdle DEF Base, AtWork
<1>3. CASE ConfirmSaved(p)
  <2>1. forgotten' = forgotten /\ Queue' = Queue /\ OldQueues' = OldQueues
    BY <1>3 DEF ConfirmSaved, Queue, OldQueues, Contents
  <2>2. PICK r \in {Idle, Flushing(run[p].tab, Queue)} : run' = [run EXCEPT ![p] = r]
    BY <1>3 DEF ConfirmSaved
  <2>3. r.pc # "confirm" /\ r.todo \cup r.remaining \subseteq Queue
    <3>1. CASE r = Idle
      BY <3>1, IdleIs
    <3>2. CASE r = Flushing(run[p].tab, Queue)
      <4>1. run[p].tab \in Tabs /\ Queue \in SUBSET Trips
        BY <1>1, QueueIs DEF Base, AtWork
      <4> QED
        BY <3>2, <4>1, FlushingIs
    <3> QED
      BY <2>2, <3>1, <3>2
  <2>4. Others(p)' /\ Alone' /\ run'[p] = r
    BY <1>1, <1>2, <2>2, OthersStay DEF Base
  <2>5. May(p, t)' => May(p, t)
    BY <1>1, <2>1, <2>3, <2>4 DEF May, page, Held
  <2> QED
    BY <1>1, <1>2, <2>1, <2>4, <2>5, MayIs, MayIsNext, Pays DEF Base
<1>4. CASE ConfirmFails(p)
  <2>1. /\ Throws(p) /\ stored' = [stored EXCEPT !.v2 = Queue \cup {p}]
        /\ run' = [run EXCEPT ![p] = Idle] /\ Queue \cup {p} \in SUBSET Trips
    BY <1>4, QueueIs DEF ConfirmFails, Base
  <2>2. Queue' = Queue \cup {p} /\ OldQueues' = OldQueues
    BY <2>1, QueuePut DEF Base
  <2>3. Others(p)' /\ Alone' /\ run'[p] = Idle
    BY <1>1, <1>2, <2>1, OthersStay DEF Base
  <2>4. CASE p = t /\ run[p].post = "saved"
    <3>1. forgotten'[t] = forgotten[t] + 1
      BY <1>2, <2>1, <2>4, ThrowsCounts DEF Base, TypeOK
    <3>2. forgotten'[t] >= forgotten[t] + 1 /\ rows'[t] = rows[t]
      BY <1>1, <3>1 DEF Base, TypeOK
    <3> QED
      BY <2>3, <3>2, Pays DEF Base
  <2>5. CASE ~(p = t /\ run[p].post = "saved")
    <3>1. forgotten'[t] = forgotten[t]
      BY <1>2, <2>1, <2>5, ThrowsCounts DEF Base, TypeOK
    <3>2. May(p, t)' => May(p, t)
      BY <1>1, <1>2, <2>2, <2>3, <2>5, IdleIs DEF May, page, Saved
    <3> QED
      BY <1>1, <1>2, <2>3, <3>1, <3>2, MayIs, MayIsNext, Pays DEF Base
  <2> QED
    BY <2>4, <2>5
<1> QED
  BY <1>3, <1>4

LEMMA UndoPays ==
  ASSUME Base, Base', run' = run, rows' = rows, forgotten' = forgotten,
         confirmed' = confirmed, Queue' \subseteq Queue, OldQueues' = OldQueues,
         NEW t \in Trips, PaidFor(t)
  PROVE  PaidFor(t)'
<1>1. MayBeSaved(t)' => MayBeSaved(t)
  BY DEF MayBeSaved, Flushers, Held, Saved
<1> QED
  BY <1>1, Pays DEF Base

LEMMA FlushPays ==
  ASSUME Base, Base', Alone, NEW p \in Runs, Flush(p), NEW t \in Trips, PaidFor(t)
  PROVE  PaidFor(t)'
<1>1. CASE FlushStep(p)
  <2>1. run[p].pc = "flush" /\ stored' = stored /\ UNCHANGED <<page, rows>>
    BY <1>1, FlushRun
  <2>2. PICK r \in Run :
          /\ run' = [run EXCEPT ![p] = r] /\ r.pc = "flush" /\ r.post \in {"none", "sent"}
          /\ \/ r.todo \cup r.remaining = Held(p) /\ run[p].post # "saved"
                /\ forgotten' = forgotten
             \/ r.todo \cup r.remaining = Held(p) /\ run[p].post = "saved"
                /\ run[p].item \in Trips
                /\ forgotten' = [forgotten EXCEPT ![run[p].item] = @ + 1]
             \/ r.todo \cup r.remaining = Held(p) \ {run[p].item} /\ forgotten' = forgotten
    BY <1>1, FlushRun
  <2>3. Others(p) /\ Others(p)' /\ Alone' /\ run'[p] = r
    BY <2>1, <2>2, OthersIdle, OthersStay DEF Base
  <2>4. Queue' = Queue /\ OldQueues' = OldQueues /\ confirmed' = confirmed /\ rows' = rows
    BY <2>1 DEF page, Queue, OldQueues, Contents
  <2>5. CASE Saved(p, t) /\ forgotten' = [forgotten EXCEPT ![run[p].item] = @ + 1]
    <3>1. forgotten'[t] = forgotten[t] + 1
      BY <2>5 DEF Saved, Base, TypeOK
    <3>2. forgotten'[t] >= forgotten[t] + 1
      BY <3>1 DEF Base, TypeOK
    <3> QED
      BY <2>3, <2>4, <3>2, Pays DEF Base
  <2>6. CASE ~(Saved(p, t) /\ forgotten' = [forgotten EXCEPT ![run[p].item] = @ + 1])
    <3>1. forgotten'[t] = forgotten[t]
      BY <2>2, <2>6 DEF Saved, Base, TypeOK
    <3>2. May(p, t)' => May(p, t)
      BY <2>1, <2>2, <2>3, <2>4, <2>6 DEF May, Saved, Held
    <3> QED
      BY <2>3, <2>4, <3>1, <3>2, MayIs, MayIsNext, Pays DEF Base
  <2> QED
    BY <2>5, <2>6
<1>2. CASE FlushEnds(p)
  <2>1. /\ run[p].pc = "flush" /\ UNCHANGED <<rows, page, counts>>
        /\ run[p].item = None /\ run[p].todo = {}
        /\ stored' = [stored EXCEPT !.v2 = run[p].remaining] /\ run' = [run EXCEPT ![p] = Idle]
    BY <1>2 DEF FlushEnds
  <2>2. Queue' = run[p].remaining /\ OldQueues' = OldQueues
    BY <2>1, RunIs, QueuePut DEF Base
  <2>3. Others(p) /\ Others(p)' /\ Alone' /\ run'[p] = Idle
    BY <2>1, OthersIdle, OthersStay DEF Base
  <2>4. None # t
    BY QuickTripAssumption DEF Runs
  <2>5. May(p, t)' => May(p, t)
    BY <2>1, <2>2, <2>3, <2>4, IdleIs DEF May, Saved, Held, page
  <2> QED
    BY <2>1, <2>3, <2>5, MayIs, MayIsNext, Pays DEF Base, counts
<1> QED
  BY <1>1, <1>2 DEF Flush, FlushStep

LEMMA OnlinePays ==
  ASSUME Base, Base', "overlap" \notin troubles, NEW p \in Flushes, NEW w \in Tabs, Online(p, w),
         NEW t \in Trips, PaidFor(t)
  PROVE  PaidFor(t)'
<1> DEFINE r == Flushing(w, Queue)
<1>1. p \in Runs /\ stored' = stored /\ UNCHANGED <<rows, page, counts>>
      /\ run' = [run EXCEPT ![p] = r] /\ Quiet
  BY DEF Online, Runs
<1>2. r.pc # "confirm" /\ r.todo \cup r.remaining \subseteq Queue
  BY DEF Flushing, Idle
<1> HIDE DEF r
<1>3. Others(p) /\ run[p].pc = "idle" /\ Others(p)' /\ Alone' /\ run'[p] = r
  BY <1>1, QuietIdle, OthersStay DEF Base
<1>4. Queue' = Queue /\ OldQueues' = OldQueues
  BY <1>1 DEF Queue, OldQueues, Contents
<1>5. May(p, t)' => May(p, t)
  BY <1>1, <1>2, <1>3, <1>4 DEF May, Held, page
<1> QED
  BY <1>1, <1>3, <1>5, MayIs, MayIsNext, Pays DEF Base, counts

LEMMA PageLoadPays ==
  ASSUME Base, Base', "overlap" \notin troubles, NEW p \in Flushes, NEW w \in Tabs,
         PageLoad(p, w), NEW t \in Trips, PaidFor(t)
  PROVE  PaidFor(t)'
<1>1. /\ p \in Runs /\ run[p] = Idle /\ stored' = Migrated
      /\ rows' = rows /\ confirmed' = confirmed
      /\ \A q \in Runs \ Ended(w) : run[q].pc = "idle"
      /\ forgotten' = [x \in Trips |->
           forgotten[x] + Cardinality({q \in Ended(w) : x \in Unwritten(q)})]
  BY PageRun
<1>2. PICK r \in Run : Loads(p, w, r)
  BY PageRun
<1>3. /\ run' = [q \in Runs |-> IF q = p THEN r ELSE IF q \in Ended(w) THEN Idle ELSE run[q]]
      /\ r.todo \subseteq Queue' /\ r.remaining = {} /\ r.pc \in {"idle", "flush"}
  BY <1>2 DEF Loads
<1>4. Others(p)'
  BY <1>1, <1>3, IdleIs DEF Others
<1>5. run'[p] = r
  BY <1>1, <1>3
<1>6. Queue' \cup OldQueues' \subseteq Queue \cup OldQueues
  BY <1>1, MigratedIs
<1>7. May(p, t)' => t \notin confirmed \/ t \in Queue \cup OldQueues
  BY <1>1, <1>3, <1>5, <1>6 DEF May, Held
<1> DEFINE S == {q \in Ended(w) : t \in Unwritten(q)}
<1>8. MayBeSaved(t)' => MayBeSaved(t) \/ S # {}
  <2>1. SUFFICES ASSUME t \in Queue, t \notin OldQueues, Flushers # {} PROVE MayBeSaved(t) \/ S # {}
    BY <1>1, <1>4, <1>7, MayIsNext DEF MayBeSaved
  <2>2. PICK q \in Runs : run[q].pc = "flush"
    BY <2>1 DEF Flushers
  <2>3. q \in Ended(w)
    BY <1>1, <2>2
  <2>4. CASE t \in Held(q) /\ ~Saved(q, t)
    BY <2>2, <2>4 DEF MayBeSaved, Flushers
  <2>5. CASE ~(t \in Held(q) /\ ~Saved(q, t))
    BY <2>1, <2>2, <2>3, <2>5 DEF Unwritten, Held, Saved
  <2> QED
    BY <2>4, <2>5
<1>9. forgotten'[t] = forgotten[t] + Cardinality(S)
  BY <1>1
<1>10. Cardinality(S) \in Nat /\ (S # {} => Cardinality(S) >= 1)
  BY UnwrittenFinite
<1> HIDE DEF S
<1>11. CASE Cardinality(S) = 0
  <2>1. forgotten'[t] = forgotten[t] /\ S = {}
    BY <1>9, <1>10, <1>11 DEF Base, TypeOK
  <2> QED
    BY <1>1, <1>5, <1>8, <2>1, Pays DEF Base
<1>12. CASE Cardinality(S) # 0
  <2>1. forgotten'[t] >= forgotten[t] + 1
    BY <1>9, <1>10, <1>12 DEF Base, TypeOK
  <2> QED
    BY <1>1, <1>5, <2>1, Pays DEF Base
<1> QED
  BY <1>11, <1>12

-----------------------------------------------------------------------------
(* What is kept.  Nothing makes the page let go of a trip. *)

Keeping == troubles \cap Lossy = {}

Keeps(t) ==
  \/ rows[t] > 0
  \/ t \in Queue \cup OldQueues
  \/ run[t].pc = "confirm"

KeptAll == TakenForSaved /\ \A t \in confirmed \ undone : Keeps(t)

LEMMA KeptIs == Keeping => (KeptUntilSaved <=> \A t \in confirmed \ undone : Keeps(t))
BY DEF Keeping, KeptUntilSaved, Keeps, OldQueues

LEMMA KeepingIs ==
  Keeping => /\ "service worker" \notin troubles /\ "session expires" \notin troubles
             /\ "leaves trip" \notin troubles /\ "two old queues" \notin troubles
BY DEF Keeping, Lossy

(* The page believes nothing but an answer of the server. *)
LEMMA ReturnsSaved ==
  ASSUME Keeping, TakenForSaved, NEW p \in Runs, Returns(p)
  PROVE  rows[run[p].item] > 0
BY KeepingIs DEF Returns, TakenForSaved

LEMMA RowsGrow ==
  ASSUME TypeOK, NEW p \in Runs, run[p].item \in Trips,
         rows' = [rows EXCEPT ![run[p].item] = @ + 1]
  PROVE  rows'[run[p].item] > 0 /\ \A t \in Trips : rows[t] > 0 => rows'[t] > 0
<1>1. \A t \in Trips : rows[t] \in Nat
  BY DEF TypeOK
<1>2. \A t \in Trips : rows'[t] = IF t = run[p].item THEN rows[t] + 1 ELSE rows[t]
  BY DEF TypeOK
<1> QED
  BY <1>1, <1>2

(* A step of p keeps all if it keeps what p itself knows. *)
LEMMA StepKeeps ==
  ASSUME TypeOK, KeptAll, NEW p \in Runs, NEW r, run' = [run EXCEPT ![p] = r],
         Others(p), \A q \in Runs \ {p} : run[q] = Idle,
         r.post # "login",
         r.post = "saved" => rows'[r.item] > 0,
         \A t \in Trips : rows[t] > 0 => rows'[t] > 0,
         Queue' \subseteq Trips,
         r.pc = "flush" => \A t \in Queue' \ (r.todo \cup r.remaining) : rows'[t] > 0,
         confirmed' \in SUBSET Trips,
         \A t \in confirmed' \ undone' : t # p => t \in confirmed \ undone,
         \A t \in Queue \cup OldQueues : t \in Queue' \cup OldQueues' \/ rows'[t] > 0,
         p \in confirmed' \ undone' =>
           \/ p \in confirmed \ undone /\ (rows[p] > 0 \/ p \in Queue \cup OldQueues)
           \/ rows'[p] > 0 \/ p \in Queue' \/ r.pc = "confirm"
  PROVE  KeptAll'
<1>1. \A q \in Runs : run'[q] = IF q = p THEN r ELSE run[q]
  BY DEF TypeOK
<1>2. \A q \in Runs : q # p => run'[q].pc = "idle" /\ run'[q].post = "none"
  BY <1>1, IdleIs
<1>3. TakenForSaved'
  <2>1. \A q \in Runs : run'[q].post # "login"
    BY <1>1, <1>2
  <2>2. \A q \in Runs : run'[q].post = "saved" => rows'[run'[q].item] > 0
    BY <1>1, <1>2
  <2>3. ASSUME NEW q \in Flushers', NEW t \in Queue' \ Held(q)' PROVE rows'[t] > 0
    <3>1. q = p /\ run'[p] = r
      BY <1>1, <1>2, <2>3 DEF Flushers
    <3>2. r.pc = "flush" /\ t \notin r.todo \cup r.remaining
      BY <2>3, <3>1 DEF Held, Flushers
    <3> QED
      BY <2>3, <3>2
  <2> QED
    BY <2>1, <2>2, <2>3 DEF TakenForSaved
<1>4. ASSUME NEW t \in confirmed' \ undone' PROVE Keeps(t)'
  <2>1. t \in Trips /\ t \in Runs
    BY DEF Runs
  <2>2. CASE t # p
    <3>1. Keeps(t)
      BY <2>2 DEF KeptAll
    <3> QED
      BY <1>1, <2>1, <2>2, <3>1 DEF Keeps, Others
  <2>3. CASE t = p
    BY <1>1, <2>1, <2>3 DEF Keeps
  <2> QED
    BY <2>2, <2>3
<1> QED
  BY <1>3, <1>4 DEF KeptAll

LEMMA OthersAreIdle ==
  ASSUME Base, NEW p \in Runs, Others(p)
  PROVE  \A q \in Runs \ {p} : run[q] = Idle
BY DEF Base, AtWork, Others

LEMMA ServeKeeps ==
  ASSUME Base, Base', Alone, Keeping, KeptAll, NEW p \in Runs, Request(p)
  PROVE  KeptAll'
<1>1. PICK o \in {"saved", "refused"} :
        /\ Serve(p, o)
        /\ \/ rows' = [rows EXCEPT ![run[p].item] = @ + 1]
           \/ o = "refused" /\ rows' = rows
  BY KeepingIs DEF Request, ServerSaves, ServerRefuses, ServerFailsLate, ServerRedirects
<1>2. PICK r \in Run :
        /\ run' = [run EXCEPT ![p] = r]
        /\ r.pc = run[p].pc /\ r.tab = run[p].tab /\ r.item = run[p].item
        /\ r.todo = run[p].todo /\ r.remaining = run[p].remaining /\ r.post = o
        /\ run[p].item \in Trips /\ run[p].pc # "idle" /\ run[p].post = "sent"
  BY <1>1, ServeRun
<1>3. Others(p) /\ \A q \in Runs \ {p} : run[q] = Idle
  BY <1>2, OthersIdle, OthersAreIdle
<1>4. /\ Queue' = Queue /\ OldQueues' = OldQueues /\ confirmed' = confirmed /\ undone' = undone
      /\ Queue \subseteq Trips /\ confirmed \in SUBSET Trips
  BY <1>1, QueueIs DEF Serve, page, Queue, OldQueues, Contents, Base, TypeOK
<1>5. o = "saved" => rows'[r.item] > 0
  BY <1>1, <1>2, RowsGrow DEF Base
<1>6. \A t \in Trips : rows[t] > 0 => rows'[t] > 0
  BY <1>1, <1>2, RowsGrow DEF Base
<1>7. r.pc = "flush" => \A t \in Queue' \ (r.todo \cup r.remaining) : rows'[t] > 0
  BY <1>2, <1>4, <1>6 DEF KeptAll, TakenForSaved, Flushers, Held
<1>8. p \in confirmed \ undone => rows[p] > 0 \/ p \in Queue \cup OldQueues \/ run[p].pc = "confirm"
  BY DEF KeptAll, Keeps
<1> QED
  BY <1>1, <1>2, <1>3, <1>4, <1>5, <1>6, <1>7, <1>8, StepKeeps DEF Base

LEMMA ConfirmKeeps ==
  ASSUME Base, Base', "overlap" \notin troubles, KeptAll, NEW p \in Trips, NEW w \in Tabs,
         Confirm(p, w)
  PROVE  KeptAll'
<1> DEFINE r == [Idle EXCEPT !.pc = "confirm", !.tab = w, !.item = p, !.post = "sent"]
<1>1. r.pc = "confirm" /\ r.item = p /\ r.post = "sent" /\ r.todo = {} /\ r.remaining = {}
  BY DEF Idle
<1>2. run' = [run EXCEPT ![p] = r] /\ p \in Runs /\ Quiet
  BY DEF Confirm, Runs
<1> HIDE DEF r
<1>3. Others(p) /\ \A q \in Runs \ {p} : run[q] = Idle
  BY <1>2, QuietIdle, OthersAreIdle
<1>4. /\ rows' = rows /\ confirmed' = confirmed \cup {p} /\ undone' = undone
      /\ Queue' = Queue /\ OldQueues' = OldQueues
      /\ Queue \subseteq Trips /\ confirmed' \in SUBSET Trips
  BY QueueIs DEF Confirm, Queue, OldQueues, Contents, Base, TypeOK
<1> QED
  BY <1>1, <1>2, <1>3, <1>4, StepKeeps DEF Base

LEMMA ConfirmEndsKeeps ==
  ASSUME Base, Base', Alone, Keeping, KeptAll, NEW p \in Trips, ConfirmSaved(p) \/ ConfirmFails(p)
  PROVE  KeptAll'
<1>1. /\ p \in Runs /\ run[p].pc = "confirm" /\ rows' = rows
      /\ confirmed' = confirmed /\ undone' = undone /\ confirmed \in SUBSET Trips
  BY DEF ConfirmSaved, ConfirmFails, page, Runs, Base, TypeOK
<1>2. Others(p) /\ (\A q \in Runs \ {p} : run[q] = Idle) /\ run[p].item = p
      /\ Queue \subseteq Trips /\ run[p].tab \in Tabs
  BY <1>1, OthersIdle, OthersAreIdle, QueueIs DEF Base, AtWork
<1>3. CASE ConfirmSaved(p)
  <2>1. Queue' = Queue /\ OldQueues' = OldQueues
    BY <1>3 DEF ConfirmSaved, Queue, OldQueues, Contents
  <2>2. PICK r \in {Idle, Flushing(run[p].tab, Queue)} : run' = [run EXCEPT ![p] = r]
    BY <1>3 DEF ConfirmSaved
  <2>3. r.post = "none" /\ (r.pc = "flush" => r.todo = Queue)
    <3>1. CASE r = Idle
      BY <3>1, IdleIs
    <3>2. CASE r = Flushing(run[p].tab, Queue)
      BY <1>2, <3>2, FlushingIs
    <3> QED
      BY <2>2, <3>1, <3>2
  <2>4. rows[p] > 0
    BY <1>1, <1>2, <1>3, ReturnsSaved DEF ConfirmSaved, KeptAll
  <2> QED
    BY <1>1, <1>2, <2>1, <2>2, <2>3, <2>4, StepKeeps DEF Base
<1>4. CASE ConfirmFails(p)
  <2>1. /\ stored' = [stored EXCEPT !.v2 = Queue \cup {p}]
        /\ run' = [run EXCEPT ![p] = Idle] /\ Queue \cup {p} \in SUBSET Trips
    BY <1>2, <1>4 DEF ConfirmFails
  <2>2. Queue' = Queue \cup {p} /\ OldQueues' = OldQueues
    BY <2>1, QueuePut DEF Base
  <2> QED
    BY <1>1, <1>2, <2>1, <2>2, IdleIs, StepKeeps DEF Base
<1> QED
  BY <1>3, <1>4

LEMMA UndoKeeps ==
  ASSUME Base, Keeping, KeptAll, run' = run, rows' = rows, OldQueues' = OldQueues,
         confirmed' = confirmed, NEW D, Queue' = Queue \ D, undone' = undone \cup D
  PROVE  KeptAll'
<1>1. TakenForSaved'
  BY DEF KeptAll, TakenForSaved, Flushers, Held
<1>2. \A t \in confirmed' \ undone' : Keeps(t)'
  BY DEF KeptAll, Keeps
<1> QED
  BY <1>1, <1>2 DEF KeptAll

LEMMA FlushKeeps ==
  ASSUME Base, Base', Alone, Keeping, KeptAll, NEW p \in Runs, Flush(p)
  PROVE  KeptAll'
<1>1. /\ run[p].pc = "flush" /\ rows' = rows
      /\ confirmed' = confirmed /\ undone' = undone /\ confirmed \in SUBSET Trips
  BY DEF Flush, FlushHolds, FlushPosts, FlushSaved, FlushFails, FlushEnds, page, Base, TypeOK
<1>2. Others(p) /\ (\A q \in Runs \ {p} : run[q] = Idle) /\ Queue \subseteq Trips
  BY <1>1, OthersIdle, OthersAreIdle, QueueIs DEF Base
<1>3. \A t \in Queue \ Held(p) : rows[t] > 0
  BY <1>1 DEF KeptAll, TakenForSaved, Flushers
<1>4. p \in confirmed \ undone => rows[p] > 0 \/ p \in Queue \cup OldQueues
  BY <1>1 DEF KeptAll, Keeps
<1>5. CASE FlushStep(p)
  <2>1. Queue' = Queue /\ OldQueues' = OldQueues
    BY <1>5, FlushRun DEF Queue, OldQueues, Contents
  <2>2. PICK r \in Run :
          /\ run' = [run EXCEPT ![p] = r] /\ r.pc = "flush" /\ r.post \in {"none", "sent"}
          /\ \/ r.todo \cup r.remaining = Held(p)
             \/ r.todo \cup r.remaining = Held(p) \ {run[p].item} /\ Returns(p)
    BY <1>5, FlushRun
  <2>3. \A t \in Queue' \ (r.todo \cup r.remaining) : rows'[t] > 0
    <3>1. Returns(p) => rows[run[p].item] > 0
      BY ReturnsSaved DEF KeptAll
    <3> QED
      BY <1>1, <1>3, <2>1, <2>2, <3>1
  <2> QED
    BY <1>1, <1>2, <1>4, <2>1, <2>2, <2>3, StepKeeps DEF Base
<1>6. CASE FlushEnds(p)
  <2>1. /\ run[p].todo = {} /\ run[p].remaining \in SUBSET Trips
        /\ stored' = [stored EXCEPT !.v2 = run[p].remaining] /\ run' = [run EXCEPT ![p] = Idle]
    BY <1>6, RunIs DEF FlushEnds, Base
  <2>2. Queue' = Held(p) /\ OldQueues' = OldQueues
    BY <2>1, QueuePut DEF Base, Held
  <2>3. \A t \in Queue \cup OldQueues : t \in Queue' \cup OldQueues' \/ rows'[t] > 0
    BY <1>1, <1>3, <2>2
  <2>4. Queue' \subseteq Trips
    BY <2>1, <2>2 DEF Held
  <2> QED
    BY <1>1, <1>2, <1>4, <2>1, <2>3, <2>4, IdleIs, StepKeeps DEF Base
<1> QED
  BY <1>5, <1>6 DEF Flush, FlushStep

LEMMA OnlineKeeps ==
  ASSUME Base, Base', "overlap" \notin troubles, KeptAll, NEW p \in Flushes, NEW w \in Tabs,
         Online(p, w)
  PROVE  KeptAll'
<1> DEFINE r == Flushing(w, Queue)
<1>1. /\ p \in Runs /\ rows' = rows /\ run' = [run EXCEPT ![p] = r] /\ Quiet
      /\ confirmed' = confirmed /\ undone' = undone /\ confirmed \in SUBSET Trips
      /\ Queue' = Queue /\ OldQueues' = OldQueues
  BY DEF Online, Runs, page, Queue, OldQueues, Contents, Base, TypeOK
<1>2. Queue \in SUBSET Trips
  BY QueueIs DEF Base
<1>3. r.post = "none" /\ r.todo = Queue
  BY <1>2, FlushingIs
<1> HIDE DEF r
<1>4. Others(p) /\ run[p].pc = "idle" /\ \A q \in Runs \ {p} : run[q] = Idle
  BY <1>1, QuietIdle, OthersAreIdle
<1>5. p \notin confirmed
  BY <1>1, QuickTripAssumption
<1> QED
  BY <1>1, <1>2, <1>3, <1>4, <1>5, StepKeeps DEF Base

LEMMA PageLoadKeeps ==
  ASSUME Base, Base', "overlap" \notin troubles, Keeping, KeptAll, NEW p \in Flushes,
         NEW w \in Tabs, PageLoad(p, w)
  PROVE  KeptAll'
<1>1. /\ p \in Runs /\ stored' = Migrated
      /\ rows' = rows /\ confirmed' = confirmed /\ undone' = undone
      /\ \A q \in Runs \ Ended(w) : run[q].pc = "idle"
      /\ \A q \in Ended(w) : run[q].pc = "confirm" => "leaves trip" \in troubles
  BY PageRun
<1>2. PICK r \in Run : Loads(p, w, r)
  BY PageRun
<1>3. /\ run' = [q \in Runs |-> IF q = p THEN r ELSE IF q \in Ended(w) THEN Idle ELSE run[q]]
      /\ r.post = "none" /\ (r.pc = "flush" => r.todo = Queue')
  BY <1>2 DEF Loads
<1>4. \A q \in Runs : q # p => run'[q] = Idle
  <2>1. \A q \in Runs \ Ended(w) : run[q] = Idle
    BY <1>1 DEF Base, AtWork
  <2> QED
    BY <1>3, <2>1
<1>5. Queue' \cup OldQueues' = Queue \cup OldQueues
  BY <1>1, MigratedIs, KeepingIs
<1>6. TakenForSaved'
  <2>1. \A q \in Runs : run'[q].post = "none"
    BY <1>1, <1>3, <1>4, IdleIs
  <2>2. ASSUME NEW q \in Flushers' PROVE Queue' \subseteq Held(q)'
    <3>1. q = p /\ run'[q] = r /\ r.pc = "flush"
      BY <1>1, <1>3, <1>4, <2>2, IdleIs DEF Flushers
    <3> QED
      BY <1>3, <3>1 DEF Held
  <2> QED
    BY <2>1, <2>2 DEF TakenForSaved
<1>7. ASSUME NEW t \in confirmed' \ undone' PROVE Keeps(t)'
  <2>1. Keeps(t) /\ t \in Runs
    BY <1>1 DEF KeptAll, Base, TypeOK, Runs
  <2>2. run[t].pc # "confirm"
    BY <1>1, <2>1, KeepingIs
  <2> QED
    BY <1>1, <1>5, <2>1, <2>2 DEF Keeps
<1> QED
  BY <1>6, <1>7 DEF KeptAll

-----------------------------------------------------------------------------
(* The inductive invariant: Base, and, as long as one handler waits at a    *)
(* time, what is paid for and what is kept.                                *)
OneByOne ==
  /\ Alone
  /\ \A t \in Trips : PaidFor(t)
  /\ Keeping => KeptAll

IInv == Base /\ ("overlap" \notin troubles => OneByOne)

LEMMA InitInv == Init => IInv
<1> SUFFICES ASSUME Init PROVE IInv
  OBVIOUS
<1>1. Base
  BY InitBase
<1>2. \A p \in Runs : run[p] = Idle
  BY DEF Init
<1>3. Alone
  BY <1>2, IdleIs DEF Alone, Active
<1>4. ASSUME NEW t \in Trips PROVE PaidFor(t)
  <2>1. rows[t] = 0 /\ forgotten[t] = 0
    BY DEF Init
  <2> QED
    BY <2>1 DEF PaidFor
<1>5. KeptAll
  <2>1. TakenForSaved
    BY <1>2, IdleIs DEF TakenForSaved, Flushers
  <2>2. confirmed = OldQueues
    BY DEF Init, OldQueues
  <2> QED
    BY <2>1, <2>2 DEF KeptAll, Keeps
<1> QED
  BY <1>1, <1>3, <1>4, <1>5 DEF IInv, OneByOne

LEMMA TroublesStay == Next => troubles' = troubles
BY DEF Next, Request, ServerSaves, ServerRefuses, ServerFailsLate, ServerRedirects, Serve,
       Flush, FlushHolds, FlushPosts, FlushSaved, FlushFails, FlushEnds, ConfirmSaved, ConfirmFails, Confirm, Undo,
       UndoExpires, Online, PageLoad, page

LEMMA AloneNext ==
  ASSUME Base, "overlap" \notin troubles, Alone, Next
  PROVE  Alone'
<1>1. ASSUME NEW p \in Runs, Others(p), \E r : run' = [run EXCEPT ![p] = r] PROVE Alone'
  BY <1>1, OthersStay DEF Base
<1>2. ASSUME NEW p \in Runs, run[p].pc # "idle", \E r : run' = [run EXCEPT ![p] = r] PROVE Alone'
  BY <1>1, <1>2, OthersIdle
<1>3. ASSUME NEW p \in Runs, Request(p) PROVE Alone'
  <2>1. PICK o \in {"saved", "refused", "login"} : Serve(p, o)
    BY <1>3 DEF Request, ServerSaves, ServerRefuses, ServerFailsLate, ServerRedirects
  <2> QED
    BY <1>2, <2>1, ServeRun
<1>4. ASSUME NEW p \in Runs, Flush(p) PROVE Alone'
  <2>1. CASE FlushStep(p)
    BY <1>2, <2>1, FlushRun
  <2>2. CASE FlushEnds(p)
    BY <1>2, <2>2 DEF FlushEnds
  <2> QED
    BY <1>4, <2>1, <2>2 DEF Flush, FlushStep
<1>5. ASSUME NEW t \in Trips, ConfirmSaved(t) \/ ConfirmFails(t) PROVE Alone'
  BY <1>2, <1>5 DEF ConfirmSaved, ConfirmFails, Runs
<1>6. ASSUME NEW t \in Trips, NEW w \in Tabs, Confirm(t, w) PROVE Alone'
  BY <1>1, <1>6, QuietIdle DEF Confirm, Runs
<1>7. ASSUME NEW t \in Trips, NEW w \in Tabs, Undo(t, w) \/ UndoExpires(t, w) PROVE Alone'
  BY <1>7 DEF Undo, UndoExpires, Alone, Active
<1>8. ASSUME NEW p \in Flushes, NEW w \in Tabs, Online(p, w) PROVE Alone'
  BY <1>1, <1>8, QuietIdle DEF Online, Runs
<1>9. ASSUME NEW p \in Flushes, NEW w \in Tabs, PageLoad(p, w) PROVE Alone'
  <2>1. p \in Runs /\ \A q \in Runs \ Ended(w) : run[q].pc = "idle"
    BY <1>9, PageRun
  <2>2. PICK r \in Run : Loads(p, w, r)
    BY <1>9, PageRun
  <2>3. \A q \in Runs : q # p => run'[q].pc = "idle"
    BY <2>1, <2>2, IdleIs DEF Loads
  <2> QED
    BY <2>3 DEF Alone, Active
<1> QED
  BY <1>3, <1>4, <1>5, <1>6, <1>7, <1>8, <1>9 DEF Next

LEMMA PaidNext ==
  ASSUME Base, Base', "overlap" \notin troubles, Alone, Next, NEW t \in Trips, PaidFor(t)
  PROVE  PaidFor(t)'
<1>1. ASSUME NEW p \in Runs, Request(p) \/ Flush(p) PROVE PaidFor(t)'
  BY <1>1, ServePays, LateFailurePays, FlushPays
<1>2. ASSUME NEW p \in Trips, ConfirmSaved(p) \/ ConfirmFails(p) PROVE PaidFor(t)'
  BY <1>2, ConfirmEndsPays
<1>3. ASSUME NEW p \in Trips, NEW w \in Tabs, Confirm(p, w) PROVE PaidFor(t)'
  BY <1>3, ConfirmPays
<1>4. ASSUME NEW p \in Trips, NEW w \in Tabs, Undo(p, w) PROVE PaidFor(t)'
  <2>1. Queue \ {p} \in SUBSET Trips /\ stored' = [stored EXCEPT !.v2 = Queue \ {p}]
    BY <1>4, QueueIs DEF Undo, Base
  <2>2. Queue' \subseteq Queue /\ OldQueues' = OldQueues
    BY <2>1, QueuePut DEF Base
  <2> QED
    BY <1>4, <2>2, UndoPays DEF Undo, counts
<1>5. ASSUME NEW p \in Trips, NEW w \in Tabs, UndoExpires(p, w) PROVE PaidFor(t)'
  BY <1>5, UndoPays DEF UndoExpires, counts, Queue, OldQueues, Contents
<1>6. ASSUME NEW p \in Flushes, NEW w \in Tabs, Online(p, w) \/ PageLoad(p, w) PROVE PaidFor(t)'
  BY <1>6, OnlinePays, PageLoadPays
<1> QED
  BY <1>1, <1>2, <1>3, <1>4, <1>5, <1>6 DEF Next

LEMMA KeptNext ==
  ASSUME Base, Base', "overlap" \notin troubles, Alone, Next, Keeping, KeptAll
  PROVE  KeptAll'
<1>1. ASSUME NEW p \in Runs, Request(p) \/ Flush(p) PROVE KeptAll'
  BY <1>1, ServeKeeps, FlushKeeps
<1>2. ASSUME NEW p \in Trips, ConfirmSaved(p) \/ ConfirmFails(p) PROVE KeptAll'
  BY <1>2, ConfirmEndsKeeps
<1>3. ASSUME NEW p \in Trips, NEW w \in Tabs, Confirm(p, w) PROVE KeptAll'
  BY <1>3, ConfirmKeeps
<1>4. ASSUME NEW p \in Trips, NEW w \in Tabs, Undo(p, w) PROVE KeptAll'
  <2>1. Queue \ {p} \in SUBSET Trips /\ stored' = [stored EXCEPT !.v2 = Queue \ {p}]
    BY <1>4, QueueIs DEF Undo, Base
  <2>2. Queue' = Queue \ {p} /\ OldQueues' = OldQueues
    BY <2>1, QueuePut DEF Base
  <2> QED
    BY <1>4, <2>2, UndoKeeps DEF Undo
<1>5. ASSUME NEW p \in Trips, NEW w \in Tabs, UndoExpires(p, w) PROVE KeptAll'
  <2>1. Queue' = Queue \ {} /\ OldQueues' = OldQueues /\ undone' = undone \cup {}
    BY <1>5 DEF UndoExpires, Queue, OldQueues, Contents
  <2> QED
    BY <1>5, <2>1, UndoKeeps DEF UndoExpires
<1>6. ASSUME NEW p \in Flushes, NEW w \in Tabs, Online(p, w) \/ PageLoad(p, w) PROVE KeptAll'
  BY <1>6, OnlineKeeps, PageLoadKeeps
<1> QED
  BY <1>1, <1>2, <1>3, <1>4, <1>5, <1>6 DEF Next

LEMMA NextInv == IInv /\ [Next]_vars => IInv'
<1> SUFFICES ASSUME IInv, [Next]_vars PROVE IInv'
  OBVIOUS
<1>1. Base /\ Base'
  BY NextBase DEF IInv
<1>2. CASE Next
  <2>1. troubles' = troubles
    BY <1>2, TroublesStay
  <2>2. ASSUME "overlap" \notin troubles PROVE OneByOne'
    <3>1. OneByOne
      BY <2>2 DEF IInv
    <3>2. Alone' /\ \A t \in Trips : PaidFor(t)'
      BY <1>1, <1>2, <2>2, <3>1, AloneNext, PaidNext DEF OneByOne
    <3>3. Keeping' => KeptAll'
      BY <1>1, <1>2, <2>1, <2>2, <3>1, KeptNext DEF OneByOne, Keeping
    <3> QED
      BY <3>2, <3>3 DEF OneByOne
  <2> QED
    BY <1>1, <2>1, <2>2 DEF IInv
<1>3. CASE UNCHANGED vars
  <2>1. /\ Alone' <=> Alone
        /\ Keeping' <=> Keeping
        /\ KeptAll' <=> KeptAll
        /\ \A t \in Trips : PaidFor(t)' <=> PaidFor(t)
    BY <1>3 DEF vars, Alone, Active, Keeping, KeptAll, TakenForSaved, Keeps, PaidFor, MayBeSaved,
                Flushers, Held, Saved, Queue, OldQueues, Contents
  <2> QED
    BY <1>1, <1>3, <2>1 DEF vars, IInv, OneByOne
<1> QED
  BY <1>2, <1>3

LEMMA Invariance == Spec => []IInv
BY InitInv, NextInv, PTL DEF Spec

(* Every reachable state is of the type TypeOK gives it, with any number of *)
(* trips, tabs and flushes at work at the same time: TypeOK.               *)
THEOREM TypeCorrect == Spec => []TypeOK
<1>1. IInv => TypeOK
  BY DEF IInv, Base
<1> QED
  BY <1>1, Invariance, PTL

(* As long as one handler waits at a time, every confirmed trip that was    *)
(* not undone is on the server, in a queue or on its way, whatever request *)
(* fails, whatever answer is lost, and whenever a flush is cut short by a  *)
(* page load: KeptUntilSaved.                                              *)
THEOREM TripsKept == Spec => []("overlap" \notin troubles => KeptUntilSaved)
<1>1. IInv => ("overlap" \notin troubles => KeptUntilSaved)
  BY KeptIs DEF IInv, OneByOne, KeptAll, KeptUntilSaved, Keeping
<1> QED
  BY <1>1, Invariance, PTL

(* As long as one handler waits at a time, every row of a trip beyond the   *)
(* first has been paid for by a lost answer, by an error status that came  *)
(* after the commit, or by a flush that was cut short, whatever else       *)
(* happens: SavedOnce.                                                     *)
THEOREM TripsSavedOnce == Spec => []("overlap" \notin troubles => SavedOnce)
<1>1. IInv => ("overlap" \notin troubles => SavedOnce)
  <2> SUFFICES ASSUME IInv, "overlap" \notin troubles, NEW t \in Trips
               PROVE  rows[t] <= 1 + forgotten[t]
    BY DEF SavedOnce
  <2>1. rows[t] \in Nat /\ forgotten[t] \in Nat /\ PaidFor(t)
    BY DEF IInv, Base, TypeOK, OneByOne
  <2> QED
    BY <2>1 DEF PaidFor
<1> QED
  BY <1>1, Invariance, PTL
=============================================================================
