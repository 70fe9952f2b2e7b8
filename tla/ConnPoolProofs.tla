--------------------------- MODULE ConnPoolProofs ---------------------------
(***************************************************************************)
(* The pool of a worker for any number of threads and connections and any  *)
(* minconn and maxconn.                                                    *)
(*                                                                         *)
(* What Exclusive and NothingLeaks lack to be inductive is in Shape: a     *)
(* closed pool counts nothing, whoever creates a pool does so while the    *)
(* old one is closed, a thread whose pool has been replaced has no          *)
(* connection of the new one, and a connection that is closed is neither   *)
(* idle nor, when a thread finds it so at once, counted.                   *)
(***************************************************************************)
EXTENDS ConnPool, FiniteSetTheorems, TLAPS

ClosedIsEmpty == closed => idle = {} /\ used = {}

CreatesOnClosed == \A t \in Threads : pc[t] = "create" => closed

StaleHoldsNone == \A t \in Threads : stale[t] => InHand(t) \cap used = {}

IdleIsOpen == \A c \in idle : state[c] # "closed"

(* A connection that was closed before it was set up is counted no more.   *)
ClosedAtSetup ==
  \A t \in Threads : pc[t] = "setup" /\ state[db[t]] = "closed" => db[t] \notin used

Shape ==
  /\ idle \cap used = {}
  /\ ClosedIsEmpty /\ CreatesOnClosed /\ StaleHoldsNone /\ IdleIsOpen /\ ClosedAtSetup

Inv == TypeOK /\ Exclusive /\ NothingLeaks /\ Shape

(* TypeOK in two halves. *)
Typed ==
  /\ up \in BOOLEAN /\ closed \in BOOLEAN
  /\ idle \in SUBSET Conns /\ used \in SUBSET Conns
  /\ state \in [Conns -> {"open", "broken", "closed"}]
  /\ lock \in Threads \cup {None}
  /\ pc \in [Threads -> Steps]
  /\ stale \in [Threads -> BOOLEAN]
  /\ attempt \in [Threads -> 1..3]
  /\ db \in [Threads -> Conns \cup {None}]
  /\ own \in [Threads -> Conns \cup {None}]

Equipped(t) ==
  /\ lock = t <=> pc[t] = "create"
  /\ db[t] # None <=> pc[t] \in Steps \ {"idle", "ask", "get", "reset", "create"}
  /\ own[t] # None <=> pc[t] \in {"audit use", "audit put"}

LEMMA Halves == TypeOK <=> Typed /\ \A t \in Threads : Equipped(t)
  BY DEF TypeOK, Typed, Equipped

-----------------------------------------------------------------------------
LEMMA InitInv == Init => Inv
<1> SUFFICES ASSUME Init
             PROVE  Inv
  OBVIOUS
<1> USE ConnPoolAssumption DEF Init, InHand
<1>1. TypeOK
  <2>1. up \in BOOLEAN /\ closed \in BOOLEAN /\ idle \in SUBSET Conns /\ used \in SUBSET Conns
    OBVIOUS
  <2>2. state \in [Conns -> {"open", "broken", "closed"}]
    OBVIOUS
  <2>3. lock \in Threads \cup {None} /\ pc \in [Threads -> Steps] /\ stale \in [Threads -> BOOLEAN]
    BY DEF Steps
  <2>4. attempt \in [Threads -> 1..3]
    OBVIOUS
  <2>5. db \in [Threads -> Conns \cup {None}] /\ own \in [Threads -> Conns \cup {None}]
    OBVIOUS
  <2>6. \A t \in Threads :
       /\ lock = t <=> pc[t] = "create"
       /\ db[t] # None <=> pc[t] \in Steps \ {"idle", "ask", "get", "reset", "create"}
       /\ own[t] # None <=> pc[t] \in {"audit use", "audit put"}
    BY DEF Steps
  <2>7. QED
    BY <2>1, <2>2, <2>3, <2>4, <2>5, <2>6 DEF TypeOK
<1>2. \A t \in Threads : InHand(t) = {}
  OBVIOUS
<1>3. QED
  BY <1>1, <1>2 DEF Inv, Exclusive, NothingLeaks, Shape, ClosedIsEmpty, CreatesOnClosed, StaleHoldsNone, IdleIsOpen, ClosedAtSetup

(* The others keep what they have. *)
LEMMA OthersEquipped ==
  ASSUME TypeOK, Typed', NEW t \in Threads,
         \A u \in Threads \ {t} : pc'[u] = pc[u] /\ db'[u] = db[u] /\ own'[u] = own[u]
                                   /\ (lock' = u <=> lock = u),
         Equipped(t)'
  PROVE  TypeOK'
<1>1. ASSUME NEW u \in Threads PROVE Equipped(u)'
  <2>1. CASE u = t
    BY <2>1
  <2>2. CASE u # t
    <3>1. Equipped(u)
      BY Halves
    <3>2. QED
      BY <3>1, <2>2 DEF Equipped
  <2>3. QED
    BY <2>1, <2>2
<1>2. QED
  BY <1>1 DEF TypeOK, Typed, Equipped

-----------------------------------------------------------------------------
LEMMA HandsHold ==
  ASSUME TypeOK
  PROVE  /\ \A t \in Threads : InHand(t) \subseteq Conns
         /\ \A t \in Threads : pc[t] = "setup" => db[t] \in InHand(t)
  BY DEF TypeOK, InHand

(* A step that leaves the pool and all hands alone; it may find what the    *)
(* thread holds to be closed.                                              *)
LEMMA SameHands ==
  ASSUME Inv, TypeOK', NEW t \in Threads, UNCHANGED <<closed, idle, used>>,
         InHand(t)' = InHand(t), db'[t] = db[t], own'[t] = own[t],
         \A u \in Threads \ {t} : pc'[u] = pc[u] /\ db'[u] = db[u] /\ own'[u] = own[u]
                                   /\ (stale'[u] => stale[u]),
         stale'[t] => stale[t],
         pc'[t] \notin {"create", "setup"},
         \A c \in Conns : state'[c] # state[c] => c \in InHand(t) /\ state'[c] = "closed"
  PROVE  Inv'
<1>1. \A u \in Threads : InHand(u)' = InHand(u)
  BY DEF InHand
<1>2. \A c \in Conns : state[c] = "closed" => state'[c] = "closed"
  OBVIOUS
<1>3. Exclusive'
  BY <1>1 DEF Inv, Exclusive
<1>4. NothingLeaks'
  BY <1>1, <1>2, HandsHold DEF Inv, NothingLeaks
<1>5. \A c \in idle : state'[c] # "closed"
  BY DEF Inv, TypeOK, Exclusive, Shape, IdleIsOpen
<1>6. ASSUME NEW u \in Threads, pc'[u] = "setup", state'[db'[u]] = "closed"
      PROVE  db'[u] \notin used'
  <2>1. u # t /\ pc[u] = "setup" /\ db'[u] = db[u] /\ db[u] \in InHand(u) /\ db[u] \in Conns
    BY <1>6, HandsHold DEF Inv
  <2>2. db[u] \notin InHand(t)
    BY <2>1 DEF Inv, Exclusive
  <2>3. QED
    BY <1>6, <2>1, <2>2 DEF Inv, Shape, ClosedAtSetup
<1>7. Shape'
  BY <1>1, <1>5, <1>6 DEF Inv, Shape, ClosedIsEmpty, CreatesOnClosed, StaleHoldsNone, IdleIsOpen,
     ClosedAtSetup
<1>8. QED
  BY <1>3, <1>4, <1>7 DEF Inv

(* getconn gives away what nobody has. *)
LEMMA Given ==
  ASSUME Inv, TypeOK', NEW t \in Threads, NEW c \in Conns, GetConn(t, c),
         InHand(t)' = InHand(t) \cup {c}, own'[t] # None => own'[t] # db'[t],
         \A u \in Threads \ {t} : pc'[u] = pc[u] /\ db'[u] = db[u] /\ own'[u] = own[u],
         UNCHANGED stale, pc'[t] # "create", pc'[t] = "setup" => db'[t] = c
  PROVE  Inv'
<1> USE DEF Inv
<1>1. \A u \in Threads \ {t} : InHand(u)' = InHand(u)
  BY DEF InHand
<1>2. c \notin used /\ \A u \in Threads : c \notin InHand(u)
  BY DEF GetConn, Unused, Exclusive, Shape, InHand
<1>3. state'[c] # "closed" /\ \A d \in Conns \ {c} : state'[d] = state[d]
  BY DEF GetConn, TypeOK, Shape, IdleIsOpen
<1>4. c \notin idle' /\ idle' \subseteq idle /\ used' = used \cup {c} /\ ~closed /\ ~closed' /\ ~stale[t]
  BY DEF GetConn, Usable, Unused
<1>5. Exclusive'
  BY <1>1, <1>2, <1>4 DEF Exclusive
<1>6. NothingLeaks'
  <2>1. \A d \in used' : \E u \in Threads : d \in InHand(u)'
    BY <1>1, <1>4 DEF NothingLeaks
  <2>2. \A u \in Threads : \A d \in InHand(u)' : state'[d] # "closed" => d \in used'
    BY <1>1, <1>2, <1>3, <1>4, HandsHold DEF NothingLeaks
  <2>3. QED
    BY <2>1, <2>2 DEF NothingLeaks
<1>7. idle' \cap used' = {} /\ ClosedIsEmpty' /\ CreatesOnClosed' /\ StaleHoldsNone'
  BY <1>1, <1>2, <1>4 DEF Shape, ClosedIsEmpty, CreatesOnClosed, StaleHoldsNone
<1>8. IdleIsOpen'
  BY <1>3, <1>4 DEF Shape, IdleIsOpen, TypeOK
<1>9. ClosedAtSetup'
  <2>1. ASSUME NEW u \in Threads \ {t}, pc'[u] = "setup" PROVE db[u] \in InHand(u) /\ db[u] \in Conns
    BY <2>1, HandsHold
  <2>2. QED
    BY <1>1, <1>2, <1>3, <1>4, <2>1 DEF Shape, ClosedAtSetup
<1>10. QED
  BY <1>5, <1>6, <1>7, <1>8, <1>9 DEF Shape

(* putconn takes back what the thread has in hand, or, the second time,    *)
(* closes what another may have taken.                                     *)
LEMMA Returned ==
  ASSUME Inv, TypeOK', NEW t \in Threads, NEW c \in Conns, NEW close \in BOOLEAN,
         PutConn(t, c, close),
         c \in InHand(t) \/ (close /\ c \notin InHand(t)),
         InHand(t)' = InHand(t) \ {c}, own'[t] # None => own'[t] # db'[t],
         \A u \in Threads \ {t} : pc'[u] = pc[u] /\ db'[u] = db[u] /\ own'[u] = own[u],
         UNCHANGED stale, pc'[t] \notin {"create", "setup"}
  PROVE  Inv'
<1> USE DEF Inv
<1>1. \A u \in Threads \ {t} : InHand(u)' = InHand(u)
  BY DEF InHand
<1>2. CASE Usable(t) /\ c \in used
  <2>1. /\ used' = used \ {c} /\ closed' = closed
        /\ \A d \in Conns \ {c} : state'[d] = state[d]
        /\ \/ idle' = idle /\ state'[c] = "closed"
           \/ /\ idle' = idle \cup {c} /\ state'[c] = state[c] /\ state[c] # "closed"
              /\ c \in InHand(t)
    BY <1>2 DEF PutConn, TypeOK
  <2>2. c \in InHand(t) => \A u \in Threads \ {t} : c \notin InHand(u)
    BY DEF Exclusive
  <2>3. Exclusive'
    BY <1>1, <2>1, <2>2 DEF Exclusive
  <2>4. NothingLeaks'
    <3>1. ~closed' => \A d \in used' : \E u \in Threads : d \in InHand(u)'
      BY <1>1, <2>1 DEF NothingLeaks
    <3>2. \A u \in Threads : \A d \in InHand(u)' : state'[d] # "closed" => d \in used'
      BY <1>1, <2>1, <2>2, HandsHold DEF NothingLeaks
    <3>3. QED
      BY <3>1, <3>2 DEF NothingLeaks
  <2>5. idle' \cap used' = {} /\ ClosedIsEmpty' /\ CreatesOnClosed' /\ StaleHoldsNone'
    BY <1>1, <1>2, <2>1 DEF Usable, Shape, ClosedIsEmpty, CreatesOnClosed, StaleHoldsNone
  <2>6. IdleIsOpen'
    <3>1. \A d \in idle : d # c /\ state'[d] # "closed"
      BY <1>2, <2>1 DEF Shape, IdleIsOpen, TypeOK
    <3>2. QED
      BY <2>1, <3>1 DEF IdleIsOpen
  <2>7. ClosedAtSetup'
    BY <2>1 DEF Shape, ClosedAtSetup, TypeOK
  <2>8. QED
    BY <2>3, <2>4, <2>5, <2>6, <2>7 DEF Shape
<1>3. CASE ~(Usable(t) /\ c \in used)
  <2>1. UNCHANGED pool
    BY <1>3 DEF PutConn
  <2>2. closed \/ c \notin used \/ c \notin InHand(t)
    BY <1>3 DEF Usable, Shape, StaleHoldsNone
  <2>3. Exclusive'
    BY <1>1, <2>1 DEF Exclusive, pool
  <2>4. NothingLeaks'
    BY <1>1, <2>1, <2>2 DEF NothingLeaks, pool
  <2>5. Shape'
    BY <1>1, <2>1 DEF pool, Shape, ClosedIsEmpty, CreatesOnClosed, StaleHoldsNone, IdleIsOpen,
       ClosedAtSetup
  <2>6. QED
    BY <2>3, <2>4, <2>5
<1>4. QED
  BY <1>2, <1>3

-----------------------------------------------------------------------------
LEMMA BeginInv ==
  ASSUME Inv, NEW t \in Threads, Begin(t)
  PROVE  Inv'
<1> USE ConnPoolAssumption DEF Begin, Goto, pool
<1>1. Typed /\ Equipped(t)
  BY Halves DEF Inv
<1>2. Typed' /\ Equipped(t)'
  <2>1. attempt' \in [Threads -> 1..3]
    BY <1>1 DEF Typed
  <2>2. pc' \in [Threads -> Steps] /\ pc'[t] = "ask"
    BY <1>1 DEF Typed, Steps
  <2>3. QED
    BY <1>1, <2>1, <2>2 DEF Typed, Equipped, Steps
<1>3. TypeOK'
  BY <1>1, <1>2, OthersEquipped DEF Inv, Typed
<1>4. InHand(t)' = InHand(t)
  BY <1>1 DEF Typed, Equipped, InHand
<1>5. QED
  BY <1>1, <1>3, <1>4, SameHands DEF Typed, Equipped, InHand, Steps

LEMMA AskInv ==
  ASSUME Inv, NEW t \in Threads, Ask(t)
  PROVE  Inv'
<1> USE ConnPoolAssumption DEF Ask, Goto, pool
<1>1. Typed /\ Equipped(t)
  BY Halves DEF Inv
<1>2. Typed' /\ Equipped(t)'
  BY <1>1 DEF Typed, Equipped, Steps
<1>3. TypeOK'
  BY <1>1, <1>2, OthersEquipped DEF Inv, Typed
<1>4. InHand(t)' = InHand(t)
  BY <1>1 DEF Typed, Equipped, InHand
<1>5. QED
  BY <1>1, <1>3, <1>4, SameHands DEF Typed, Equipped, InHand, Steps

LEMMA UseInv ==
  ASSUME Inv, NEW t \in Threads, Use(t)
  PROVE  Inv'
<1> USE ConnPoolAssumption DEF Use, Goto, pool
<1>1. Typed /\ Equipped(t)
  BY Halves DEF Inv
<1>2. Typed' /\ Equipped(t)'
  <2>1. state' \in [Conns -> {"open", "broken", "closed"}]
    BY <1>1 DEF Typed
  <2>2. pc' \in [Threads -> Steps] /\ pc'[t] \in {"audit", "teardown"}
    BY <1>1 DEF Typed, Steps
  <2>3. QED
    BY <1>1, <2>1, <2>2 DEF Typed, Equipped, Steps
<1>3. TypeOK'
  BY <1>1, <1>2, OthersEquipped DEF Inv, Typed
<1>4. InHand(t)' = InHand(t)
  BY <1>1 DEF Typed, Equipped, InHand
<1>5. QED
  BY <1>1, <1>3, <1>4, SameHands DEF Typed, Equipped, InHand, Steps

LEMMA AuditAskInv ==
  ASSUME Inv, NEW t \in Threads, AuditAsk(t)
  PROVE  Inv'
<1> USE ConnPoolAssumption DEF AuditAsk, Goto, pool
<1>1. Typed /\ Equipped(t)
  BY Halves DEF Inv
<1>2. Typed' /\ Equipped(t)'
  BY <1>1 DEF Typed, Equipped, Steps
<1>3. TypeOK'
  BY <1>1, <1>2, OthersEquipped DEF Inv, Typed
<1>4. InHand(t)' = InHand(t)
  BY <1>1 DEF Typed, Equipped, InHand
<1>5. QED
  BY <1>1, <1>3, <1>4, SameHands DEF Typed, Equipped, InHand, Steps

LEMMA AuditUseInv ==
  ASSUME Inv, NEW t \in Threads, AuditUse(t)
  PROVE  Inv'
<1> USE ConnPoolAssumption DEF AuditUse, Goto, pool
<1>1. Typed /\ Equipped(t)
  BY Halves DEF Inv
<1>2. Typed' /\ Equipped(t)'
  BY <1>1 DEF Typed, Equipped, Steps
<1>3. TypeOK'
  BY <1>1, <1>2, OthersEquipped DEF Inv, Typed
<1>4. InHand(t)' = InHand(t)
  BY <1>1 DEF Typed, Equipped, InHand
<1>5. QED
  BY <1>1, <1>3, <1>4, SameHands DEF Typed, Equipped, InHand, Steps

LEMMA TeardownInv ==
  ASSUME Inv, NEW t \in Threads, Teardown(t)
  PROVE  Inv'
<1> USE ConnPoolAssumption DEF Teardown, Goto, pool
<1>1. Typed /\ Equipped(t)
  BY Halves DEF Inv
<1>2. Typed' /\ Equipped(t)'
  BY <1>1 DEF Typed, Equipped, Steps
<1>3. TypeOK'
  BY <1>1, <1>2, OthersEquipped DEF Inv, Typed
<1>4. InHand(t)' = InHand(t)
  BY <1>1 DEF Typed, Equipped, InHand
<1>5. QED
  BY <1>1, <1>3, <1>4, SameHands DEF Typed, Equipped, InHand, Steps

LEMMA GetInv ==
  ASSUME Inv, NEW t \in Threads, Get(t)
  PROVE  Inv'
<1> USE ConnPoolAssumption DEF Get, Goto, pool
<1>1. Typed /\ Equipped(t)
  BY Halves DEF Inv
<1>2. CASE \E c \in Conns : GetConn(t, c) /\ db' = [db EXCEPT ![t] = c] /\ Goto(t, "setup")
  <2>1. PICK c \in Conns : GetConn(t, c) /\ db' = [db EXCEPT ![t] = c] /\ Goto(t, "setup")
    BY <1>2
  <2>2. Typed'
    BY <1>1, <2>1 DEF GetConn, Typed, Steps
  <2>3. Equipped(t)'
    BY <1>1, <2>1 DEF Typed, Equipped, Steps
  <2>4. TypeOK'
    BY <1>1, <2>1, <2>2, <2>3, OthersEquipped DEF Inv, Typed
  <2>5. InHand(t)' = InHand(t) \cup {c}
    BY <1>1, <2>1 DEF Typed, Equipped, InHand
  <2>6. QED
    BY <1>1, <2>1, <2>3, <2>4, <2>5, Given DEF Typed, Equipped
<1>3. CASE UNCHANGED <<pool, db>> /\ (Goto(t, "idle") \/ Goto(t, "reset"))
  <2>1. Typed' /\ Equipped(t)'
    BY <1>1, <1>3 DEF Typed, Equipped, Steps
  <2>2. TypeOK'
    BY <1>1, <1>3, <2>1, OthersEquipped DEF Inv, Typed
  <2>3. InHand(t)' = InHand(t)
    BY <1>1, <1>3 DEF Typed, Equipped, InHand
  <2>4. QED
    BY <1>1, <1>3, <2>2, <2>3, SameHands DEF Typed, Equipped, InHand, Steps
<1>4. QED
  BY <1>2, <1>3

LEMMA AuditGetInv ==
  ASSUME Inv, NEW t \in Threads, AuditGet(t)
  PROVE  Inv'
<1> USE ConnPoolAssumption DEF AuditGet, Goto, pool
<1>1. Typed /\ Equipped(t)
  BY Halves DEF Inv
<1>2. CASE \E c \in Conns : GetConn(t, c) /\ own' = [own EXCEPT ![t] = c] /\ Goto(t, "audit use")
  <2>1. PICK c \in Conns : GetConn(t, c) /\ own' = [own EXCEPT ![t] = c] /\ Goto(t, "audit use")
    BY <1>2
  <2>2. Typed'
    BY <1>1, <2>1 DEF GetConn, Typed, Steps
  <2>3. Equipped(t)'
    BY <1>1, <2>1 DEF Typed, Equipped, Steps
  <2>4. TypeOK'
    BY <1>1, <2>1, <2>2, <2>3, OthersEquipped DEF Inv, Typed
  <2>5. InHand(t)' = InHand(t) \cup {c}
    BY <1>1, <2>1 DEF Typed, Equipped, InHand
  <2>6. c # db[t]
    BY <1>1, <2>1 DEF GetConn, Unused, Inv, Exclusive, Typed, Equipped, InHand, Steps
  <2>7. QED
    BY <1>1, <2>1, <2>4, <2>5, <2>6, Given DEF Typed
<1>3. CASE UNCHANGED <<pool, own>> /\ Goto(t, "teardown")
  <2>1. Typed' /\ Equipped(t)'
    BY <1>1, <1>3 DEF Typed, Equipped, Steps
  <2>2. TypeOK'
    BY <1>1, <1>3, <2>1, OthersEquipped DEF Inv, Typed
  <2>3. InHand(t)' = InHand(t)
    BY <1>1, <1>3 DEF Typed, Equipped, InHand
  <2>4. QED
    BY <1>1, <1>3, <2>2, <2>3, SameHands DEF Typed, Equipped, InHand, Steps
<1>4. QED
  BY <1>2, <1>3

LEMMA PutTyped ==
  ASSUME Typed, NEW t \in Threads, NEW c \in Conns, NEW close \in BOOLEAN, PutConn(t, c, close)
  PROVE  /\ closed' \in BOOLEAN /\ idle' \in SUBSET Conns /\ used' \in SUBSET Conns
         /\ state' \in [Conns -> {"open", "broken", "closed"}]
  BY DEF PutConn, Typed, pool

LEMMA AuditPutInv ==
  ASSUME Inv, NEW t \in Threads, AuditPut(t)
  PROVE  Inv'
<1> USE ConnPoolAssumption DEF AuditPut, Goto
<1>1. Typed /\ Equipped(t)
  BY Halves DEF Inv
<1>2. own[t] \in Conns /\ own[t] \in InHand(t)
  BY <1>1 DEF Typed, Equipped, InHand
<1>3. Typed' /\ Equipped(t)'
  BY <1>1, <1>2, PutTyped DEF Typed, Equipped, Steps
<1>4. TypeOK'
  BY <1>1, <1>3, OthersEquipped DEF Inv, Typed
<1>5. InHand(t)' = InHand(t) \ {own[t]}
  BY <1>1 DEF Typed, Equipped, InHand, Inv, Exclusive
<1>6. QED
  BY <1>1, <1>2, <1>4, <1>5, Returned DEF Typed

LEMMA PutFirstInv ==
  ASSUME Inv, NEW t \in Threads, PutFirst(t)
  PROVE  Inv'
<1> USE ConnPoolAssumption DEF PutFirst, Goto
<1>1. Typed /\ Equipped(t)
  BY Halves DEF Inv
<1>2. db[t] \in Conns /\ db[t] \in InHand(t) /\ own[t] = None
  BY <1>1 DEF Typed, Equipped, InHand, Steps
<1>3. Typed' /\ Equipped(t)'
  BY <1>1, <1>2, PutTyped DEF Typed, Equipped, Steps
<1>4. TypeOK'
  BY <1>1, <1>3, OthersEquipped DEF Inv, Typed
<1>5. InHand(t)' = InHand(t) \ {db[t]}
  BY <1>1, <1>2 DEF Typed, InHand
<1>6. QED
  BY <1>1, <1>2, <1>4, <1>5, Returned DEF Typed

LEMMA PutAgainInv ==
  ASSUME Inv, NEW t \in Threads, PutAgain(t)
  PROVE  Inv'
<1> USE ConnPoolAssumption DEF PutAgain, Goto
<1>1. Typed /\ Equipped(t)
  BY Halves DEF Inv
<1>2. db[t] \in Conns /\ InHand(t) = {} /\ own[t] = None
  BY <1>1 DEF Typed, Equipped, InHand, Steps
<1>3. Typed' /\ Equipped(t)'
  BY <1>1, <1>2, PutTyped DEF Typed, Equipped, Steps
<1>4. TypeOK'
  BY <1>1, <1>3, OthersEquipped DEF Inv, Typed
<1>5. InHand(t)' = {}
  BY <1>1, <1>2 DEF Typed, InHand
<1>6. QED
  BY <1>1, <1>2, <1>4, <1>5, Returned DEF Typed

LEMMA SetupInv ==
  ASSUME Inv, NEW t \in Threads, Setup(t)
  PROVE  Inv'
<1> USE ConnPoolAssumption DEF Setup, Goto, pool
<1>1. Typed /\ Equipped(t)
  BY Halves DEF Inv
<1>2. db[t] \in Conns /\ own[t] = None /\ InHand(t) = {db[t]}
  BY <1>1 DEF Typed, Equipped, InHand, Steps
<1>3. Typed' /\ Equipped(t)'
  BY <1>1, <1>2 DEF Typed, Equipped, Steps
<1>4. TypeOK'
  BY <1>1, <1>3, OthersEquipped DEF Inv, Typed
<1>5. CASE state[db[t]] # "closed"
  <2>1. InHand(t)' = InHand(t)
    BY <1>1, <1>2, <1>5 DEF Typed, InHand
  <2>2. QED
    BY <1>1, <1>4, <1>5, <2>1, SameHands DEF Typed
<1>6. CASE state[db[t]] = "closed"
  <2>1. InHand(t)' = {} /\ pc'[t] = "reset" /\ db'[t] = None
    BY <1>1, <1>2, <1>6 DEF Typed, InHand
  <2>2. \A u \in Threads \ {t} : InHand(u)' = InHand(u) /\ pc'[u] = pc[u] /\ db'[u] = db[u]
    BY <1>1 DEF Typed, InHand
  <2>3. db[t] \notin used
    BY <1>1, <1>6 DEF Inv, Shape, ClosedAtSetup
  <2>4. Exclusive'
    BY <1>2, <2>1, <2>2 DEF Inv, Exclusive
  <2>5. NothingLeaks'
    BY <1>2, <2>1, <2>2, <2>3 DEF Inv, NothingLeaks
  <2>6. Shape'
    BY <2>1, <2>2 DEF Inv, Shape, ClosedIsEmpty, CreatesOnClosed, StaleHoldsNone, IdleIsOpen,
       ClosedAtSetup
  <2>7. QED
    BY <1>4, <2>4, <2>5, <2>6 DEF Inv
<1>7. QED
  BY <1>5, <1>6

LEMMA ResetClosesInv ==
  ASSUME Inv, NEW t \in Threads, ResetCloses(t)
  PROVE  Inv'
<1> USE ConnPoolAssumption DEF ResetCloses, Goto
<1>1. Typed /\ Equipped(t)
  BY Halves DEF Inv
<1>2. Typed' /\ Equipped(t)'
  BY <1>1 DEF Typed, Equipped, Steps
<1>3. TypeOK'
  BY <1>1, <1>2, OthersEquipped DEF Inv, Typed
<1>4. \A u \in Threads : InHand(u)' = InHand(u)
  BY <1>1 DEF Typed, InHand
<1>5. closed' /\ idle' = {} /\ used' = {}
  OBVIOUS
<1>6. Exclusive'
  BY <1>4, <1>5 DEF Inv, Exclusive
<1>7. NothingLeaks'
  BY <1>4, <1>5, HandsHold DEF Inv, NothingLeaks
<1>8. Shape'
  BY <1>1, <1>4, <1>5 DEF Inv, Shape, ClosedIsEmpty, CreatesOnClosed, StaleHoldsNone, IdleIsOpen,
     ClosedAtSetup
<1>9. QED
  BY <1>3, <1>6, <1>7, <1>8 DEF Inv

LEMMA ResetCreatesInv ==
  ASSUME Inv, NEW t \in Threads, ResetCreates(t)
  PROVE  Inv'
<1> USE ConnPoolAssumption DEF ResetCreates, Goto, pool
<1>1. Typed /\ Equipped(t)
  BY Halves DEF Inv
<1>2. closed /\ idle = {} /\ used = {}
  BY <1>1 DEF Inv, Shape, CreatesOnClosed, ClosedIsEmpty
<1>3. /\ pc' \in [Threads -> Steps] /\ pc'[t] \in {"idle", "ask"}
      /\ attempt' \in [Threads -> 1..3]
      /\ \A u \in Threads \ {t} : pc'[u] = pc[u]
  <2>1. pc' = [pc EXCEPT ![t] = "idle"] \/ pc' = [pc EXCEPT ![t] = "ask"]
    OBVIOUS
  <2>2. /\ pc' \in [Threads -> Steps] /\ pc'[t] \in {"idle", "ask"}
        /\ \A u \in Threads \ {t} : pc'[u] = pc[u]
    BY <1>1, <2>1 DEF Typed, Steps
  <2>3. attempt' = attempt \/ (attempt[t] < 3 /\ attempt' = [attempt EXCEPT ![t] = @ + 1])
    OBVIOUS
  <2>4. attempt' \in [Threads -> 1..3]
    <3>1. attempt[t] \in 1..3 /\ attempt \in [Threads -> 1..3]
      BY <1>1 DEF Typed
    <3>2. CASE attempt' = attempt
      BY <3>1, <3>2
    <3>3. CASE attempt[t] < 3 /\ attempt' = [attempt EXCEPT ![t] = @ + 1]
      BY <3>1, <3>3
    <3>4. QED
      BY <2>3, <3>2, <3>3
  <2>5. QED
    BY <2>2, <2>4
<1>4. \A u \in Threads : InHand(u)' = InHand(u)
  BY <1>1, <1>3 DEF Typed, InHand
<1>5. lock' = None /\ db' = db /\ own' = own /\ used' = {}
  BY <1>2
<1>6. ASSUME NEW u \in Threads \ {t} PROVE lock' = u <=> lock = u
  BY <1>1, <1>5 DEF Typed, Equipped
<1>7. CASE UNCHANGED <<pool, stale, attempt>>
  <2>1. Typed' /\ Equipped(t)'
    BY <1>1, <1>3, <1>5, <1>7 DEF Typed, Equipped, Steps
  <2>2. TypeOK'
    BY <1>1, <1>3, <1>5, <1>6, <2>1, OthersEquipped DEF Inv
  <2>3. Exclusive' /\ NothingLeaks'
    BY <1>4, <1>5, <1>7 DEF Inv, Exclusive, NothingLeaks
  <2>4. Shape'
    BY <1>3, <1>4, <1>5, <1>7 DEF Inv, Shape, ClosedIsEmpty, CreatesOnClosed, StaleHoldsNone,
       IdleIsOpen, ClosedAtSetup
  <2>5. QED
    BY <2>2, <2>3, <2>4 DEF Inv
<1>8. ASSUME NEW S \in SUBSET Conns, \A c \in S : Unused(c), idle' = S,
             state' = [c \in Conns |-> IF c \in S THEN "open" ELSE state[c]],
             closed' = FALSE, stale' = [u \in Threads |-> TRUE]
      PROVE  Inv'
  <2>1. Typed' /\ Equipped(t)'
    BY <1>1, <1>3, <1>5, <1>8 DEF Typed, Equipped, Steps
  <2>2. TypeOK'
    BY <1>1, <1>3, <1>5, <1>6, <2>1, OthersEquipped DEF Inv
  <2>3. \A u \in Threads : InHand(u) \cap S = {} /\ InHand(u) \subseteq Conns
    BY <1>8, HandsHold DEF Unused, InHand, Inv
  <2>4. Exclusive'
    BY <1>4, <1>5, <1>8, <2>3 DEF Inv, Exclusive
  <2>5. NothingLeaks'
    BY <1>2, <1>4, <1>5, <1>8, <2>3 DEF Inv, NothingLeaks
  <2>6. idle' \cap used' = {} /\ ClosedIsEmpty' /\ StaleHoldsNone' /\ ClosedAtSetup'
    BY <1>5, <1>8 DEF ClosedIsEmpty, StaleHoldsNone, ClosedAtSetup
  <2>7. IdleIsOpen'
    BY <1>8 DEF IdleIsOpen
  <2>8. CreatesOnClosed'
    <3>1. lock = t
      BY <1>1 DEF Equipped
    <3>2. ASSUME NEW u \in Threads PROVE pc'[u] # "create"
      BY <1>3, <3>1 DEF Inv, TypeOK
    <3>3. QED
      BY <3>2 DEF CreatesOnClosed
  <2>9. QED
    BY <2>2, <2>4, <2>5, <2>6, <2>7, <2>8 DEF Inv, Shape
<1>9. QED
  BY <1>7, <1>8

LEMMA DbFailsInv == ASSUME Inv, DbFails PROVE Inv'
<1> USE DEF DbFails, Inv
<1>1. TypeOK'
  BY DEF TypeOK
<1>2. \A c \in Conns : state'[c] = "closed" <=> state[c] = "closed"
  BY DEF TypeOK
<1>3. \A u \in Threads : InHand(u)' = InHand(u) /\ InHand(u) \subseteq Conns
  BY HandsHold DEF InHand
<1>4. Exclusive' /\ NothingLeaks'
  BY <1>2, <1>3 DEF Exclusive, NothingLeaks
<1>5. ASSUME NEW u \in Threads, pc[u] = "setup" PROVE db[u] \in Conns
  BY <1>3, <1>5, HandsHold
<1>6. Shape'
  BY <1>2, <1>3, <1>5 DEF Shape, ClosedIsEmpty, CreatesOnClosed, StaleHoldsNone, IdleIsOpen,
     ClosedAtSetup, TypeOK
<1>7. QED
  BY <1>1, <1>4, <1>6

LEMMA SamePool ==
  ASSUME Inv, UNCHANGED <<pool, lock, pc, stale, attempt, db, own>>, up' \in BOOLEAN
  PROVE  Inv'
<1> USE DEF Inv, pool
<1>1. TypeOK'
  BY DEF TypeOK
<1>2. \A u \in Threads : InHand(u)' = InHand(u)
  BY DEF InHand
<1>3. Exclusive' /\ NothingLeaks'
  BY <1>2 DEF Exclusive, NothingLeaks
<1>4. Shape'
  BY <1>2 DEF Shape, ClosedIsEmpty, CreatesOnClosed, StaleHoldsNone, IdleIsOpen, ClosedAtSetup
<1>5. QED
  BY <1>1, <1>3, <1>4

LEMMA NextInv == Inv /\ [Next]_vars => Inv'
<1> SUFFICES ASSUME Inv, [Next]_vars
             PROVE  Inv'
  OBVIOUS
<1>1. ASSUME NEW t \in Threads, GetDb(t) PROVE Inv'
  BY <1>1, BeginInv, AskInv, GetInv, SetupInv, ResetClosesInv, ResetCreatesInv DEF GetDb
<1>2. ASSUME NEW t \in Threads, Use(t) PROVE Inv'
  BY <1>2, UseInv
<1>3. ASSUME NEW t \in Threads, Audit(t) PROVE Inv'
  BY <1>3, AuditAskInv, AuditGetInv, AuditUseInv, AuditPutInv DEF Audit
<1>4. ASSUME NEW t \in Threads, CloseDb(t) PROVE Inv'
  BY <1>4, TeardownInv, PutFirstInv, PutAgainInv DEF CloseDb
<1>5. CASE DbFails
  BY <1>5, DbFailsInv
<1>6. CASE DbReturns
  BY <1>6, SamePool DEF DbReturns
<1>7. CASE UNCHANGED vars
  BY <1>7, SamePool DEF vars, Inv, TypeOK
<1>8. QED
  BY <1>1, <1>2, <1>3, <1>4, <1>5, <1>6, <1>7 DEF Next

-----------------------------------------------------------------------------
(* The inductive invariant: it holds in every state of a worker.           *)
THEOREM Invariance == Spec => []Inv
<1>1. Init => Inv
  BY InitInv
<1>2. Inv /\ [Next]_vars => Inv'
  BY NextInv
<1>3. QED
  BY <1>1, <1>2, PTL DEF Spec

(* Every thread has the connections its step of get_db, AuditService.log   *)
(* and close_db needs.                                                     *)
THEOREM TypeCorrect == Spec => []TypeOK
<1>1. Inv => TypeOK
  BY DEF Inv
<1>2. QED
  BY <1>1, Invariance, PTL

(* However the two putconn of close_db interleave with the getconn of      *)
(* others, no two requests share a connection.                             *)
THEOREM ExclusiveUse == Spec => []Exclusive
<1>1. Inv => Exclusive
  BY DEF Inv
<1>2. QED
  BY <1>1, Invariance, PTL

(* After any failure of the database, of getconn, of reset_pool and of the *)
(* writing of the audit entry, the pool gets back what it gave.            *)
THEOREM NoLeaks == Spec => []NothingLeaks
<1>1. Inv => NothingLeaks
  BY DEF Inv
<1>2. QED
  BY <1>1, Invariance, PTL

(* A function has no more values than arguments.                           *)
LEMMA Values ==
  ASSUME NEW S, IsFiniteSet(S), NEW R, NEW f \in [S -> R], R = {f[s] : s \in S}
  PROVE  IsFiniteSet(R) /\ Cardinality(R) <= Cardinality(S)
<1>1. f \in Surjection(S, R)
  BY DEF Surjection
<1>2. QED
  BY <1>1, FS_Surjection

LEMMA Arithmetic ==
  ASSUME NEW n \in Nat, NEW d \in Nat, NEW a \in Nat, NEW b \in Nat, NEW k \in Nat,
         d <= n, a <= n - 1, k <= d + a - b, NEW m \in Nat, 2 * n <= m
  PROVE  k < m
  OBVIOUS

(* What a thread about to take a connection leaves to the others: one      *)
(* connection each from get_db, and one each but its own from the audit.   *)
LEMMA LeavesRoom ==
  ASSUME Inv, 2 * Cardinality(Threads) <= MaxConn,
         NEW t \in Threads, pc[t] \in {"get", "audit get"}, Usable(t)
  PROVE  Room
<1> DEFINE Others == Threads \ {t}
           D == {db[u] : u \in Threads}
           f == [u \in Others |-> own[u]]
           A == {f[u] : u \in Others}
<1>1. IsFiniteSet(Threads) /\ Cardinality(Threads) \in Nat /\ MaxConn \in Nat
  BY ConnPoolAssumption, FS_CardinalityType
<1>2. IsFiniteSet(Others) /\ Cardinality(Others) = Cardinality(Threads) - 1
  BY <1>1, FS_RemoveElement
<1>3. IsFiniteSet(D) /\ Cardinality(D) <= Cardinality(Threads)
  <2>1. db \in [Threads -> D]
    BY DEF Inv, TypeOK
  <2>2. QED
    BY <1>1, <2>1, Values
<1>4. IsFiniteSet(A) /\ Cardinality(A) <= Cardinality(Others)
  <2>1. f \in [Others -> A]
    OBVIOUS
  <2>2. A = {f[u] : u \in Others}
    OBVIOUS
  <2> HIDE DEF f, A, Others
  <2>3. QED
    BY <1>2, <2>1, <2>2, Values
<1>5. /\ IsFiniteSet(D \cup A) /\ IsFiniteSet(D \cap A)
      /\ Cardinality(D \cup A) = Cardinality(D) + Cardinality(A) - Cardinality(D \cap A)
  <2> HIDE DEF D, A
  <2>1. QED
    BY <1>3, <1>4, FS_Union, FS_Subset
<1>6. used \subseteq D \cup A
  <2>1. SUFFICES ASSUME NEW c \in used
                 PROVE  c \in D \cup A
    OBVIOUS
  <2>2. PICK u \in Threads : c \in InHand(u)
    BY DEF Inv, NothingLeaks, Usable
  <2>3. c = db[u] \/ (c = own[u] /\ own[u] # None)
    BY <2>2 DEF InHand
  <2>4. CASE c = db[u]
    BY <2>4
  <2>5. CASE c = own[u] /\ own[u] # None
    <3>1. u \in Others
      BY <2>5 DEF Inv, TypeOK
    <3>2. c = f[u]
      BY <2>5, <3>1
    <3>3. QED
      BY <3>1, <3>2
  <2>6. QED
    BY <2>3, <2>4, <2>5
<1>7. IsFiniteSet(used) /\ Cardinality(used) <= Cardinality(D \cup A)
  BY <1>5, <1>6, FS_Subset
<1>8. /\ Cardinality(used) \in Nat /\ Cardinality(D) \in Nat /\ Cardinality(A) \in Nat
      /\ Cardinality(D \cap A) \in Nat
  BY <1>3, <1>4, <1>5, <1>7, FS_CardinalityType
<1> HIDE DEF D, A, Others
<1>9. Cardinality(used) < MaxConn
  BY <1>1, <1>2, <1>3, <1>4, <1>5, <1>7, <1>8, Arithmetic
<1>10. QED
  BY <1>9 DEF Room

(* Twice as many connections as threads suffice: getconn never says        *)
(* "connection pool exhausted".                                            *)
THEOREM NeverExhausted == Spec => []RoomForEveryone
<1>1. Inv => RoomForEveryone
  BY LeavesRoom DEF RoomForEveryone
<1>2. QED
  BY <1>1, Invariance, PTL
=============================================================================
