-------------------------- MODULE SyncQueueProofs ---------------------------
(***************************************************************************)
(* Theorems about SyncQueue, for any entries, users and bounds: TypeOK,     *)
(* TruthTold, NeverStranded, SavedOnce and UnderOwnName.                    *)
(***************************************************************************)
EXTENDS SyncQueue, FiniteSetTheorems, SequenceTheorems, TLAPS

Posting == form # None /\ form.step = "posting"
Fetching == worker.step \in {"fetching", "deleting"}

(* The form under way waits for one request at most, the worker for one, as *)
(* long as it has an item; nobody waits for a request but it is on its way. *)
PageAsks ==
  IF Posting THEN \E f \in Flight : Sent("page") = {f} /\ f.entry = form.entry
             ELSE Sent("page") = {}

WorkerAsks ==
  IF Fetching
    THEN \E f \in Flight :
           /\ Sent("worker") = {f} /\ f.entry = worker.item.entry
           /\ worker.step = "deleting" => f.state \notin {"sent", "refused"}
    ELSE Sent("worker") = {}

Requests == PageAsks /\ WorkerAsks /\ \A f \in Sent("nobody") : f.state = "sent"

(* The items that the worker is about are in the queue until it deletes     *)
(* them; it knows them by their ids, which are never used again.           *)
Items ==
  /\ worker.item # None <=> Fetching
  /\ worker.todo \subseteq queue
  /\ Fetching => worker.item \in queue /\ worker.item \notin worker.todo
  /\ worker.step = "opening" => worker.allSuccess /\ worker.todo = {}
  /\ worker.step = "idle" => worker = Idle
  /\ \A i \in queue : i.id <= added

(* A form under way was not told before that it is queued or saved; when    *)
(* the page has added its item, that is true of it before it is told.      *)
Told ==
  form # None =>
    /\ told[form.entry] \in {"nothing", "failed"}
    /\ form.step = "registering" =>
         Waiting(form.entry) \/ rows[form.entry] # <<>> \/ form.entry \in refused

SavedIsSaved == \A f \in flights : f.state = "saved" => rows[f.entry] # <<>>

(* A token is the one of its user. *)
OwnSession ==
  session # None => session.token <= Len(logins) /\ session.user = logins[session.token]

Finite == IsFiniteSet(queue) /\ IsFiniteSet(flights)

(* The form may yet make a row of its own, or be submitted once more. *)
MaySubmit(e) ==
  /\ told[e] \in {"nothing", "failed"}
  /\ form # None /\ form.entry = e => form.step # "registering"
  /\ \A f \in Sent("page") : f.entry = e => f.state # "saved"

WorkerSaved == \E f \in Sent("worker") : f.state = "saved"

(* The items that may yet make a row, and the requests nobody waits for. *)
Unsaved(e) == {i \in queue : i.entry = e /\ ~(i = worker.item /\ WorkerSaved)}
Strays(e) == {f \in Sent("nobody") : f.entry = e}

PaidFor(e) ==
  Len(rows[e]) + (IF MaySubmit(e) THEN 1 ELSE 0) + Cardinality(Unsaved(e))
    + Cardinality(Strays(e)) <= 1 + unsure[e]

(* The types of TypeOK; the rest of it follows from Requests. *)
Types ==
  /\ online \in BOOLEAN
  /\ session \in Session \cup {None}
  /\ logins \in Seq(Users) /\ Len(logins) <= MaxLogins
  /\ page \in Tokens \cup {None}
  /\ cached \subseteq Tokens
  /\ form \in Form \cup {None}
  /\ told \in [Entries -> {"nothing", "failed", "queued", "saved"}]
  /\ queue \subseteq Item
  /\ added \in 0..MaxItems
  /\ sync \in {"none", "pending", "firing", "again", "given up"}
  /\ worker \in Worker
  /\ synced \subseteq Entries /\ refused \subseteq Entries
  /\ flights \subseteq Flight
  /\ rows \in [Entries -> Seq(Users)]
  /\ unsure \in [Entries -> Nat]
  /\ troubles \in 0..MaxTroubles
  /\ worker.step = "idle" <=> sync \notin {"firing", "again"}

IInv ==
  /\ Types /\ Requests /\ Items /\ Told /\ SavedIsSaved /\ OwnSession /\ Finite
  /\ TruthTold /\ NeverStranded /\ \A e \in Entries : PaidFor(e)
-----------------------------------------------------------------------------
LEMMA TypeIs == Types /\ Requests => TypeOK
<1> SUFFICES ASSUME Types, Requests PROVE TypeOK
  OBVIOUS
<1>1. {f.entry : f \in Sent("page")} =
        IF form # None /\ form.step = "posting" THEN {form.entry} ELSE {}
  <2>1. CASE Posting
    <3>1. PICK f \in Flight : Sent("page") = {f} /\ f.entry = form.entry
      BY <2>1 DEF Requests, PageAsks, WorkerAsks
    <3> QED
      BY <2>1, <3>1 DEF Posting
  <2>2. CASE ~Posting
    BY <2>2 DEF Requests, PageAsks, Posting
  <2> QED
    BY <2>1, <2>2
<1>2. {f.entry : f \in Sent("worker")} =
        IF worker.step \in {"fetching", "deleting"} THEN {worker.item.entry} ELSE {}
  <2>1. CASE Fetching
    <3>1. PICK f \in Flight : Sent("worker") = {f} /\ f.entry = worker.item.entry
      BY <2>1 DEF Requests, PageAsks, WorkerAsks
    <3> QED
      BY <2>1, <3>1 DEF Fetching
  <2>2. CASE ~Fetching
    BY <2>2 DEF Requests, WorkerAsks, Fetching
  <2> QED
    BY <2>1, <2>2
<1> QED
  BY <1>1, <1>2 DEF Types, TypeOK

(* What the steps do to the requests under way. *)
Senders == {"page", "worker", "nobody"}

LEMMA PostIs ==
  ASSUME Types, Finite, NEW by \in {"page", "worker"}, NEW e \in Entries, NEW t \in Tokens,
         Post(by, e, t)
  PROVE  /\ flights' \subseteq Flight /\ IsFiniteSet(flights')
         /\ \E f \in Flight : /\ f.entry = e /\ f.state = "sent"
                              /\ Sent(by)' = Sent(by) \cup {f}
         /\ \A b \in Senders \ {by} : Sent(b)' = Sent(b)
         /\ \A g \in flights' : g.state = "saved" => g \in flights
<1> DEFINE f == [token |-> t, entry |-> e, by |-> by, state |-> "sent"]
<1>1. f \in Flight /\ f.entry = e /\ f.state = "sent" /\ f.by = by
  BY DEF Flight
<1>2. flights' = flights \cup {f}
  BY DEF Post
<1> HIDE DEF f
<1>3. IsFiniteSet(flights')
  BY <1>2, FS_AddElement DEF Finite
<1> QED
  BY <1>1, <1>2, <1>3 DEF Sent, Types

LEMMA GoneIs ==
  ASSUME Types, Finite, NEW by \in Senders, NEW f \in Sent(by), flights' = flights \ {f}
  PROVE  /\ flights' \subseteq Flight /\ IsFiniteSet(flights')
         /\ Sent(by)' = Sent(by) \ {f}
         /\ \A b \in Senders \ {by} : Sent(b)' = Sent(b)
<1>1. IsFiniteSet(flights')
  BY FS_RemoveElement DEF Finite
<1> QED
  BY <1>1 DEF Sent, Types

LEMMA AnswerIs ==
  ASSUME Types, Finite, NEW f \in flights, NEW s \in Answers, Answer(f, s)
  PROVE  /\ flights' \subseteq Flight /\ IsFiniteSet(flights')
         /\ \A b \in Senders \ {f.by} : Sent(b)' = Sent(b)
         /\ f.by = "nobody" => Sent("nobody")' = Sent("nobody") \ {f}
         /\ f.by # "nobody" =>
              \E g \in Flight : /\ g.entry = f.entry /\ g.state = s /\ g.by = f.by
                               /\ Sent(f.by)' = (Sent(f.by) \ {f}) \cup {g}
         /\ \A g \in flights' : g.state = "saved" => g \in flights \/ (s = "saved" /\ g.entry = f.entry)
<1>1. CASE f.by = "nobody"
  <2>1. flights' = flights \ {f} /\ f \in Sent("nobody")
    BY <1>1 DEF Answer, Sent
  <2>2. /\ flights' \subseteq Flight /\ IsFiniteSet(flights')
        /\ Sent("nobody")' = Sent("nobody") \ {f}
        /\ \A b \in Senders \ {"nobody"} : Sent(b)' = Sent(b)
    BY <2>1, GoneIs DEF Senders
  <2> QED
    BY <1>1, <2>1, <2>2
<1>2. CASE f.by # "nobody"
  <2> DEFINE g == [f EXCEPT !.state = s]
  <2>1. g \in Flight /\ g.entry = f.entry /\ g.state = s /\ g.by = f.by
    BY DEF Flight, Types
  <2>2. flights' = (flights \ {f}) \cup {g}
    BY <1>2 DEF Answer
  <2> HIDE DEF g
  <2>3. IsFiniteSet(flights')
    BY <2>2, FS_AddElement, FS_RemoveElement DEF Finite
  <2>4. \A b \in Senders \ {f.by} : Sent(b)' = Sent(b)
    BY <2>1, <2>2 DEF Sent
  <2>5. Sent(f.by)' = (Sent(f.by) \ {f}) \cup {g}
    BY <2>1, <2>2 DEF Sent
  <2>6. \A h \in flights' : h.state = "saved" => h \in flights \/ (s = "saved" /\ h.entry = f.entry)
    BY <2>1, <2>2
  <2>7. flights' \subseteq Flight
    BY <2>1, <2>2 DEF Types
  <2> QED
    BY <1>2, <2>1, <2>3, <2>4, <2>5, <2>6, <2>7
<1> QED
  BY <1>1, <1>2

Lone(by) == Sent(by) = {} \/ \E f \in Flight : Sent(by) = {f}

(* A sender that gives up leaves one stray at most, and the row of its      *)
(* request or the item it has just added may stay unknown.                 *)
LEMMA AbandonIs ==
  ASSUME Types, Finite, NEW by \in {"page", "worker"}, Lone(by), Abandon(by)
  PROVE  /\ flights' \subseteq Flight /\ IsFiniteSet(flights')
         /\ Sent(by)' = {} /\ \A b \in {"page", "worker"} \ {by} : Sent(b)' = Sent(b)
         /\ \A g \in Sent("nobody")' : g \in Sent("nobody") \/ g.state = "sent"
         /\ \A g \in flights' : g.state = "saved" => g \in flights
         /\ unsure' \in [Entries -> Nat]
         /\ \A e \in Entries :
              /\ unsure'[e] \in {unsure[e], unsure[e] + 1}
              /\ (\E f \in Sent(by) : f.entry = e /\ f.state = "saved") \/ (by = "page" /\ Untold(e))
                   => unsure'[e] = unsure[e] + 1
              /\ \/ Strays(e)' = Strays(e)
                 \/ /\ \E f \in Sent(by) : f.entry = e /\ f.state = "sent"
                    /\ \E x : Strays(e)' = Strays(e) \cup {x}
                    /\ unsure'[e] = unsure[e] + 1
<1>1. PICK late \in BOOLEAN :
        LET lost   == {f \in Sent(by) : f.state = "saved" \/ (late /\ f.state = "sent")}
            strays == {[f EXCEPT !.by = "nobody"] : f \in {f \in lost : f.state = "sent"}}
        IN  /\ flights' = (flights \ Sent(by)) \cup strays
            /\ unsure' = [e \in Entries |->
                            IF (\E f \in lost : f.entry = e) \/ (by = "page" /\ Untold(e))
                              THEN unsure[e] + 1 ELSE unsure[e]]
  BY DEF Abandon
<1> DEFINE lost == {f \in Sent(by) : f.state = "saved" \/ (late /\ f.state = "sent")}
<1>2. unsure' = [e \in Entries |->
                  IF (\E f \in lost : f.entry = e) \/ (by = "page" /\ Untold(e))
                    THEN unsure[e] + 1 ELSE unsure[e]]
  BY <1>1
<1>3. \A e \in Entries : unsure[e] \in Nat
  BY DEF Types
<1>4. /\ unsure' \in [Entries -> Nat]
      /\ \A e \in Entries : unsure'[e] \in {unsure[e], unsure[e] + 1}
  BY <1>2, <1>3
<1>5. \A e \in Entries :
        (\E f \in Sent(by) : f.entry = e /\ f.state = "saved") \/ (by = "page" /\ Untold(e))
          => unsure'[e] = unsure[e] + 1
  BY <1>2
<1>6. CASE \E f \in Sent(by) : late /\ f.state = "sent"
  <2>1. PICK f \in Flight : Sent(by) = {f} /\ f.state = "sent" /\ late /\ f.by = by
    BY <1>6 DEF Lone, Sent
  <2> DEFINE x == [f EXCEPT !.by = "nobody"]
  <2>2. x \in Flight /\ x.by = "nobody" /\ x.entry = f.entry /\ x.state = "sent"
    BY <2>1 DEF Flight
  <2>3. flights' = (flights \ {f}) \cup {x}
    <3>1. {g \in lost : g.state = "sent"} = {f}
      BY <2>1
    <3>2. {[g EXCEPT !.by = "nobody"] : g \in {g \in lost : g.state = "sent"}} = {x}
      BY <3>1
    <3> QED
      BY <1>1, <2>1, <3>2
  <2> HIDE DEF x
  <2>4. IsFiniteSet(flights') /\ flights' \subseteq Flight
    BY <2>2, <2>3, FS_AddElement, FS_RemoveElement DEF Finite, Types
  <2>5. Sent(by)' = {} /\ \A b \in {"page", "worker"} \ {by} : Sent(b)' = Sent(b)
    BY <2>1, <2>2, <2>3 DEF Sent
  <2>6. Sent("nobody")' = Sent("nobody") \cup {x}
    BY <2>1, <2>2, <2>3 DEF Sent
  <2>7. \A g \in flights' : g.state = "saved" => g \in flights
    BY <2>2, <2>3
  <2>8. ASSUME NEW e \in Entries
        PROVE  \/ Strays(e)' = Strays(e)
               \/ /\ \E g \in Sent(by) : g.entry = e /\ g.state = "sent"
                  /\ \E y : Strays(e)' = Strays(e) \cup {y}
                  /\ unsure'[e] = unsure[e] + 1
    <3>1. CASE f.entry = e
      <4>1. Strays(e)' = Strays(e) \cup {x}
        BY <2>2, <2>6, <3>1 DEF Strays
      <4>2. f \in lost
        BY <2>1
      <4>3. unsure'[e] = unsure[e] + 1
        BY <1>2, <3>1, <4>2
      <4> QED
        BY <2>1, <3>1, <4>1, <4>3
    <3>2. CASE f.entry # e
      BY <2>2, <2>6, <3>2 DEF Strays
    <3> QED
      BY <3>1, <3>2
  <2> QED
    BY <1>4, <1>5, <2>2, <2>4, <2>5, <2>6, <2>7, <2>8
<1>7. CASE ~\E f \in Sent(by) : late /\ f.state = "sent"
  <2>1. flights' = flights \ Sent(by)
    <3>1. {g \in lost : g.state = "sent"} = {}
      BY <1>7
    <3>2. {[g EXCEPT !.by = "nobody"] : g \in {g \in lost : g.state = "sent"}} = {}
      BY <3>1
    <3> QED
      BY <1>1, <3>2
  <2>2. IsFiniteSet(flights') /\ flights' \subseteq Flight
    BY <2>1, FS_Subset DEF Finite, Types
  <2>3. /\ Sent(by)' = {} /\ \A b \in {"page", "worker"} \ {by} : Sent(b)' = Sent(b)
        /\ Sent("nobody")' = Sent("nobody")
    BY <2>1 DEF Sent
  <2>4. \A e \in Entries : Strays(e)' = Strays(e)
    BY <2>3 DEF Strays
  <2> QED
    BY <1>4, <1>5, <2>1, <2>2, <2>3, <2>4
<1> QED
  BY <1>6, <1>7
-----------------------------------------------------------------------------
LEMMA PageFlightIs ==
  ASSUME Types, Requests, NEW f \in Sent("page")
  PROVE  /\ form \in Form /\ form # None /\ form.step = "posting" /\ form.entry \in Entries
         /\ f \in Flight /\ f \in flights /\ f.entry = form.entry /\ Sent("page") = {f}
<1>1. Posting
  BY DEF Requests, PageAsks
<1>2. PICK g \in Flight : Sent("page") = {g} /\ g.entry = form.entry
  BY <1>1 DEF Requests, PageAsks
<1> QED
  BY <1>1, <1>2 DEF Posting, Types, Form, Sent

LEMMA WorkerFlightIs ==
  ASSUME Types, Requests, Items, NEW f \in Sent("worker")
  PROVE  /\ Fetching /\ worker.item \in Item /\ worker.item \in queue
         /\ worker.item.entry \in Entries /\ worker.item \notin worker.todo
         /\ f \in Flight /\ f \in flights /\ f.entry = worker.item.entry /\ Sent("worker") = {f}
         /\ worker.step = "deleting" => f.state \notin {"sent", "refused"}
<1>1. Fetching
  BY DEF Requests, WorkerAsks
<1>2. PICK g \in Flight :
        /\ Sent("worker") = {g} /\ g.entry = worker.item.entry
        /\ worker.step = "deleting" => g.state \notin {"sent", "refused"}
  BY <1>1 DEF Requests, WorkerAsks
<1>3. worker.item \in queue /\ worker.item \notin worker.todo /\ worker.item \in Item
  BY <1>1 DEF Items, Types
<1> QED
  BY <1>1, <1>2, <1>3 DEF Sent, Item

LEMMA LoneIs == Requests => Lone("page") /\ Lone("worker")
BY DEF Requests, PageAsks, WorkerAsks, Lone

LEMMA FormIs ==
  ASSUME Types, form # None
  PROVE  form \in Form /\ form.entry \in Entries /\ form.token \in Tokens
         /\ form.step \in {"adding", "registering", "posting"}
BY DEF Types, Form

LEMMA BoundsAreNat == MaxLogins \in Nat /\ MaxItems \in Nat /\ MaxTroubles \in Nat
BY SyncQueueAssumption

LEMMA FailIs == Types /\ Trouble => troubles' \in 0..MaxTroubles
<1> SUFFICES ASSUME Types, Trouble PROVE troubles' \in 0..MaxTroubles
  OBVIOUS
<1>1. troubles \in 0..MaxTroubles
  BY DEF Types
<1>2. troubles < MaxTroubles /\ troubles' = troubles + 1
  BY DEF Trouble
<1> QED
  BY <1>1, <1>2, BoundsAreNat

LEMMA AddedIs == Types => added \in 0..MaxItems /\ added \in Nat
<1> SUFFICES ASSUME Types PROVE added \in 0..MaxItems /\ added \in Nat
  OBVIOUS
<1>1. added \in 0..MaxItems
  BY DEF Types
<1> QED
  BY <1>1, BoundsAreNat

-----------------------------------------------------------------------------
(* The actions of the page, and what they leave alone. *)
ByPage ==
  \/ LoadPage \/ \E e \in Entries : Submit(e)
  \/ AddToQueue \/ Register \/ QueueingFails \/ PostAnswered \/ PostFails

LEMMA PageFrame == ByPage => UNCHANGED <<net, worker, synced, refused, rows>>
BY DEF ByPage, LoadPage, Submit, AddToQueue, Register, QueueingFails, PostAnswered, PostFails,
       store, sw, server, net

LEMMA PageTypes ==
  ASSUME Types, Requests, Items, Finite, ByPage
  PROVE  Types'
<1>1. UNCHANGED <<net, worker, synced, refused, rows>>
  BY PageFrame
<1>2. CASE LoadPage
  <2>1. flights' \subseteq Flight /\ unsure' \in [Entries -> Nat]
    BY <1>2, LoneIs, AbandonIs DEF LoadPage
  <2>2. page' \in Tokens \cup {None} /\ cached' \subseteq Tokens
    BY <1>2 DEF LoadPage, Types, Session
  <2>3. troubles' \in 0..MaxTroubles
    BY <1>2, FailIs DEF LoadPage, Types
  <2> QED
    BY <1>1, <1>2, <2>1, <2>2, <2>3 DEF LoadPage, Types, net, store, sw
<1>3. ASSUME NEW e \in Entries, Submit(e) PROVE Types'
  <2>1. page \in Tokens
    BY <1>3 DEF Submit, Types
  <2>2. form' \in Form
    BY <1>3, <2>1 DEF Submit, Form
  <2>3. flights' \subseteq Flight
    <3>1. CASE online
      BY <1>3, <2>1, <3>1, PostIs DEF Submit
    <3>2. CASE ~online
      BY <1>3, <3>2 DEF Submit, Types
    <3> QED
      BY <3>1, <3>2
  <2> QED
    BY <1>1, <1>3, <2>2, <2>3 DEF Submit, Types, net, store, sw, counts
<1>4. CASE AddToQueue
  <2>1. form \in Form /\ form.entry \in Entries /\ form.token \in Tokens
    BY <1>4, FormIs DEF AddToQueue
  <2>2. form' \in Form
    BY <1>4, <2>1 DEF AddToQueue, Form
  <2>3. added' \in 0..MaxItems /\ added + 1 \in 1..MaxItems
    <3>1. added < MaxItems /\ added' = added + 1
      BY <1>4 DEF AddToQueue
    <3> QED
      BY <3>1, BoundsAreNat, AddedIs
  <2>4. queue' \subseteq Item
    <3>1. [token |-> form.token, entry |-> form.entry, id |-> added + 1] \in Item
      BY <2>1, <2>3 DEF Item
    <3> QED
      BY <1>4, <3>1 DEF AddToQueue, Types
  <2> QED
    BY <1>1, <1>4, <2>2, <2>3, <2>4 DEF AddToQueue, Types, net, sw, server, counts
<1>5. ASSUME NEW text \in {"failed", "queued", "saved"}, Toast(text), form # None
      PROVE  told' \in [Entries -> {"nothing", "failed", "queued", "saved"}] /\ form' = None
             /\ page' = page /\ cached' = cached
  BY <1>5, FormIs DEF Toast, Types
<1>6. CASE Register
  <2>1. sync' \in {"none", "pending", "firing", "again", "given up"}
        /\ (worker.step = "idle" <=> sync' \notin {"firing", "again"})
    BY <1>6 DEF Register, Types
  <2> QED
    BY <1>1, <1>5, <1>6, <2>1 DEF Register, Types, net, store, server, counts
<1>7. CASE QueueingFails
  <2>1. flights' \subseteq Flight /\ unsure' \in [Entries -> Nat] /\ troubles' \in 0..MaxTroubles
    BY <1>7, LoneIs, FailIs, AbandonIs DEF QueueingFails
  <2> QED
    BY <1>1, <1>5, <1>7, <2>1 DEF QueueingFails, Types, net, store, sw
<1>8. CASE PostAnswered
  <2>1. PICK f \in Sent("page") :
          flights' = flights \ {f} /\ Toast(IF f.state = "saved" THEN "saved" ELSE "failed")
    BY <1>8 DEF PostAnswered
  <2>2. form # None
    BY PageFlightIs
  <2>3. told' \in [Entries -> {"nothing", "failed", "queued", "saved"}] /\ form' = None
        /\ page' = page /\ cached' = cached
    BY <1>5, <2>1, <2>2
  <2> QED
    BY <1>1, <1>8, <2>1, <2>3 DEF PostAnswered, Types, net, store, sw, counts
<1>9. CASE PostFails
  <2>1. form # None
    BY <1>9, PageFlightIs DEF PostFails
  <2>2. flights' \subseteq Flight /\ unsure' \in [Entries -> Nat] /\ troubles' \in 0..MaxTroubles
    BY <1>9, LoneIs, FailIs, AbandonIs DEF PostFails
  <2> QED
    BY <1>1, <1>5, <1>9, <2>1, <2>2 DEF PostFails, Types, net, store, sw
<1> QED
  BY <1>2, <1>3, <1>4, <1>6, <1>7, <1>8, <1>9 DEF ByPage

(* What an action leaves of the requests that are not the page's. *)
LeavesOthers ==
  /\ Sent("worker")' = Sent("worker") /\ \A g \in Sent("nobody")' : g.state = "sent"
  /\ IsFiniteSet(flights') /\ \A g \in flights' : g.state = "saved" => g \in flights

LEMMA LeavesAll == Requests /\ Finite /\ flights' = flights => LeavesOthers
BY DEF Requests, LeavesOthers, Sent, Finite

LEMMA PageRequests ==
  ASSUME Types, Requests, Items, Finite, SavedIsSaved, ByPage
  PROVE  Requests' /\ IsFiniteSet(flights') /\ SavedIsSaved'
<1>1. worker' = worker /\ rows' = rows
  BY PageFrame
<1>2. ASSUME Abandon("page"), form' = None PROVE PageAsks' /\ LeavesOthers
  <2>1. Lone("page")
    BY LoneIs
  <2>2. Sent("page")' = {} /\ LeavesOthers
    BY <1>2, <2>1, AbandonIs DEF LeavesOthers, Requests
  <2> QED
    BY <1>2, <2>2 DEF PageAsks, Posting
<1>3. ASSUME flights' = flights, ~Posting, ~Posting' PROVE PageAsks' /\ LeavesOthers
  BY <1>3, LeavesAll DEF Requests, PageAsks, Sent
<1>4. PageAsks' /\ LeavesOthers
  <2>1. CASE LoadPage \/ QueueingFails \/ PostFails
    BY <1>2, <2>1 DEF LoadPage, QueueingFails, PostFails, Toast
  <2>2. ASSUME NEW e \in Entries, Submit(e) PROVE PageAsks' /\ LeavesOthers
    <3>1. page \in Tokens /\ ~Posting
      BY <2>2 DEF Submit, Types, Posting
    <3>2. form' \in Form /\ form'.entry = e /\ form'.step = IF online THEN "posting" ELSE "adding"
      BY <2>2, <3>1 DEF Submit, Form
    <3>3. form' # None
      BY <3>2, SyncQueueAssumption
    <3>4. CASE online
      <4>1. Post("page", e, page)
        BY <2>2, <3>4 DEF Submit
      <4>2. PICK f \in Flight : f.entry = e /\ Sent("page")' = Sent("page") \cup {f}
        BY <3>1, <4>1, PostIs
      <4>3. Sent("page")' = {f}
        BY <3>1, <4>2 DEF Requests, PageAsks
      <4>4. LeavesOthers
        BY <3>1, <4>1, PostIs DEF LeavesOthers, Requests, Senders
      <4> QED
        BY <3>2, <3>3, <3>4, <4>2, <4>3, <4>4 DEF PageAsks, Posting
    <3>5. CASE ~online
      <4>1. flights' = flights /\ ~Posting'
        BY <2>2, <3>2, <3>5 DEF Submit, Posting
      <4> QED
        BY <1>3, <3>1, <4>1
    <3> QED
      BY <3>4, <3>5
  <2>3. CASE AddToQueue
    <3>1. form \in Form /\ form'.step = "registering"
      BY <2>3, FormIs DEF AddToQueue, Form
    <3> QED
      BY <1>3, <2>3, <3>1 DEF AddToQueue, server, Posting
  <2>4. CASE Register
    BY <1>3, <2>4 DEF Register, Toast, server, Posting
  <2>5. CASE PostAnswered
    <3>1. PICK f \in Sent("page") : flights' = flights \ {f} /\ form' = None
      BY <2>5 DEF PostAnswered, Toast
    <3>2. Sent("page")' = {} /\ LeavesOthers
      BY <3>1, GoneIs, PageFlightIs DEF LeavesOthers, Requests, Senders
    <3> QED
      BY <3>1, <3>2 DEF PageAsks, Posting
  <2> QED
    BY <2>1, <2>2, <2>3, <2>4, <2>5 DEF ByPage
<1> QED
  BY <1>1, <1>4 DEF LeavesOthers, Requests, WorkerAsks, Fetching, SavedIsSaved

LEMMA PageItems ==
  ASSUME Types, Requests, Items, Finite, ByPage
  PROVE  Items' /\ IsFiniteSet(queue') /\ queue \subseteq queue'
         /\ \A i \in queue' \ queue : form # None /\ i.entry = form.entry
<1>1. worker' = worker
  BY PageFrame
<1>2. CASE AddToQueue
  <2> DEFINE i == [token |-> form.token, entry |-> form.entry, id |-> added + 1]
  <2>1. queue' = queue \cup {i} /\ added' = added + 1 /\ i.id = added + 1 /\ i.entry = form.entry
    BY <1>2 DEF AddToQueue
  <2> HIDE DEF i
  <2>2. added \in Nat /\ \A j \in queue : j.id \in Nat /\ j.id <= added
    <3>1. \A j \in queue : j.id \in 1..MaxItems /\ j.id <= added
      BY DEF Types, Items, Item
    <3> QED
      BY <3>1, AddedIs, BoundsAreNat
  <2>3. \A j \in queue' : j.id <= added'
    BY <2>1, <2>2
  <2>4. IsFiniteSet(queue')
    BY <2>1, FS_AddElement DEF Finite
  <2> QED
    BY <1>1, <1>2, <2>1, <2>3, <2>4 DEF Items, Fetching, AddToQueue
<1>3. CASE ~AddToQueue
  <2>1. queue' = queue /\ added' = added
    BY <1>3 DEF ByPage, LoadPage, Submit, Register, QueueingFails, PostAnswered, PostFails, store
  <2> QED
    BY <1>1, <2>1 DEF Items, Fetching, Finite
<1> QED
  BY <1>2, <1>3

(* What a user was told, and what will be done about it. *)
LEMMA PageTold ==
  ASSUME Types, Requests, Items, Finite, Told, TruthTold, SavedIsSaved, ByPage
  PROVE  Told' /\ TruthTold'
<1>1. rows' = rows /\ refused' = refused /\ queue \subseteq queue'
  BY PageFrame, PageItems
<1>2. \A e \in Entries : Waiting(e) => Waiting(e)'
  BY <1>1 DEF Waiting
<1>3. ASSUME told' = told, form' = None \/ (form'.entry = form.entry /\ form # None
                                            /\ form'.step # "registering")
      PROVE  Told' /\ TruthTold'
  BY <1>1, <1>2, <1>3 DEF Told, TruthTold
<1>4. ASSUME form # None, NEW text \in {"failed", "queued", "saved"}, Toast(text),
             text = "queued" => form.step = "registering",
             text = "saved" => rows[form.entry] # <<>>
      PROVE  Told' /\ TruthTold'
  <2>1. form' = None /\ told' = [told EXCEPT ![form.entry] = text] /\ form.entry \in Entries
    BY <1>4, FormIs DEF Toast
  <2>2. \A e \in Entries : told'[e] = IF e = form.entry THEN text ELSE told[e]
    BY <2>1 DEF Types
  <2>3. TruthTold'
    BY <1>1, <1>2, <1>4, <2>1, <2>2 DEF Told, TruthTold
  <2> QED
    BY <2>1, <2>3 DEF Told
<1>5. CASE LoadPage
  BY <1>3, <1>5 DEF LoadPage
<1>6. ASSUME NEW e \in Entries, Submit(e) PROVE Told' /\ TruthTold'
  <2>1. /\ form' = [token |-> page, entry |-> e, step |-> IF online THEN "posting" ELSE "adding"]
        /\ told' = told /\ told[e] \in {"nothing", "failed"}
    BY <1>6 DEF Submit
  <2>2. TruthTold'
    BY <1>1, <1>2, <2>1 DEF TruthTold
  <2> QED
    BY <2>1, <2>2 DEF Told
<1>7. CASE AddToQueue
  <2>1. form \in Form /\ form.entry \in Entries
    BY <1>7, FormIs DEF AddToQueue
  <2>2. /\ form'.entry = form.entry /\ told' = told /\ form # None
        /\ [token |-> form.token, entry |-> form.entry, id |-> added + 1] \in queue'
    BY <1>7, <2>1 DEF AddToQueue, Form
  <2>3. Waiting(form.entry)'
    BY <2>2 DEF Waiting
  <2>4. TruthTold'
    BY <1>1, <1>2, <2>2 DEF TruthTold
  <2> QED
    BY <2>2, <2>3, <2>4 DEF Told
<1>8. CASE Register
  BY <1>4, <1>8 DEF Register
<1>9. CASE QueueingFails \/ PostFails
  BY <1>4, <1>9, PageFlightIs DEF QueueingFails, PostFails
<1>10. CASE PostAnswered
  <2>1. PICK f \in Sent("page") : Toast(IF f.state = "saved" THEN "saved" ELSE "failed")
    BY <1>10 DEF PostAnswered
  <2>2. form # None /\ (f.state = "saved" => rows[form.entry] # <<>>)
    BY PageFlightIs DEF SavedIsSaved
  <2> QED
    BY <1>4, <2>1, <2>2
<1> QED
  BY <1>5, <1>6, <1>7, <1>8, <1>9, <1>10 DEF ByPage

LEMMA PageStrands ==
  ASSUME Types, Requests, Items, Finite, Told, NeverStranded, ByPage
  PROVE  NeverStranded'
<1>1. worker' = worker
  BY PageFrame
<1>2. CASE Register
  BY <1>2 DEF Register, NeverStranded, Expected
<1>3. CASE ~Register
  <2>1. sync' = sync
    BY <1>1, <1>3 DEF ByPage, LoadPage, Submit, AddToQueue, QueueingFails, PostAnswered, PostFails, sw
  <2>2. ASSUME NEW i \in queue', told'[i.entry] = "queued"
        PROVE  i \in queue /\ told[i.entry] = "queued"
    <3>1. i.entry \in Entries /\ (i \in queue \/ (form # None /\ i.entry = form.entry))
      <4>1. i \in queue \/ (form # None /\ i.entry = form.entry)
        BY PageItems
      <4>2. i \in queue => i.entry \in Entries
        BY DEF Types, Item
      <4>3. form # None => form.entry \in Entries
        BY FormIs
      <4> QED
        BY <4>1, <4>2, <4>3
    <3>2. told'[i.entry] = told[i.entry] \/ told'[i.entry] # "queued"
      <4>1. ASSUME form # None, NEW text \in {"failed", "saved"}, Toast(text)
            PROVE  told'[i.entry] = told[i.entry] \/ told'[i.entry] # "queued"
        BY <3>1, <4>1, FormIs DEF Toast, Types
      <4>2. CASE LoadPage \/ AddToQueue \/ \E e \in Entries : Submit(e)
        BY <4>2 DEF LoadPage, AddToQueue, Submit
      <4>3. CASE QueueingFails \/ PostFails \/ PostAnswered
        BY <4>1, <4>3, PageFlightIs DEF QueueingFails, PostFails, PostAnswered
      <4> QED
        BY <1>3, <4>2, <4>3 DEF ByPage
    <3>3. told[i.entry] = "queued"
      BY <2>2, <3>2
    <3> QED
      BY <3>1, <3>3 DEF Told
  <2> QED
    BY <1>1, <2>1, <2>2 DEF NeverStranded, Expected
<1> QED
  BY <1>2, <1>3

-----------------------------------------------------------------------------
(* Counting. *)

LEMMA Fewer ==
  ASSUME NEW S, IsFiniteSet(S), NEW T, T \subseteq S
  PROVE  Cardinality(S) \in Nat /\ Cardinality(T) \in Nat /\ Cardinality(T) <= Cardinality(S)
<1>1. IsFiniteSet(T) /\ Cardinality(T) <= Cardinality(S)
  BY FS_Subset
<1> QED
  BY <1>1, FS_CardinalityType

LEMMA OneMore ==
  ASSUME NEW S, IsFiniteSet(S), NEW x, NEW T, T \subseteq S \cup {x}
  PROVE  Cardinality(T) <= Cardinality(S) + 1
<1>1. IsFiniteSet(S \cup {x}) /\ Cardinality(S \cup {x}) <= Cardinality(S) + 1
  <2>1. Cardinality(S) \in Nat
    BY FS_CardinalityType
  <2> QED
    BY <2>1, FS_AddElement
<1>2. Cardinality(T) \in Nat /\ Cardinality(S \cup {x}) \in Nat
      /\ Cardinality(T) <= Cardinality(S \cup {x})
  BY <1>1, Fewer
<1>3. Cardinality(S) \in Nat
  BY FS_CardinalityType
<1> QED
  BY <1>1, <1>2, <1>3

LEMMA OneLess ==
  ASSUME NEW S, IsFiniteSet(S), NEW x \in S, NEW T, T \subseteq S \ {x}
  PROVE  Cardinality(T) + 1 <= Cardinality(S)
<1>1. IsFiniteSet(S \ {x}) /\ Cardinality(S \ {x}) = Cardinality(S) - 1
  BY FS_RemoveElement
<1>2. Cardinality(T) \in Nat /\ Cardinality(T) <= Cardinality(S \ {x})
  BY <1>1, Fewer
<1>3. Cardinality(S) \in Nat
  BY FS_CardinalityType
<1> QED
  BY <1>1, <1>2, <1>3

LEMMA PartsFinite ==
  ASSUME Finite, NEW e
  PROVE  IsFiniteSet(Unsaved(e)) /\ IsFiniteSet(Strays(e))
BY FS_Subset DEF Finite, Unsaved, Strays, Sent

LEMMA PartsFiniteNext ==
  ASSUME Finite', NEW e
  PROVE  IsFiniteSet(Unsaved(e)') /\ IsFiniteSet(Strays(e)')
BY FS_Subset DEF Finite, Unsaved, Strays, Sent

(* The chances of a row for e do not grow. *)
NoMore(e) ==
  /\ MaySubmit(e)' => MaySubmit(e)
  /\ Unsaved(e)' \subseteq Unsaved(e)
  /\ Strays(e)' \subseteq Strays(e)

(* They grow by one. *)
OneChance(e) ==
  \/ Unsaved(e)' \subseteq Unsaved(e) /\ Strays(e)' \subseteq Strays(e)
  \/ /\ MaySubmit(e)' => MaySubmit(e)
     /\ \E x : Unsaved(e)' \subseteq Unsaved(e) \cup {x}
     /\ Strays(e)' \subseteq Strays(e)
  \/ /\ MaySubmit(e)' => MaySubmit(e)
     /\ Unsaved(e)' \subseteq Unsaved(e)
     /\ \E x : Strays(e)' \subseteq Strays(e) \cup {x}

(* One of them is used. *)
OneUsed(e) ==
  \/ /\ MaySubmit(e) /\ ~MaySubmit(e)'
     /\ Unsaved(e)' \subseteq Unsaved(e) /\ Strays(e)' \subseteq Strays(e)
  \/ /\ MaySubmit(e)' => MaySubmit(e)
     /\ \E x \in Unsaved(e) : Unsaved(e)' \subseteq Unsaved(e) \ {x}
     /\ Strays(e)' \subseteq Strays(e)
  \/ /\ MaySubmit(e)' => MaySubmit(e)
     /\ Unsaved(e)' \subseteq Unsaved(e)
     /\ \E x \in Strays(e) : Strays(e)' \subseteq Strays(e) \ {x}

(* A submission becomes an item of the queue. *)
Queued(e) ==
  /\ MaySubmit(e) /\ ~MaySubmit(e)'
  /\ \E x : Unsaved(e)' \subseteq Unsaved(e) \cup {x}
  /\ Strays(e)' \subseteq Strays(e)

(* Numbers only: k rows for l, d unsure for c, and chances n, x, y for m, u, v. *)
Change(l, c, m, u, v, k, d, n, x, y) ==
  \/ k = l /\ d \in {c, c + 1} /\ n <= m /\ x <= u /\ y <= v
  \/ k = l /\ d = c + 1 /\ x <= u /\ y <= v
  \/ k = l /\ d = c + 1 /\ n <= m /\ x <= u + 1 /\ y <= v
  \/ k = l /\ d = c + 1 /\ n <= m /\ x <= u /\ y <= v + 1
  \/ k = l /\ d = c /\ m = 1 /\ n = 0 /\ x <= u + 1 /\ y <= v
  \/ k = l + 1 /\ d = c /\ m = 1 /\ n = 0 /\ x <= u /\ y <= v
  \/ k = l + 1 /\ d = c /\ n <= m /\ x + 1 <= u /\ y <= v
  \/ k = l + 1 /\ d = c /\ n <= m /\ x <= u /\ y + 1 <= v
  \/ k = l + 1 /\ d = c + 1 /\ n <= m /\ x <= u /\ y <= v

Numbers(l, c, m, u, v, k, d, n, x, y) ==
  /\ l \in Nat /\ c \in Nat /\ u \in Nat /\ v \in Nat /\ m \in {0, 1}
  /\ k \in Nat /\ d \in Nat /\ x \in Nat /\ y \in Nat /\ n \in {0, 1}
  /\ l + m + u + v <= 1 + c

LEMMA Balance ==
  ASSUME NEW l, NEW c, NEW m, NEW u, NEW v, NEW k, NEW d, NEW n, NEW x, NEW y,
         Numbers(l, c, m, u, v, k, d, n, x, y), Change(l, c, m, u, v, k, d, n, x, y)
  PROVE  k + n + x + y <= 1 + d
BY DEF Numbers, Change

(* A row is paid for by a chance or by what is unsure, and so is a new     *)
(* chance.                                                                 *)
LEMMA Pays ==
  ASSUME Types, Types', Finite, Finite', NEW e \in Entries, PaidFor(e),
         \/ rows'[e] = rows[e] /\ unsure'[e] \in {unsure[e], unsure[e] + 1} /\ NoMore(e)
         \/ rows'[e] = rows[e] /\ unsure'[e] = unsure[e] + 1 /\ OneChance(e)
         \/ rows'[e] = rows[e] /\ unsure'[e] = unsure[e] /\ Queued(e)
         \/ Len(rows'[e]) = Len(rows[e]) + 1 /\ unsure'[e] = unsure[e] /\ OneUsed(e)
         \/ Len(rows'[e]) = Len(rows[e]) + 1 /\ unsure'[e] = unsure[e] + 1 /\ NoMore(e)
  PROVE  PaidFor(e)'
<1> DEFINE m == IF MaySubmit(e) THEN 1 ELSE 0
           u == Cardinality(Unsaved(e))
           v == Cardinality(Strays(e))
           n == IF MaySubmit(e)' THEN 1 ELSE 0
           x == Cardinality(Unsaved(e)')
           y == Cardinality(Strays(e)')
<1>1. /\ IsFiniteSet(Unsaved(e)) /\ IsFiniteSet(Strays(e))
      /\ IsFiniteSet(Unsaved(e)') /\ IsFiniteSet(Strays(e)')
  BY PartsFinite, PartsFiniteNext
<1>2. u \in Nat /\ v \in Nat /\ x \in Nat /\ y \in Nat
  BY <1>1, FS_CardinalityType
<1>3. m \in {0, 1} /\ n \in {0, 1}
  OBVIOUS
<1>4. unsure[e] \in Nat /\ unsure'[e] \in Nat
  BY DEF Types
<1>5. Len(rows[e]) \in Nat /\ Len(rows'[e]) \in Nat
  <2>1. rows \in [Entries -> Seq(Users)] /\ rows' \in [Entries -> Seq(Users)]
    BY DEF Types
  <2>2. rows[e] \in Seq(Users) /\ rows'[e] \in Seq(Users)
    BY <2>1
  <2> HIDE DEF m, u, v, n, x, y
  <2> QED
    BY <2>2, LenProperties
<1>8. Len(rows[e]) + m + u + v <= 1 + unsure[e]
  BY DEF PaidFor
<1>6. /\ Unsaved(e)' \subseteq Unsaved(e) => x <= u
      /\ Strays(e)' \subseteq Strays(e) => y <= v
      /\ (\E z : Unsaved(e)' \subseteq Unsaved(e) \cup {z}) => x <= u + 1
      /\ (\E z : Strays(e)' \subseteq Strays(e) \cup {z}) => y <= v + 1
      /\ (\E z \in Unsaved(e) : Unsaved(e)' \subseteq Unsaved(e) \ {z}) => x + 1 <= u
      /\ (\E z \in Strays(e) : Strays(e)' \subseteq Strays(e) \ {z}) => y + 1 <= v
  BY <1>1, Fewer, OneMore, OneLess
<1>7. /\ (MaySubmit(e)' => MaySubmit(e)) => n <= m
      /\ MaySubmit(e) => m = 1
      /\ ~MaySubmit(e)' => n = 0
  OBVIOUS
<1> HIDE DEF m, u, v, n, x, y
<1> DEFINE l == Len(rows[e])
           k == Len(rows'[e])
           c == unsure[e]
           d == unsure'[e]
<1>9. Change(l, c, m, u, v, k, d, n, x, y)
  <2>1. CASE rows'[e] = rows[e] /\ unsure'[e] \in {unsure[e], unsure[e] + 1} /\ NoMore(e)
    <3>1. n <= m /\ x <= u /\ y <= v
      BY <1>6, <1>7, <2>1 DEF NoMore
    <3> QED
      BY <2>1, <3>1 DEF Change
  <2>2. CASE rows'[e] = rows[e] /\ unsure'[e] = unsure[e] + 1 /\ OneChance(e)
    <3>1. \/ x <= u /\ y <= v
          \/ n <= m /\ x <= u + 1 /\ y <= v
          \/ n <= m /\ x <= u /\ y <= v + 1
      BY <1>6, <1>7, <2>2 DEF OneChance
    <3> QED
      BY <2>2, <3>1 DEF Change
  <2>3. CASE rows'[e] = rows[e] /\ unsure'[e] = unsure[e] /\ Queued(e)
    <3>1. m = 1 /\ n = 0 /\ x <= u + 1 /\ y <= v
      BY <1>6, <1>7, <2>3 DEF Queued
    <3> QED
      BY <2>3, <3>1 DEF Change
  <2>4. CASE Len(rows'[e]) = Len(rows[e]) + 1 /\ unsure'[e] = unsure[e] /\ OneUsed(e)
    <3>1. \/ m = 1 /\ n = 0 /\ x <= u /\ y <= v
          \/ n <= m /\ x + 1 <= u /\ y <= v
          \/ n <= m /\ x <= u /\ y + 1 <= v
      BY <1>6, <1>7, <2>4 DEF OneUsed
    <3> QED
      BY <2>4, <3>1 DEF Change
  <2>5. CASE Len(rows'[e]) = Len(rows[e]) + 1 /\ unsure'[e] = unsure[e] + 1 /\ NoMore(e)
    <3>1. n <= m /\ x <= u /\ y <= v
      BY <1>6, <1>7, <2>5 DEF NoMore
    <3> QED
      BY <2>5, <3>1 DEF Change
  <2> QED
    BY <2>1, <2>2, <2>3, <2>4, <2>5
<1>10. Numbers(l, c, m, u, v, k, d, n, x, y)
  BY <1>2, <1>3, <1>4, <1>5, <1>8 DEF Numbers
<1> HIDE DEF l, k, c, d
<1>11. k + n + x + y <= 1 + d
  BY <1>9, <1>10, Balance
<1> QED
  BY <1>11 DEF PaidFor, n, x, y, k, d

(* Where neither the worker nor its request is touched, nor anything queued, *)
(* what the queue may yet make of an entry stays as it is.                 *)
LEMMA UnsavedIs ==
  ASSUME NEW e, worker' = worker, Sent("worker")' = Sent("worker")
  PROVE  /\ queue' = queue => Unsaved(e)' = Unsaved(e)
         /\ \A i : queue' = queue \cup {i} =>
              /\ Unsaved(e)' \subseteq Unsaved(e) \cup {i}
              /\ i.entry # e => Unsaved(e)' \subseteq Unsaved(e)
BY DEF Unsaved, WorkerSaved

LEMMA StraysAre == ASSUME NEW e, Sent("nobody")' = Sent("nobody") PROVE Strays(e)' = Strays(e)
BY DEF Strays

LEMMA PagePays ==
  ASSUME Types, Types', Requests, Items, Told, Finite, Finite', ByPage,
         NEW e \in Entries, PaidFor(e)
  PROVE  PaidFor(e)'
<1>1. worker' = worker /\ rows' = rows
  BY PageFrame
<1>2. ASSUME Abandon("page"), form' = None, queue' = queue,
             told'[e] \in {"nothing", "failed"} => told[e] \in {"nothing", "failed"}
      PROVE  PaidFor(e)'
  <2>1. Lone("page")
    BY LoneIs
  <2>2. /\ Sent("worker")' = Sent("worker") /\ Sent("page")' = {}
        /\ unsure'[e] \in {unsure[e], unsure[e] + 1}
        /\ (\E f \in Sent("page") : f.entry = e /\ f.state = "saved") \/ Untold(e)
             => unsure'[e] = unsure[e] + 1
        /\ \/ Strays(e)' = Strays(e)
           \/ /\ \E f \in Sent("page") : f.entry = e /\ f.state = "sent"
              /\ \E x : Strays(e)' = Strays(e) \cup {x}
              /\ unsure'[e] = unsure[e] + 1
    BY <1>2, <2>1, AbandonIs
  <2>3. Unsaved(e)' = Unsaved(e)
    BY <1>1, <1>2, <2>2, UnsavedIs
  <2>4. MaySubmit(e)' => MaySubmit(e) \/ unsure'[e] = unsure[e] + 1
    BY <1>2, <2>2 DEF MaySubmit, Untold
  <2>5. CASE Strays(e)' = Strays(e)
    <3>1. NoMore(e) \/ (OneChance(e) /\ unsure'[e] = unsure[e] + 1)
      BY <2>3, <2>4, <2>5 DEF NoMore, OneChance
    <3> QED
      BY <1>1, <2>2, <3>1, Pays
  <2>6. CASE /\ \E f \in Sent("page") : f.entry = e /\ f.state = "sent"
             /\ \E x : Strays(e)' = Strays(e) \cup {x}
             /\ unsure'[e] = unsure[e] + 1
    <3>1. PICK f \in Sent("page") : f.entry = e /\ f.state = "sent"
      BY <2>6
    <3>2. form # None /\ form.entry = e /\ form.step = "posting" /\ Sent("page") = {f}
      BY <3>1, PageFlightIs
    <3>3. MaySubmit(e)
      BY <3>1, <3>2 DEF MaySubmit, Told
    <3>4. OneChance(e)
      BY <2>3, <2>6, <3>3 DEF OneChance
    <3> QED
      BY <1>1, <2>6, <3>4, Pays
  <2> QED
    BY <2>2, <2>5, <2>6
<1>3. ASSUME form # None, NEW text \in {"failed", "queued", "saved"}, Toast(text)
      PROVE  /\ form' = None /\ told'[e] = IF e = form.entry THEN text ELSE told[e]
             /\ told'[e] \in {"nothing", "failed"} => told[e] \in {"nothing", "failed"}
  <2>1. form' = None /\ told'[e] = IF e = form.entry THEN text ELSE told[e]
    BY <1>3 DEF Toast, Types
  <2> QED
    BY <1>3, <2>1 DEF Told
<1>4. ASSUME queue' = queue, Sent("worker")' = Sent("worker"), Sent("nobody")' = Sent("nobody"),
             unsure' = unsure, MaySubmit(e)' => MaySubmit(e)
      PROVE  PaidFor(e)'
  <2>1. Unsaved(e)' = Unsaved(e) /\ Strays(e)' = Strays(e)
    BY <1>1, <1>4, UnsavedIs, StraysAre
  <2>2. NoMore(e)
    BY <1>4, <2>1 DEF NoMore
  <2> QED
    BY <1>1, <1>4, <2>2, Pays
<1>5. CASE LoadPage
  BY <1>2, <1>5 DEF LoadPage, store
<1>6. ASSUME NEW d \in Entries, Submit(d) PROVE PaidFor(e)'
  <2>1. /\ page \in Tokens /\ form = None /\ told' = told /\ queue' = queue /\ unsure' = unsure
        /\ flights' = flights \/ Post("page", d, page)
    BY <1>6 DEF Submit, store, counts, Types
  <2>2. Sent("page") = {}
    BY <2>1 DEF Requests, PageAsks, Posting
  <2>3. Sent("worker")' = Sent("worker") /\ Sent("nobody")' = Sent("nobody")
    <3>1. CASE flights' = flights
      BY <3>1 DEF Sent
    <3>2. CASE Post("page", d, page)
      BY <2>1, <3>2, PostIs DEF Senders
    <3> QED
      BY <2>1, <3>1, <3>2
  <2>4. MaySubmit(e)' => MaySubmit(e)
    BY <2>1, <2>2 DEF MaySubmit
  <2> QED
    BY <1>4, <2>1, <2>3, <2>4
<1>7. CASE AddToQueue
  <2> DEFINE i == [token |-> form.token, entry |-> form.entry, id |-> added + 1]
  <2>1. i.entry = form.entry
    OBVIOUS
  <2>2. queue' = queue \cup {i} /\ flights' = flights /\ unsure' = unsure /\ told' = told
        /\ form # None /\ form.step = "adding"
    BY <1>7 DEF AddToQueue, server, counts
  <2> HIDE DEF i
  <2>3. \A b \in Senders : Sent(b)' = Sent(b)
    BY <2>2 DEF Sent
  <2>4. Sent("page") = {}
    BY <2>2 DEF Requests, PageAsks, Posting
  <2>5. Strays(e)' = Strays(e)
    BY <2>3, StraysAre DEF Senders
  <2>6. /\ Unsaved(e)' \subseteq Unsaved(e) \cup {i}
        /\ form.entry # e => Unsaved(e)' \subseteq Unsaved(e)
    BY <1>1, <2>1, <2>2, <2>3, UnsavedIs DEF Senders
  <2>7. /\ form' # None /\ form'.entry = form.entry /\ form'.step = "registering"
    <3>1. form \in Form /\ form' = [form EXCEPT !.step = "registering"]
      BY <1>7, FormIs DEF AddToQueue
    <3>2. form' \in Form /\ form'.entry = form.entry /\ form'.step = "registering"
      BY <3>1 DEF Form
    <3> QED
      BY <3>2, SyncQueueAssumption
  <2>8. CASE form.entry = e
    <3>1. MaySubmit(e) /\ ~MaySubmit(e)'
      BY <2>2, <2>4, <2>7, <2>8 DEF MaySubmit, Told
    <3>2. Queued(e)
      BY <2>5, <2>6, <3>1 DEF Queued
    <3> QED
      BY <1>1, <2>2, <3>2, Pays
  <2>9. CASE form.entry # e
    <3>1. NoMore(e)
      BY <2>2, <2>3, <2>5, <2>6, <2>9 DEF NoMore, MaySubmit, Senders
    <3> QED
      BY <1>1, <2>2, <3>1, Pays
  <2> QED
    BY <2>8, <2>9
<1>8. CASE Register
  <2>1. /\ form # None /\ form.step = "registering" /\ Toast("queued")
        /\ flights' = flights /\ unsure' = unsure /\ queue' = queue
    BY <1>8 DEF Register, server, counts, store
  <2>2. \A b \in Senders : Sent(b)' = Sent(b)
    BY <2>1 DEF Sent
  <2>3. Sent("page") = {}
    BY <2>1 DEF Requests, PageAsks, Posting
  <2>4. MaySubmit(e)' => MaySubmit(e)
    BY <1>3, <2>1, <2>3 DEF MaySubmit
  <2> QED
    BY <1>4, <2>1, <2>2, <2>4 DEF Senders
<1>9. CASE QueueingFails
  BY <1>2, <1>3, <1>9 DEF QueueingFails, store
<1>10. CASE PostFails
  <2>1. form # None
    BY <1>10, PageFlightIs DEF PostFails
  <2> QED
    BY <1>2, <1>3, <1>10, <2>1 DEF PostFails, store
<1>11. CASE PostAnswered
  <2>1. PICK f \in Sent("page") :
          /\ Toast(IF f.state = "saved" THEN "saved" ELSE "failed")
          /\ flights' = flights \ {f} /\ unsure' = unsure /\ queue' = queue
    BY <1>11 DEF PostAnswered, counts, store
  <2>2. form # None /\ form.step = "posting" /\ f.entry = form.entry /\ Sent("page") = {f}
    BY PageFlightIs
  <2>3. Sent("worker")' = Sent("worker") /\ Sent("nobody")' = Sent("nobody")
    BY <2>1, GoneIs DEF Senders
  <2>4. told'[e] = IF e = form.entry THEN (IF f.state = "saved" THEN "saved" ELSE "failed")
                                     ELSE told[e]
    BY <1>3, <2>1, <2>2
  <2>5. MaySubmit(e)' => MaySubmit(e)
    BY <2>2, <2>4 DEF MaySubmit, Told
  <2> QED
    BY <1>4, <2>1, <2>3, <2>5
<1> QED
  BY <1>5, <1>6, <1>7, <1>8, <1>9, <1>10, <1>11 DEF ByPage
-----------------------------------------------------------------------------
(* The server. *)

Stores(f) ==
  /\ session \in Session /\ session.token = f.token
  /\ rows' = [rows EXCEPT ![f.entry] = Append(@, session.user)]

(* A request is answered once, and saved only under the token of the session; *)
(* one that is saved and refused all the same counts.                      *)
Served(f, s) ==
  /\ Answer(f, s)
  /\ \/ s = "saved" /\ Stores(f) /\ unsure' = unsure
     \/ s # "saved" /\ rows' = rows /\ unsure' = unsure
     \/ s # "saved" /\ Stores(f) /\ unsure' = [unsure EXCEPT ![f.entry] = @ + 1]

LEMMA ServeIs ==
  ASSUME Types, Serve
  PROVE  /\ UNCHANGED <<online, logins, pages, store, sw>>
         /\ session' \in {session, None} /\ troubles' \in 0..MaxTroubles
         /\ \E f \in flights, s \in Answers : f.state = "sent" /\ Served(f, s)
<1>1. PICK f \in flights :
        /\ f.state = "sent"
        /\ \/ RedirectsToLogin(f) /\ unsure' = unsure
           \/ FailsCsrf(f) /\ unsure' = unsure
           \/ Saves(f) /\ unsure' = unsure
           \/ Refuses(f) /\ unsure' = unsure
           \/ FailsLate(f)
  BY DEF Serve
<1>2. CASE RedirectsToLogin(f) /\ unsure' = unsure
  BY <1>1, <1>2 DEF RedirectsToLogin, Served, Answers, Serve, Types
<1>3. CASE FailsCsrf(f) /\ unsure' = unsure
  BY <1>1, <1>3 DEF FailsCsrf, Served, Answers, Serve, Types
<1>4. CASE Saves(f) /\ unsure' = unsure
  BY <1>1, <1>4 DEF Saves, Served, Stores, Answers, Serve, Types
<1>5. CASE Refuses(f) /\ unsure' = unsure
  BY <1>1, <1>5, FailIs DEF Refuses, Served, Answers, Serve
<1>6. CASE FailsLate(f)
  BY <1>1, <1>6, FailIs DEF FailsLate, Served, Stores, Answers, Serve, Types
<1> QED
  BY <1>1, <1>2, <1>3, <1>4, <1>5, <1>6

LEMMA StoresIs ==
  ASSUME Types, NEW f \in flights, Stores(f)
  PROVE  /\ rows' \in [Entries -> Seq(Users)]
         /\ Len(rows'[f.entry]) = Len(rows[f.entry]) + 1 /\ rows'[f.entry] # <<>>
         /\ \A e \in Entries : e # f.entry => rows'[e] = rows[e]
<1>1. f.entry \in Entries /\ rows \in [Entries -> Seq(Users)]
  BY DEF Types, Flight
<1>2. session.user \in Users /\ rows[f.entry] \in Seq(Users)
  BY <1>1 DEF Stores, Session
<1> DEFINE r == Append(rows[f.entry], session.user)
<1>3. r \in Seq(Users) /\ Len(r) = Len(rows[f.entry]) + 1 /\ r # <<>>
  BY <1>2, AppendProperties
<1>4. rows' = [rows EXCEPT ![f.entry] = r]
  BY DEF Stores
<1> HIDE DEF r
<1>5. /\ rows'[f.entry] = r /\ rows' \in [Entries -> Seq(Users)]
      /\ \A e \in Entries : e # f.entry => rows'[e] = rows[e]
  BY <1>1, <1>3, <1>4
<1> QED
  BY <1>3, <1>5

LEMMA RowsServed ==
  ASSUME Types, NEW f \in flights, NEW s \in Answers, Served(f, s)
  PROVE  /\ rows' \in [Entries -> Seq(Users)] /\ unsure' \in [Entries -> Nat]
         /\ s = "saved" => /\ Len(rows'[f.entry]) = Len(rows[f.entry]) + 1
                           /\ rows'[f.entry] # <<>> /\ unsure' = unsure
         /\ s # "saved" => \/ rows' = rows /\ unsure' = unsure
                           \/ /\ Len(rows'[f.entry]) = Len(rows[f.entry]) + 1
                              /\ unsure'[f.entry] = unsure[f.entry] + 1
         /\ \A e \in Entries :
              /\ e # f.entry => rows'[e] = rows[e] /\ unsure'[e] = unsure[e]
              /\ rows[e] # <<>> => rows'[e] # <<>>
<1>1. f.entry \in Entries /\ rows \in [Entries -> Seq(Users)] /\ unsure \in [Entries -> Nat]
  BY DEF Types, Flight
<1>2. CASE s = "saved" /\ Stores(f) /\ unsure' = unsure
  BY <1>1, <1>2, StoresIs
<1>3. CASE s # "saved" /\ rows' = rows /\ unsure' = unsure
  BY <1>1, <1>3
<1>4. CASE s # "saved" /\ Stores(f) /\ unsure' = [unsure EXCEPT ![f.entry] = @ + 1]
  <2>1. /\ unsure' \in [Entries -> Nat] /\ unsure'[f.entry] = unsure[f.entry] + 1
        /\ \A e \in Entries : e # f.entry => unsure'[e] = unsure[e]
    BY <1>1, <1>4
  <2> QED
    BY <1>4, <2>1, StoresIs
<1> QED
  BY <1>2, <1>3, <1>4 DEF Served

LEMMA ServeTypes == ASSUME Types, Finite, Serve PROVE Types'
<1>1. PICK f \in flights, s \in Answers : Served(f, s)
  BY ServeIs
<1>2. flights' \subseteq Flight
  BY <1>1, AnswerIs DEF Served
<1>3. rows' \in [Entries -> Seq(Users)] /\ unsure' \in [Entries -> Nat]
  BY <1>1, RowsServed
<1>4. /\ UNCHANGED <<online, logins, pages, store, sw>>
      /\ session' \in {session, None} /\ troubles' \in 0..MaxTroubles
  BY ServeIs
<1> QED
  BY <1>2, <1>3, <1>4 DEF Types, pages, store, sw

LEMMA ServeKeeps ==
  ASSUME Types, Requests, Items, Told, SavedIsSaved, OwnSession, Finite, TruthTold,
         NeverStranded, Serve
  PROVE  Requests' /\ Items' /\ Told' /\ SavedIsSaved' /\ OwnSession' /\ Finite' /\ TruthTold'
         /\ NeverStranded'
<1>1. PICK f \in flights, s \in Answers : f.state = "sent" /\ Served(f, s)
  BY ServeIs
<1>2. /\ online' = online /\ logins' = logins /\ page' = page /\ cached' = cached
      /\ form' = form /\ told' = told /\ queue' = queue /\ added' = added /\ sync' = sync
      /\ worker' = worker /\ synced' = synced /\ refused' = refused
      /\ session' \in {session, None}
  BY ServeIs DEF pages, store, sw
<1>3. Answer(f, s)
  BY <1>1 DEF Served
<1>4. /\ IsFiniteSet(flights') /\ \A b \in Senders \ {f.by} : Sent(b)' = Sent(b)
      /\ f.by = "nobody" => Sent("nobody")' = Sent("nobody") \ {f}
      /\ f.by # "nobody" =>
           \E g \in Flight : /\ g.entry = f.entry /\ g.state = s /\ g.by = f.by
                            /\ Sent(f.by)' = (Sent(f.by) \ {f}) \cup {g}
      /\ \A g \in flights' :
           g.state = "saved" => g \in flights \/ (s = "saved" /\ g.entry = f.entry)
  BY <1>3, AnswerIs
<1>5. f \in Sent(f.by) /\ f.by \in Senders
  BY DEF Sent, Types, Flight, Senders
<1>6. Requests'
  <2>1. CASE f.by = "page"
    <3>1. form # None /\ form.step = "posting" /\ Sent("page") = {f} /\ f.entry = form.entry
      BY <1>5, <2>1, PageFlightIs
    <3>2. PageAsks'
      BY <1>2, <1>4, <2>1, <3>1 DEF PageAsks, Posting
    <3>3. Sent("worker")' = Sent("worker") /\ Sent("nobody")' = Sent("nobody")
      BY <1>4, <2>1 DEF Senders
    <3> QED
      BY <1>2, <3>2, <3>3 DEF Requests, WorkerAsks, Fetching
  <2>2. CASE f.by = "worker"
    <3>1. /\ Fetching /\ Sent("worker") = {f} /\ f.entry = worker.item.entry
          /\ worker.step # "deleting"
      BY <1>1, <1>5, <2>2, WorkerFlightIs
    <3>2. WorkerAsks'
      BY <1>2, <1>4, <2>2, <3>1 DEF WorkerAsks, Fetching
    <3>3. Sent("page")' = Sent("page") /\ Sent("nobody")' = Sent("nobody")
      BY <1>4, <2>2 DEF Senders
    <3> QED
      BY <1>2, <3>2, <3>3 DEF Requests, PageAsks, Posting
  <2>3. CASE f.by = "nobody"
    <3>1. /\ Sent("page")' = Sent("page") /\ Sent("worker")' = Sent("worker")
          /\ Sent("nobody")' \subseteq Sent("nobody")
      BY <1>4, <2>3 DEF Senders
    <3> QED
      BY <1>2, <3>1 DEF Requests, PageAsks, Posting, WorkerAsks, Fetching
  <2> QED
    BY <1>5, <2>1, <2>2, <2>3 DEF Senders
<1>7. \A e \in Entries : rows[e] # <<>> => rows'[e] # <<>>
  BY <1>1, RowsServed
<1>8. s = "saved" => rows'[f.entry] # <<>>
  BY <1>1, RowsServed
<1>9. SavedIsSaved'
  <2>1. \A g \in flights : g.entry \in Entries
    BY DEF Types, Flight
  <2> QED
    BY <1>4, <1>7, <1>8, <2>1 DEF SavedIsSaved
<1>10. Items' /\ NeverStranded' /\ OwnSession' /\ Finite'
  BY <1>2, <1>4 DEF Items, Fetching, NeverStranded, Expected, OwnSession, Finite
<1>11. Told' /\ TruthTold'
  <2>1. form # None => form.entry \in Entries
    BY FormIs
  <2>2. \A e \in Entries : Waiting(e)' = Waiting(e)
    BY <1>2 DEF Waiting
  <2> QED
    BY <1>2, <1>7, <2>1, <2>2 DEF Told, TruthTold
<1> QED
  BY <1>6, <1>9, <1>10, <1>11

LEMMA ServePays ==
  ASSUME Types, Types', Requests, Items, Told, Finite, Finite', Serve,
         NEW e \in Entries, PaidFor(e)
  PROVE  PaidFor(e)'
<1>1. PICK f \in flights, s \in Answers : f.state = "sent" /\ Served(f, s)
  BY ServeIs
<1>2. form' = form /\ told' = told /\ queue' = queue /\ worker' = worker
  BY ServeIs DEF pages, store, sw
<1>3. Answer(f, s)
  BY <1>1 DEF Served
<1>4. /\ \A b \in Senders \ {f.by} : Sent(b)' = Sent(b)
      /\ f.by = "nobody" => Sent("nobody")' = Sent("nobody") \ {f}
      /\ f.by # "nobody" =>
           \E g \in Flight : /\ g.entry = f.entry /\ g.state = s
                            /\ Sent(f.by)' = (Sent(f.by) \ {f}) \cup {g}
  BY <1>3, AnswerIs
<1>5. f \in Sent(f.by) /\ f.by \in Senders
  BY DEF Sent, Types, Flight, Senders
<1>6. NoMore(e)
  <2>1. \A b \in {"page", "worker"} : \A g \in Sent(b) : g.state = "saved" => g \in Sent(b)'
    BY <1>1, <1>4 DEF Senders
  <2>2. Sent("nobody")' \subseteq Sent("nobody")
    BY <1>4, <1>5 DEF Senders
  <2>3. MaySubmit(e)' => MaySubmit(e)
    BY <1>2, <2>1 DEF MaySubmit
  <2>4. Unsaved(e)' \subseteq Unsaved(e)
    BY <1>2, <2>1 DEF Unsaved, WorkerSaved
  <2>5. Strays(e)' \subseteq Strays(e)
    BY <2>2 DEF Strays
  <2> QED
    BY <2>3, <2>4, <2>5 DEF NoMore
<1>7. CASE s # "saved" \/ f.entry # e
  <2>1. \/ rows'[e] = rows[e] /\ unsure'[e] = unsure[e]
        \/ Len(rows'[e]) = Len(rows[e]) + 1 /\ unsure'[e] = unsure[e] + 1
    BY <1>1, <1>7, RowsServed
  <2> QED
    BY <1>6, <2>1, Pays
<1>8. CASE s = "saved" /\ f.entry = e
  <2>1. Len(rows'[e]) = Len(rows[e]) + 1 /\ unsure'[e] = unsure[e]
    BY <1>1, <1>8, RowsServed
  <2>2. OneUsed(e)
    <3>1. CASE f.by = "page"
      <4>1. form # None /\ form.step = "posting" /\ Sent("page") = {f} /\ f.entry = form.entry
        BY <1>5, <3>1, PageFlightIs
      <4>2. MaySubmit(e)
        BY <1>1, <1>8, <4>1 DEF MaySubmit, Told
      <4>3. ~MaySubmit(e)'
        BY <1>4, <1>8, <3>1 DEF MaySubmit
      <4> QED
        BY <1>6, <4>2, <4>3 DEF NoMore, OneUsed
    <3>2. CASE f.by = "worker"
      <4>1. /\ Sent("worker") = {f} /\ f.entry = worker.item.entry /\ worker.item \in queue
        BY <1>5, <3>2, WorkerFlightIs
      <4>2. worker.item \in Unsaved(e)
        BY <1>1, <1>8, <4>1 DEF Unsaved, WorkerSaved
      <4>3. WorkerSaved'
        BY <1>4, <1>8, <3>2 DEF WorkerSaved
      <4>4. worker.item \notin Unsaved(e)'
        BY <1>2, <4>3 DEF Unsaved
      <4> QED
        BY <1>6, <4>2, <4>4 DEF NoMore, OneUsed
    <3>3. CASE f.by = "nobody"
      <4>1. f \in Strays(e)
        BY <1>5, <1>8, <3>3 DEF Strays
      <4>2. f \notin Strays(e)'
        BY <1>4, <3>3 DEF Strays
      <4> QED
        BY <1>6, <4>1, <4>2 DEF NoMore, OneUsed
    <3> QED
      BY <1>5, <3>1, <3>2, <3>3 DEF Senders
  <2> QED
    BY <2>1, <2>2, Pays
<1> QED
  BY <1>7, <1>8
-----------------------------------------------------------------------------
(* The worker: flushQueue, and the browser that stops it. *)

LEMMA WorkerFrame == FlushQueue => UNCHANGED <<net, pages, added, rows>>
BY DEF FlushQueue, Fire, GetAll, Fetch, ItemStays, FetchFails, FetchAnswered, DeleteItem,
       DeleteFails, FlushEnds, WorkerStops, store, server

LEMMA WorkerIs == Types /\ Items =>
  /\ worker \in Worker /\ worker.item \in Item \cup {None} /\ None \notin Item
  /\ worker.todo \subseteq queue /\ queue \subseteq Item
  /\ ~Fetching => worker.item = None
BY SyncQueueAssumption DEF Types, Items, Worker

LEMMA IdleIs == Idle \in Worker /\ Idle.step = "idle" /\ Idle.item = None /\ Idle.todo = {}
BY DEF Idle, Worker

LEMMA NextItemIs ==
  ASSUME Types, NEW b \in BOOLEAN, NextItem(b)
  PROVE  /\ worker' \in Worker /\ worker'.step = "looping" /\ worker'.item = None
         /\ worker'.todo = worker.todo /\ worker'.allSuccess = (worker.allSuccess /\ b)
BY DEF Types, NextItem, Worker

(* The worker gives up its request, if it has one, and its item. *)
GivesUp ==
  /\ Abandon("worker") /\ Trouble /\ queue' = queue
  /\ worker.step # "idle" /\ worker'.item = None
  /\ \/ sync' = sync /\ NextItem(FALSE)
     \/ sync' \in {"pending", "given up"} /\ worker' = Idle

LEMMA GivingUp ==
  ASSUME Types, Requests, Items, FetchFails \/ DeleteFails \/ WorkerStops
  PROVE  GivesUp /\ UNCHANGED <<net, pages, store, synced, refused, rows>>
<1>1. CASE FetchFails
  <2>1. worker.step # "idle"
    BY <1>1, WorkerFlightIs DEF FetchFails, Fetching
  <2> QED
    BY <1>1, <2>1, NextItemIs DEF FetchFails, GivesUp, store
<1>2. CASE DeleteFails
  BY <1>2, NextItemIs DEF DeleteFails, GivesUp, store
<1>3. CASE WorkerStops
  BY <1>3, IdleIs DEF WorkerStops, Over, GivesUp, store
<1> QED
  BY <1>1, <1>2, <1>3

LEMMA WorkerTypes == ASSUME Types, Requests, Items, Finite, FlushQueue PROVE Types'
<1>1. UNCHANGED <<net, pages, added, rows>>
  BY WorkerFrame
<1>2. CASE Fire
  <2>1. worker' \in Worker /\ worker'.step = "opening"
    BY <1>2, IdleIs DEF Fire, Worker
  <2> QED
    BY <1>1, <1>2, <2>1 DEF Fire, Types, net, pages, store, server, counts
<1>3. CASE GetAll
  <2>1. worker' \in Worker /\ worker'.step = "looping"
    BY <1>3 DEF GetAll, Worker, Types
  <2> QED
    BY <1>1, <1>3, <2>1 DEF GetAll, Types, net, pages, store, server, counts
<1>4. CASE Fetch
  <2>1. PICK i \in worker.todo :
          /\ worker' = [worker EXCEPT !.step = "fetching", !.item = i, !.todo = @ \ {i}]
          /\ Post("worker", i.entry, i.token)
    BY <1>4 DEF Fetch
  <2>2. i \in Item
    BY WorkerIs
  <2>3. worker' \in Worker /\ worker'.step = "fetching"
    BY <2>1, <2>2 DEF Worker, Types
  <2>4. flights' \subseteq Flight
    <3>1. i.entry \in Entries /\ i.token \in Tokens
      BY <2>2 DEF Item
    <3> QED
      BY <2>1, <3>1, PostIs
  <2> QED
    BY <1>1, <1>4, <2>3, <2>4 DEF Fetch, Types, net, pages, store, counts
<1>5. CASE ItemStays
  <2>1. PICK f \in Sent("worker") : flights' = flights \ {f} /\ NextItem(FALSE)
    BY <1>5 DEF ItemStays
  <2>2. worker.step \in {"fetching", "deleting"}
    BY <2>1, WorkerFlightIs DEF Fetching
  <2>3. worker' \in Worker /\ worker'.step = "looping"
    BY <2>1, NextItemIs
  <2> QED
    BY <1>1, <1>5, <2>1, <2>2, <2>3 DEF ItemStays, Types, net, pages, store, counts
<1>6. CASE FetchFails \/ DeleteFails \/ WorkerStops
  <2>1. GivesUp /\ UNCHANGED <<store, synced, refused>>
    BY <1>6, GivingUp
  <2>2. flights' \subseteq Flight /\ unsure' \in [Entries -> Nat] /\ troubles' \in 0..MaxTroubles
    BY <2>1, LoneIs, FailIs, AbandonIs DEF GivesUp
  <2>3. /\ worker' \in Worker
        /\ sync' \in {"none", "pending", "firing", "again", "given up"}
        /\ (worker'.step = "idle" <=> sync' \notin {"firing", "again"})
    <3>1. CASE sync' = sync /\ NextItem(FALSE)
      BY <2>1, <3>1, NextItemIs DEF GivesUp, Types
    <3>2. CASE sync' \in {"pending", "given up"} /\ worker' = Idle
      BY <3>2, IdleIs
    <3> QED
      BY <2>1, <3>1, <3>2 DEF GivesUp
  <2> QED
    BY <1>1, <2>1, <2>2, <2>3 DEF Types, net, pages, store
<1>7. CASE FetchAnswered
  <2>1. PICK f \in Sent("worker") : worker' = [worker EXCEPT !.step = "deleting"]
    BY <1>7 DEF FetchAnswered
  <2>2. worker.step \in {"fetching", "deleting"}
    BY WorkerFlightIs DEF Fetching
  <2>3. worker' \in Worker /\ worker'.step = "deleting"
    BY <2>1 DEF Worker, Types
  <2> QED
    BY <1>1, <1>7, <2>2, <2>3 DEF FetchAnswered, Types, net, pages, store, server, counts
<1>8. CASE DeleteItem
  <2>1. PICK f \in Sent("worker") :
          /\ worker.step = "deleting" /\ flights' = flights \ {f} /\ NextItem(TRUE)
          /\ queue' = queue \ {worker.item}
          /\ synced' = IF f.state \in {"saved", "login"} THEN synced \cup {f.entry} ELSE synced
          /\ refused' = IF f.state \in {"forbidden", "login"} THEN refused \cup {f.entry} ELSE refused
    BY <1>8 DEF DeleteItem
  <2>2. f.entry \in Entries
    BY WorkerFlightIs
  <2>3. worker' \in Worker /\ worker'.step = "looping"
    BY <2>1, NextItemIs
  <2>4. synced' \subseteq Entries /\ refused' \subseteq Entries
    BY <2>1, <2>2 DEF Types
  <2> QED
    BY <1>1, <1>8, <2>1, <2>3, <2>4 DEF DeleteItem, Types, net, pages, counts
<1>9. CASE FlushEnds
  <2>1. worker' = Idle /\ sync' \in {"pending", "none", "given up"}
    BY <1>9 DEF FlushEnds, Over
  <2> QED
    BY <1>1, <1>9, <2>1, IdleIs DEF FlushEnds, Types, net, pages, store, server, counts
<1> QED
  BY <1>2, <1>3, <1>4, <1>5, <1>6, <1>7, <1>8, <1>9 DEF FlushQueue

(* What an action leaves of the requests that are not the worker's. *)
LeavesAround ==
  /\ Sent("page")' = Sent("page") /\ \A g \in Sent("nobody")' : g.state = "sent"
  /\ IsFiniteSet(flights') /\ \A g \in flights' : g.state = "saved" => g \in flights

LEMMA WorkerRequests ==
  ASSUME Types, Requests, Items, Finite, SavedIsSaved, FlushQueue
  PROVE  Requests' /\ SavedIsSaved' /\ Finite'
<1>1. form' = form /\ rows' = rows
  BY WorkerFrame DEF pages
<1>2. IsFiniteSet(queue')
  <2>1. queue' = queue \/ queue' = queue \ {worker.item}
    BY DEF FlushQueue, Fire, GetAll, Fetch, ItemStays, FetchFails, FetchAnswered, DeleteItem,
           DeleteFails, FlushEnds, WorkerStops, store
  <2> QED
    BY <2>1, FS_RemoveElement DEF Finite
<1>3. ASSUME flights' = flights PROVE LeavesAround
  BY <1>3 DEF LeavesAround, Requests, Sent, Finite
<1>4. ASSUME NEW f \in Sent("worker"), flights' = flights \ {f}
      PROVE  LeavesAround /\ Sent("worker")' = {}
  BY <1>4, GoneIs, WorkerFlightIs DEF LeavesAround, Requests, Senders
<1>5. LeavesAround /\ WorkerAsks'
  <2>1. CASE Fire \/ GetAll \/ FlushEnds
    <3>1. ~Fetching /\ flights' = flights
      BY <2>1 DEF Fire, GetAll, FlushEnds, server, Types, Fetching
    <3>2. ~Fetching'
      BY <2>1, IdleIs DEF Fire, GetAll, FlushEnds, Over, Types, Worker, Fetching
    <3> QED
      BY <1>3, <3>1, <3>2 DEF Requests, WorkerAsks, Sent
  <2>2. CASE Fetch
    <3>1. PICK i \in worker.todo :
            /\ worker.step = "looping"
            /\ worker' = [worker EXCEPT !.step = "fetching", !.item = i, !.todo = @ \ {i}]
            /\ Post("worker", i.entry, i.token)
      BY <2>2 DEF Fetch
    <3>2. i.entry \in Entries /\ i.token \in Tokens
      BY WorkerIs DEF Item
    <3>3. worker'.step = "fetching" /\ worker'.item = i
      BY <3>1 DEF Worker, Types
    <3>4. Sent("worker") = {}
      BY <3>1 DEF Requests, WorkerAsks, Fetching
    <3>5. /\ \E f \in Flight : f.entry = i.entry /\ Sent("worker")' = Sent("worker") \cup {f}
          /\ LeavesAround
      BY <3>1, <3>2, PostIs DEF LeavesAround, Requests, Senders
    <3> QED
      BY <3>3, <3>4, <3>5 DEF WorkerAsks, Fetching
  <2>3. CASE ItemStays \/ DeleteItem
    <3>1. PICK f \in Sent("worker"), b \in BOOLEAN : flights' = flights \ {f} /\ NextItem(b)
      BY <2>3 DEF ItemStays, DeleteItem
    <3>2. ~Fetching'
      BY <3>1, NextItemIs DEF Fetching
    <3> QED
      BY <1>4, <3>1, <3>2 DEF WorkerAsks
  <2>4. CASE FetchFails \/ DeleteFails \/ WorkerStops
    <3>1. GivesUp /\ Lone("worker")
      BY <2>4, GivingUp, LoneIs
    <3>2. Sent("worker")' = {} /\ LeavesAround
      BY <3>1, AbandonIs DEF GivesUp, LeavesAround, Requests
    <3>3. ~Fetching'
      BY <3>1, NextItemIs, IdleIs DEF GivesUp, Fetching
    <3> QED
      BY <3>2, <3>3 DEF WorkerAsks
  <2>5. CASE FetchAnswered
    <3>1. PICK f \in Sent("worker") :
            /\ f.state # "sent" /\ ~Keeps(f) /\ flights' = flights
            /\ worker' = [worker EXCEPT !.step = "deleting"]
      BY <2>5 DEF FetchAnswered, server
    <3>2. f \in Flight /\ Sent("worker") = {f} /\ f.entry = worker.item.entry
      BY WorkerFlightIs
    <3>3. worker'.step = "deleting" /\ worker'.item = worker.item
      BY <3>1 DEF Worker, Types
    <3>4. Sent("worker")' = {f} /\ f.state \notin {"sent", "refused"}
      BY <3>1, <3>2 DEF Sent, Keeps
    <3> QED
      BY <1>3, <3>1, <3>2, <3>3, <3>4 DEF WorkerAsks, Fetching
  <2> QED
    BY <2>1, <2>2, <2>3, <2>4, <2>5 DEF FlushQueue
<1>6. PageAsks'
  BY <1>1, <1>5 DEF LeavesAround, Requests, PageAsks, Posting
<1> QED
  BY <1>1, <1>2, <1>5, <1>6 DEF LeavesAround, Requests, SavedIsSaved, Finite

LEMMA WorkerItems == ASSUME Types, Requests, Items, FlushQueue PROVE Items'
<1>1. added' = added
  BY WorkerFrame
<1>2. CASE Fire
  <2>1. /\ queue' = queue /\ worker'.step = "opening" /\ worker'.item = None
        /\ worker'.todo = {} /\ worker'.allSuccess = TRUE
    BY <1>2 DEF Fire, Idle, store
  <2> QED
    BY <1>1, <2>1 DEF Items, Fetching
<1>3. CASE GetAll
  <2>1. queue' = queue /\ worker'.step = "looping" /\ worker'.item = worker.item
        /\ worker'.todo = queue /\ worker.step = "opening"
    BY <1>3 DEF GetAll, Worker, Types, store
  <2> QED
    BY <1>1, <2>1 DEF Items, Fetching
<1>4. CASE Fetch
  <2>1. PICK i \in worker.todo :
          /\ queue' = queue
          /\ worker' = [worker EXCEPT !.step = "fetching", !.item = i, !.todo = @ \ {i}]
    BY <1>4 DEF Fetch, store
  <2>2. worker'.step = "fetching" /\ worker'.item = i /\ worker'.todo = worker.todo \ {i}
    BY <2>1 DEF Worker, Types
  <2>3. i # None /\ i \in queue
    BY WorkerIs
  <2> QED
    BY <1>1, <2>1, <2>2, <2>3 DEF Items, Fetching
<1>5. CASE ItemStays
  <2>1. queue' = queue /\ NextItem(FALSE)
    BY <1>5 DEF ItemStays, store
  <2> QED
    BY <1>1, <2>1, NextItemIs DEF Items, Fetching
<1>6. CASE FetchFails \/ DeleteFails \/ WorkerStops
  <2>1. GivesUp
    BY <1>6, GivingUp
  <2>2. CASE NextItem(FALSE)
    BY <1>1, <2>1, <2>2, NextItemIs DEF GivesUp, Items, Fetching
  <2>3. CASE worker' = Idle
    BY <1>1, <2>1, <2>3, IdleIs DEF GivesUp, Items, Fetching, Idle
  <2> QED
    BY <2>1, <2>2, <2>3 DEF GivesUp
<1>7. CASE FetchAnswered
  <2>1. Fetching /\ queue' = queue /\ worker' = [worker EXCEPT !.step = "deleting"]
    BY <1>7, WorkerFlightIs DEF FetchAnswered, store
  <2>2. /\ worker'.step = "deleting" /\ worker'.item = worker.item
        /\ worker'.todo = worker.todo
    BY <2>1 DEF Worker, Types
  <2> QED
    BY <1>1, <2>1, <2>2 DEF Items, Fetching
<1>8. CASE DeleteItem
  <2>1. queue' = queue \ {worker.item} /\ NextItem(TRUE) /\ worker.item \notin worker.todo
    BY <1>8, WorkerFlightIs DEF DeleteItem
  <2> QED
    BY <1>1, <2>1, NextItemIs DEF Items, Fetching
<1>9. CASE FlushEnds
  <2>1. worker' = Idle /\ queue' = queue
    BY <1>9 DEF FlushEnds, Over, store
  <2> QED
    BY <1>1, <2>1, IdleIs DEF Items, Fetching, Idle
<1> QED
  BY <1>2, <1>3, <1>4, <1>5, <1>6, <1>7, <1>8, <1>9 DEF FlushQueue

LEMMA WorkerTold ==
  ASSUME Types, Requests, Items, Told, TruthTold, SavedIsSaved, FlushQueue
  PROVE  Told' /\ TruthTold'
<1>1. form' = form /\ told' = told /\ rows' = rows
  BY WorkerFrame DEF pages
<1>2. \A e \in Entries : Waiting(e) \/ rows[e] # <<>> \/ e \in refused
                           => (Waiting(e) \/ rows[e] # <<>> \/ e \in refused)'
  <2>1. CASE DeleteItem
    <3>1. PICK f \in Sent("worker") :
            /\ worker.step = "deleting" /\ queue' = queue \ {worker.item}
            /\ refused' = IF f.state \in {"forbidden", "login"} THEN refused \cup {f.entry}
                                                                ELSE refused
      BY <2>1 DEF DeleteItem
    <3>2. /\ f \in flights /\ f \in Flight /\ f.entry = worker.item.entry
          /\ f.state \notin {"sent", "refused"}
      BY <3>1, WorkerFlightIs
    <3>3. f.state \in {"saved", "forbidden", "login"}
      BY <3>2 DEF Flight, Answers
    <3>4. rows[worker.item.entry] # <<>> \/ worker.item.entry \in refused'
      BY <3>1, <3>2, <3>3 DEF SavedIsSaved
    <3> QED
      BY <1>1, <3>1, <3>4 DEF Waiting
  <2>2. CASE ~DeleteItem
    <3>1. queue' = queue /\ refused' = refused
      BY <2>2 DEF FlushQueue, Fire, GetAll, Fetch, ItemStays, FetchFails, FetchAnswered,
                  DeleteFails, FlushEnds, WorkerStops, store
    <3> QED
      BY <1>1, <3>1 DEF Waiting
  <2> QED
    BY <2>1, <2>2
<1>3. form # None => form.entry \in Entries
  BY FormIs
<1> QED
  BY <1>1, <1>2, <1>3 DEF Told, TruthTold

LEMMA WorkerStrands ==
  ASSUME Types, Requests, Items, NeverStranded, FlushQueue
  PROVE  NeverStranded'
<1>1. told' = told
  BY WorkerFrame DEF pages
<1>2. queue' \subseteq queue
  BY DEF FlushQueue, Fire, GetAll, Fetch, ItemStays, FetchFails, FetchAnswered, DeleteItem,
         DeleteFails, FlushEnds, WorkerStops, store
<1>3. SUFFICES ASSUME NEW i \in queue', Expected(i) PROVE Expected(i)'
  BY <1>1, <1>2 DEF NeverStranded
<1>4. i \in queue /\ i # None
  BY <1>2, WorkerIs
<1>5. CASE Fire
  BY <1>5 DEF Fire, Idle, Expected
<1>6. CASE GetAll
  <2>1. worker'.todo = queue /\ sync' = sync
    BY <1>6 DEF GetAll, Types, Worker
  <2> QED
    BY <1>3, <1>4, <2>1 DEF Expected
<1>7. CASE Fetch
  <2>1. PICK j \in worker.todo :
          /\ worker' = [worker EXCEPT !.step = "fetching", !.item = j, !.todo = @ \ {j}]
          /\ sync' = sync /\ worker.step = "looping"
    BY <1>7 DEF Fetch
  <2>2. /\ worker'.item = j /\ worker'.todo = worker.todo \ {j}
        /\ worker'.allSuccess = worker.allSuccess
    BY <2>1 DEF Types, Worker
  <2>3. worker.item = None
    BY <2>1, WorkerIs DEF Fetching
  <2> QED
    BY <1>3, <1>4, <2>1, <2>2, <2>3 DEF Expected
<1>8. CASE ItemStays
  <2>1. sync' = sync /\ NextItem(FALSE) /\ sync \in {"firing", "again"}
    <3>1. worker.step # "idle"
      BY <1>8, WorkerFlightIs DEF ItemStays, Fetching
    <3> QED
      BY <1>8, <3>1 DEF ItemStays, Types
  <2>2. worker'.allSuccess = FALSE
    BY <2>1, NextItemIs
  <2> QED
    BY <2>1, <2>2 DEF Expected
<1>9. CASE FetchFails \/ DeleteFails \/ WorkerStops
  <2>1. GivesUp
    BY <1>9, GivingUp
  <2>2. CASE sync' = sync /\ NextItem(FALSE)
    <3>1. worker'.allSuccess = FALSE /\ sync \in {"firing", "again"}
      BY <2>1, <2>2, NextItemIs DEF GivesUp, Types
    <3> QED
      BY <2>2, <3>1 DEF Expected
  <2>3. CASE sync' \in {"pending", "given up"}
    BY <2>3 DEF Expected
  <2> QED
    BY <2>1, <2>2, <2>3 DEF GivesUp
<1>10. CASE FetchAnswered
  <2>1. sync' = sync /\ worker' = [worker EXCEPT !.step = "deleting"] /\ Fetching
    BY <1>10, WorkerFlightIs DEF FetchAnswered
  <2>2. /\ worker'.item = worker.item /\ worker'.todo = worker.todo
        /\ worker'.allSuccess = worker.allSuccess
    BY <2>1 DEF Types, Worker
  <2> QED
    BY <1>3, <2>1, <2>2 DEF Expected, Fetching
<1>11. CASE DeleteItem
  <2>1. sync' = sync /\ queue' = queue \ {worker.item} /\ NextItem(TRUE)
        /\ worker.step = "deleting"
    BY <1>11 DEF DeleteItem
  <2>2. worker'.todo = worker.todo /\ worker'.allSuccess = worker.allSuccess
    BY <2>1, NextItemIs DEF Types, Worker
  <2>3. i # worker.item
    BY <2>1
  <2> QED
    BY <1>3, <2>1, <2>2, <2>3 DEF Expected
<1>12. CASE FlushEnds
  <2>1. /\ worker.step = "looping" /\ worker.todo = {}
        /\ sync' \in IF sync = "again" THEN {"pending"}
                     ELSE IF worker.allSuccess THEN {"none"} ELSE {"pending", "given up"}
    BY <1>12 DEF FlushEnds, Over
  <2>2. worker.item = None
    BY <2>1, WorkerIs DEF Fetching
  <2>3. sync \in {"firing", "again"}
    BY <2>1 DEF Types
  <2>4. sync = "again" \/ ~worker.allSuccess
    BY <1>3, <1>4, <2>1, <2>2, <2>3 DEF Expected
  <2> QED
    BY <2>1, <2>4 DEF Expected
<1> QED
  BY <1>5, <1>6, <1>7, <1>8, <1>9, <1>10, <1>11, <1>12 DEF FlushQueue

LEMMA WorkerPays ==
  ASSUME Types, Types', Requests, Items, Finite, Finite', FlushQueue,
         NEW e \in Entries, PaidFor(e)
  PROVE  PaidFor(e)'
<1>1. form' = form /\ told' = told /\ rows' = rows
  BY WorkerFrame DEF pages
<1>2. ASSUME Sent("page")' = Sent("page") PROVE MaySubmit(e)' => MaySubmit(e)
  BY <1>1, <1>2 DEF MaySubmit
<1>3. ASSUME Sent("page")' = Sent("page"), Sent("nobody")' = Sent("nobody"), unsure' = unsure,
             Unsaved(e)' \subseteq Unsaved(e)
      PROVE  PaidFor(e)'
  <2>1. NoMore(e)
    BY <1>2, <1>3, StraysAre DEF NoMore
  <2> QED
    BY <1>1, <1>3, <2>1, Pays
<1>4. CASE Fire \/ GetAll \/ FlushEnds
  <2>1. /\ flights' = flights /\ unsure' = unsure /\ queue' = queue
        /\ worker.step \in {"idle", "opening", "looping"}
    BY <1>4 DEF Fire, GetAll, FlushEnds, server, counts, store, Types
  <2>2. \A b \in Senders : Sent(b)' = Sent(b)
    BY <2>1 DEF Sent
  <2>3. Sent("worker") = {}
    BY <2>1 DEF Requests, WorkerAsks, Fetching
  <2>4. Unsaved(e)' \subseteq Unsaved(e)
    BY <2>1, <2>3 DEF Unsaved, WorkerSaved
  <2> QED
    BY <1>3, <2>1, <2>2, <2>4 DEF Senders
<1>5. CASE Fetch
  <2>1. PICK i \in worker.todo :
          /\ Post("worker", i.entry, i.token) /\ queue' = queue /\ unsure' = unsure
          /\ worker.step = "looping"
    BY <1>5 DEF Fetch, store, counts
  <2>2. i.entry \in Entries /\ i.token \in Tokens
    BY WorkerIs DEF Item
  <2>3. Sent("page")' = Sent("page") /\ Sent("nobody")' = Sent("nobody")
    BY <2>1, <2>2, PostIs DEF Senders
  <2>4. Sent("worker") = {}
    BY <2>1 DEF Requests, WorkerAsks, Fetching
  <2>5. Unsaved(e)' \subseteq Unsaved(e)
    BY <2>1, <2>4 DEF Unsaved, WorkerSaved
  <2> QED
    BY <1>3, <2>1, <2>3, <2>5
<1>6. CASE ItemStays
  <2>1. PICK f \in Sent("worker") :
          /\ f.state = "refused" /\ flights' = flights \ {f}
          /\ queue' = queue /\ unsure' = unsure
    BY <1>6 DEF ItemStays, Keeps, store, counts
  <2>2. Sent("page")' = Sent("page") /\ Sent("nobody")' = Sent("nobody")
    BY <2>1, GoneIs DEF Senders
  <2>3. ~WorkerSaved
    BY <2>1, WorkerFlightIs DEF WorkerSaved
  <2>4. Unsaved(e)' \subseteq Unsaved(e)
    BY <2>1, <2>3 DEF Unsaved
  <2> QED
    BY <1>3, <2>1, <2>2, <2>4
<1>7. CASE FetchFails \/ DeleteFails \/ WorkerStops
  <2>1. GivesUp /\ Lone("worker")
    BY <1>7, GivingUp, LoneIs
  <2>2. /\ Sent("page")' = Sent("page") /\ Sent("worker")' = {}
        /\ unsure'[e] \in {unsure[e], unsure[e] + 1}
        /\ (\E f \in Sent("worker") : f.entry = e /\ f.state = "saved")
             => unsure'[e] = unsure[e] + 1
        /\ \/ Strays(e)' = Strays(e)
           \/ /\ \E f \in Sent("worker") : f.entry = e /\ f.state = "sent"
              /\ \E x : Strays(e)' = Strays(e) \cup {x}
              /\ unsure'[e] = unsure[e] + 1
    BY <2>1, AbandonIs DEF GivesUp
  <2>3. MaySubmit(e)' => MaySubmit(e)
    BY <1>2, <2>2
  <2>4. queue' = queue
    BY <2>1 DEF GivesUp
  <2>5. CASE WorkerSaved /\ worker.item.entry = e
    <3>1. PICK f \in Sent("worker") : f.state = "saved"
      BY <2>5 DEF WorkerSaved
    <3>2. f.entry = e /\ Sent("worker") = {f}
      BY <2>5, WorkerFlightIs
    <3>3. Strays(e)' = Strays(e) /\ unsure'[e] = unsure[e] + 1
      BY <2>2, <3>1, <3>2
    <3>4. Unsaved(e)' \subseteq Unsaved(e) \cup {worker.item}
      BY <2>4 DEF Unsaved
    <3>5. OneChance(e)
      BY <2>3, <3>3, <3>4 DEF OneChance
    <3> QED
      BY <1>1, <3>3, <3>5, Pays
  <2>6. CASE ~(WorkerSaved /\ worker.item.entry = e)
    <3>1. Unsaved(e)' \subseteq Unsaved(e)
      BY <2>4, <2>6 DEF Unsaved
    <3>2. NoMore(e) \/ (OneChance(e) /\ unsure'[e] = unsure[e] + 1)
      BY <2>2, <2>3, <3>1 DEF NoMore, OneChance
    <3> QED
      BY <1>1, <2>2, <3>2, Pays
  <2> QED
    BY <2>5, <2>6
<1>8. CASE FetchAnswered
  <2>1. /\ flights' = flights /\ unsure' = unsure /\ queue' = queue
        /\ worker' = [worker EXCEPT !.step = "deleting"]
    BY <1>8 DEF FetchAnswered, server, counts, store
  <2>2. worker'.item = worker.item
    BY <2>1 DEF Types, Worker
  <2>3. \A b \in Senders : Sent(b)' = Sent(b)
    BY <2>1 DEF Sent
  <2>4. Unsaved(e)' \subseteq Unsaved(e)
    BY <2>1, <2>2, <2>3 DEF Unsaved, WorkerSaved, Senders
  <2> QED
    BY <1>3, <2>1, <2>3, <2>4 DEF Senders
<1>9. CASE DeleteItem
  <2>1. PICK f \in Sent("worker") :
          flights' = flights \ {f} /\ queue' = queue \ {worker.item} /\ unsure' = unsure
    BY <1>9 DEF DeleteItem, counts
  <2>2. Sent("page")' = Sent("page") /\ Sent("nobody")' = Sent("nobody")
    BY <2>1, GoneIs DEF Senders
  <2>3. Unsaved(e)' \subseteq Unsaved(e)
    BY <2>1 DEF Unsaved
  <2> QED
    BY <1>3, <2>1, <2>2, <2>3
<1> QED
  BY <1>4, <1>5, <1>6, <1>7, <1>8, <1>9 DEF FlushQueue
-----------------------------------------------------------------------------
(* The connection and the session. *)
OfBrowser == Connection \/ (\E u \in Users : Login(u)) \/ Logout \/ SessionAges

LEMMA BrowserFrame == OfBrowser => UNCHANGED <<pages, store, sw, server, counts>>
BY DEF OfBrowser, Connection, Login, Logout, SessionAges

LEMMA BrowserTypes == ASSUME Types, OwnSession, OfBrowser PROVE Types' /\ OwnSession'
<1>1. UNCHANGED <<pages, store, sw, server, counts>>
  BY BrowserFrame
<1>2. SUFFICES /\ online' \in BOOLEAN /\ session' \in Session \cup {None}
               /\ logins' \in Seq(Users) /\ Len(logins') <= MaxLogins /\ OwnSession'
  BY <1>1 DEF Types, pages, store, sw, server, counts
<1>3. CASE Connection
  BY <1>3 DEF Connection, Types, OwnSession
<1>4. ASSUME NEW u \in Users, Login(u)
      PROVE  /\ online' \in BOOLEAN /\ session' \in Session \cup {None}
             /\ logins' \in Seq(Users) /\ Len(logins') <= MaxLogins /\ OwnSession'
  <2>1. /\ logins \in Seq(Users) /\ logins' = Append(logins, u) /\ online' = online
        /\ session' = [old |-> FALSE, token |-> Len(logins) + 1, user |-> u]
        /\ Len(logins) < MaxLogins
    BY <1>4 DEF Login, Types
  <2>2. /\ logins' \in Seq(Users) /\ Len(logins') = Len(logins) + 1
        /\ logins'[Len(logins) + 1] = u
    BY <2>1, AppendProperties
  <2>3. Len(logins) \in Nat
    BY <2>1, LenProperties
  <2>4. Len(logins) + 1 \in Tokens /\ Len(logins') <= MaxLogins
    BY <2>1, <2>2, <2>3, BoundsAreNat DEF Tokens
  <2>5. session'.token = Len(logins) + 1 /\ session'.user = u /\ session' \in Session
    BY <2>1, <2>4 DEF Session
  <2>6. OwnSession'
    BY <2>2, <2>3, <2>5 DEF OwnSession
  <2> QED
    BY <2>1, <2>2, <2>4, <2>5, <2>6 DEF Types
<1>5. CASE Logout
  BY <1>5 DEF Logout, Types, OwnSession
<1>6. CASE SessionAges
  <2>1. /\ session \in Session /\ session # None /\ session' = [session EXCEPT !.old = TRUE]
        /\ online' = online /\ logins' = logins
    BY <1>6 DEF SessionAges, Types
  <2>2. session' \in Session /\ session'.token = session.token /\ session'.user = session.user
    BY <2>1 DEF Session
  <2>3. OwnSession'
    BY <2>1, <2>2 DEF OwnSession
  <2> QED
    BY <2>1, <2>2, <2>3 DEF Types
<1> QED
  BY <1>3, <1>4, <1>5, <1>6 DEF OfBrowser

(* The rest of the invariant reads none of that. *)
LEMMA ServedAlike ==
  ASSUME Requests, Items, Told, SavedIsSaved, Finite, TruthTold, NeverStranded,
         \A e \in Entries : PaidFor(e), UNCHANGED <<pages, store, sw, server, counts>>
  PROVE  Requests' /\ Items' /\ Told' /\ SavedIsSaved' /\ Finite' /\ TruthTold' /\ NeverStranded'
         /\ \A e \in Entries : PaidFor(e)'
<1>1. /\ form' = form /\ told' = told /\ queue' = queue /\ added' = added /\ sync' = sync
      /\ worker' = worker /\ refused' = refused /\ flights' = flights /\ rows' = rows
      /\ unsure' = unsure
  BY DEF pages, store, sw, server, counts
<1>2. \A b : Sent(b)' = Sent(b)
  BY <1>1 DEF Sent
<1>3. Requests'
  BY <1>1, <1>2 DEF Requests, PageAsks, WorkerAsks, Posting, Fetching
<1>4. Items' /\ SavedIsSaved' /\ Finite' /\ NeverStranded'
  BY <1>1 DEF Items, Fetching, SavedIsSaved, Finite, NeverStranded, Expected
<1>5. Told' /\ TruthTold'
  BY <1>1 DEF Told, TruthTold, Waiting
<1>6. ASSUME NEW e \in Entries PROVE PaidFor(e)'
  <2>1. MaySubmit(e)' <=> MaySubmit(e)
    BY <1>1, <1>2 DEF MaySubmit
  <2>2. Unsaved(e)' = Unsaved(e) /\ Strays(e)' = Strays(e)
    BY <1>1, <1>2 DEF Unsaved, WorkerSaved, Strays
  <2> QED
    BY <1>1, <2>1, <2>2 DEF PaidFor
<1> QED
  BY <1>3, <1>4, <1>5, <1>6
-----------------------------------------------------------------------------
LEMMA InitInv == Init => IInv
<1> SUFFICES ASSUME Init PROVE IInv
  OBVIOUS
<1>1. Types
  <2>1. 0 \in 0..MaxItems /\ 0 \in 0..MaxTroubles /\ 0 <= MaxLogins
    BY BoundsAreNat
  <2>2. <<>> \in Seq(Users) /\ Len(<<>>) = 0
    OBVIOUS
  <2> QED
    BY <2>1, <2>2, IdleIs DEF Init, Types
<1>2. \A b : Sent(b) = {}
  BY DEF Init, Sent
<1>3. Requests
  BY <1>2, IdleIs DEF Init, Requests, PageAsks, WorkerAsks, Posting, Fetching
<1>4. Items /\ Told /\ SavedIsSaved /\ OwnSession
  BY IdleIs DEF Init, Items, Fetching, Told, SavedIsSaved, OwnSession
<1>5. Finite
  BY FS_EmptySet DEF Init, Finite
<1>6. TruthTold /\ NeverStranded
  BY DEF Init, TruthTold, NeverStranded
<1>7. ASSUME NEW e \in Entries PROVE PaidFor(e)
  <2>1. Unsaved(e) = {} /\ Strays(e) = {}
    BY <1>2 DEF Init, Unsaved, Strays
  <2>2. Cardinality(Unsaved(e)) = 0 /\ Cardinality(Strays(e)) = 0
    BY <2>1, FS_EmptySet
  <2>3. Len(rows[e]) = 0 /\ unsure[e] = 0
    BY DEF Init
  <2> QED
    BY <2>2, <2>3 DEF PaidFor
<1> QED
  BY <1>1, <1>3, <1>4, <1>5, <1>6, <1>7 DEF IInv

LEMMA NextInv == IInv /\ [Next]_vars => IInv'
<1> SUFFICES ASSUME Types, Requests, Items, Told, SavedIsSaved, OwnSession, Finite,
                    TruthTold, NeverStranded, \A e \in Entries : PaidFor(e), [Next]_vars
             PROVE  IInv'
  BY DEF IInv
<1>1. CASE OfBrowser
  <2>1. Types' /\ OwnSession'
    BY <1>1, BrowserTypes
  <2> QED
    BY <1>1, <2>1, BrowserFrame, ServedAlike DEF IInv
<1>2. CASE ByPage
  <2>1. Types'
    BY <1>2, PageTypes
  <2>2. Requests' /\ SavedIsSaved' /\ Items' /\ Finite'
    BY <1>2, PageRequests, PageItems DEF Finite
  <2>3. Told' /\ TruthTold' /\ NeverStranded'
    BY <1>2, PageTold, PageStrands
  <2>4. \A e \in Entries : PaidFor(e)'
    BY <1>2, <2>1, <2>2, PagePays
  <2>5. OwnSession'
    BY <1>2, PageFrame DEF net, OwnSession
  <2> QED
    BY <2>1, <2>2, <2>3, <2>4, <2>5 DEF IInv
<1>3. CASE Serve
  <2>1. Types'
    BY <1>3, ServeTypes
  <2>2. Requests' /\ Items' /\ Told' /\ SavedIsSaved' /\ OwnSession' /\ Finite' /\ TruthTold'
        /\ NeverStranded'
    BY <1>3, ServeKeeps
  <2>3. \A e \in Entries : PaidFor(e)'
    BY <1>3, <2>1, <2>2, ServePays
  <2> QED
    BY <2>1, <2>2, <2>3 DEF IInv
<1>4. CASE FlushQueue
  <2>1. Types'
    BY <1>4, WorkerTypes
  <2>2. Requests' /\ SavedIsSaved' /\ Finite' /\ Items'
    BY <1>4, WorkerRequests, WorkerItems
  <2>3. Told' /\ TruthTold' /\ NeverStranded'
    BY <1>4, WorkerTold, WorkerStrands
  <2>4. \A e \in Entries : PaidFor(e)'
    BY <1>4, <2>1, <2>2, WorkerPays
  <2>5. OwnSession'
    BY <1>4, WorkerFrame DEF net, OwnSession
  <2> QED
    BY <2>1, <2>2, <2>3, <2>4, <2>5 DEF IInv
<1>5. CASE UNCHANGED vars
  <2>1. UNCHANGED <<net, pages, store, sw, server, counts>>
    BY <1>5 DEF vars
  <2>2. Types' /\ OwnSession'
    BY <2>1 DEF Types, OwnSession, net, pages, store, sw, server, counts
  <2> QED
    BY <2>1, <2>2, ServedAlike DEF IInv
<1> QED
  BY <1>1, <1>2, <1>3, <1>4, <1>5 DEF Next, Browser, SubmitForm, OfBrowser, ByPage

LEMMA Invariance == Spec => []IInv
BY InitInv, NextInv, PTL DEF Spec
-----------------------------------------------------------------------------
(* submitForm, flushQueue and the server keep to their types; a request of  *)
(* the page belongs to the form under way, one of the worker to its item.  *)
THEOREM TypeCorrect == Spec => []TypeOK
<1>1. IInv => TypeOK
  BY TypeIs DEF IInv
<1> QED
  BY <1>1, Invariance, PTL

(* What a toast says stays true: a form that waits is in the queue, saved or *)
(* ended by an answer, a form that is saved is in the database.            *)
THEOREM TruthIsTold == Spec => []TruthTold
<1>1. IInv => TruthTold
  BY DEF IInv
<1> QED
  BY <1>1, Invariance, PTL

(* No form that its user was told is queued waits for an event that nobody  *)
(* registered: the sync event is pending, or a flush will come to it, or   *)
(* will fail and be repeated, unless the browser gives up.                 *)
THEOREM NoneStranded == Spec => []NeverStranded
<1>1. IInv => NeverStranded
  BY DEF IInv
<1> QED
  BY <1>1, Invariance, PTL

(* The form, its item, and the requests that nobody waits for any more make *)
(* one row between them, and one more for each answer that got lost, or    *)
(* that was an error although the row had been committed.                  *)
THEOREM EntriesSavedOnce == Spec => []SavedOnce
<1>1. IInv => SavedOnce
  <2> SUFFICES ASSUME IInv, NEW e \in Entries PROVE Len(rows[e]) <= 1 + unsure[e]
    BY DEF SavedOnce
  <2>1. PaidFor(e) /\ Types /\ Finite
    BY DEF IInv
  <2>2. Cardinality(Unsaved(e)) \in Nat /\ Cardinality(Strays(e)) \in Nat
    BY <2>1, PartsFinite, FS_CardinalityType
  <2>3. rows[e] \in Seq(Users) /\ unsure[e] \in Nat
    BY <2>1 DEF Types
  <2>4. Len(rows[e]) \in Nat
    BY <2>3, LenProperties
  <2>5. CASE MaySubmit(e)
    <3>1. Len(rows[e]) + 1 + Cardinality(Unsaved(e)) + Cardinality(Strays(e)) <= 1 + unsure[e]
      BY <2>1, <2>5 DEF PaidFor
    <3> QED
      BY <2>2, <2>3, <2>4, <3>1
  <2>6. CASE ~MaySubmit(e)
    <3>1. Len(rows[e]) + 0 + Cardinality(Unsaved(e)) + Cardinality(Strays(e)) <= 1 + unsure[e]
      BY <2>1, <2>6 DEF PaidFor
    <3> QED
      BY <2>2, <2>3, <2>4, <3>1
  <2> QED
    BY <2>5, <2>6
<1> QED
  BY <1>1, Invariance, PTL

(* Whoever is logged in when a form is posted at last: its row bears the    *)
(* name of the login whose page it was filled in on.                       *)
THEOREM OwnNames == Spec => UnderOwnName
<1> DEFINE Own == \A e \in Entries :
                    rows'[e] # rows[e] =>
                      \E f \in flights : f.entry = e /\ rows'[e] = Append(rows[e], logins[f.token])
<1>1. IInv /\ [Next]_vars => [Own]_vars
  <2> SUFFICES ASSUME Types, Requests, Items, OwnSession, Next, NEW e \in Entries,
                      rows'[e] # rows[e]
               PROVE  \E f \in flights :
                        f.entry = e /\ rows'[e] = Append(rows[e], logins[f.token])
    BY DEF IInv
  <2>1. Serve
    BY PageFrame, WorkerFrame, BrowserFrame
       DEF Next, Browser, SubmitForm, OfBrowser, ByPage, server
  <2>2. PICK f \in flights, s \in Answers : Served(f, s)
    BY <2>1, ServeIs
  <2>3. f.entry = e
    BY <2>2, RowsServed
  <2>4. /\ session \in Session /\ session.token = f.token
        /\ rows' = [rows EXCEPT ![f.entry] = Append(@, session.user)]
    BY <2>2, <2>3 DEF Served, Stores
  <2>5. session.user = logins[f.token]
    BY <2>4, SyncQueueAssumption DEF OwnSession
  <2>6. rows'[e] = Append(rows[e], logins[f.token])
    BY <2>3, <2>4, <2>5 DEF Types
  <2> QED
    BY <2>3, <2>6
<1> QED
  BY <1>1, Invariance, PTL DEF Spec, UnderOwnName
=============================================================================
