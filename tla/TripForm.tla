------------------------------ MODULE TripForm ------------------------------
(***************************************************************************)
(* The trip form of trips.html and app.js, the equipment picked on it, and *)
(* the active trip card: a quick trip confirmed on the dashboard is kept   *)
(* in localStorage until it is undone or completed with the form, which it *)
(* prefills and whose vehicle it locks.                                    *)
(*                                                                         *)
(* loadEquipment is called for one vehicle after another, on page load     *)
(* and whenever the vehicle changes, and its answers come in any order;    *)
(* whichever comes last decides what may be picked.  The server is         *)
(* Equipment.  The quick trip's own request is the matter of QuickTrip,    *)
(* the life of a queued form that of SyncQueue.                            *)
(***************************************************************************)
EXTENDS Equipment, Sequences, SequencesExt

CONSTANTS
  Tabs,       \* tabs of the browser
  Quick,      \* quick trips, known by their localId
  Troubles,   \* the sets of what may happen in a run besides failing requests
  MaxAsked,   \* bound: answers of api_vehicle_equipment a page waits for
  MaxLoads    \* bound: page loads

VARIABLES
  card,       \* osp_active_trip in localStorage, or None
  page,       \* page[w]: the page tab w shows
  queue,      \* the form saved offline, in a set of at most one
  confirmed,  \* the quick trips confirmed so far
  loads,      \* counts for MaxLoads
  troubles    \* what may happen in this run

browser == <<card, page, queue, confirmed, loads, troubles>>
vars == <<server, browser>>

Card == [trip : Quick, vehicle : Vehicles]
Sent == [vehicle : Vehicles, rows : SUBSET Items, form : Form]
Maybe(S) == S \cup {None}

(* default is the option the server selected, lock is dataset.lockValue,   *)
(* asked are the vehicles whose equipment has not come yet; toasts are the *)
(* quick trips with an undo button; base is the trip that prefilled it.    *)
Page ==
  [at : {"closed", "dashboard", "form"}, toasts : SUBSET Quick, base : Maybe(Quick),
   choices : SUBSET Vehicles, default : Maybe(Vehicles), vehicle : Maybe(Vehicles),
   lock : Maybe(Vehicles), asked : Seq(Vehicles),
   options : SUBSET Items, rows : SUBSET Items,
   sending : {"no", "sent", "saved", "refused"}, form : Maybe(Sent)]

Blank ==
  [at |-> "closed", toasts |-> {}, base |-> None, choices |-> {}, default |-> None,
   vehicle |-> None, lock |-> None, asked |-> <<>>, options |-> {}, rows |-> {},
   sending |-> "no", form |-> None]

(* What makes a page offer the equipment of another vehicle than it names. *)
Mixed == {"late answer", "locked change", "preselected"}

(* What makes the card go with a trip that is not its own.                 *)
Crossed == {"undo of earlier", "two tabs"}

ASSUME TripFormAssumption ==
  /\ Troubles \subseteq SUBSET (Mixed \cup Crossed)
  /\ None \notin Quick \cup Card \cup Sent
  /\ MaxAsked \in Nat /\ MaxLoads \in Nat

OnForm(w) == page[w].at = "form"

Show(w, p) == page' = [page EXCEPT ![w] = p]

OnPage(w) == UNCHANGED <<server, card, queue, confirmed, loads, troubles>>

-----------------------------------------------------------------------------
(* The equipment offered. *)

(* slip: what was picked stays until the answer comes *)
LoadEquipment_KeepsRows(p, v) ==
  IF v = None THEN [p EXCEPT !.options = {}, !.rows = {}]
              ELSE [p EXCEPT !.asked = Append(@, v)]

(* slip: asks also when no vehicle is chosen *)
LoadEquipment_AsksForNone(p, v) ==
  [p EXCEPT !.options = {}, !.rows = {}, !.asked = Append(@, v)]

(* loadEquipment up to its fetch: the rows go, the button to add one hides. *)
LoadEquipment(p, v) ==
  [p EXCEPT !.options = {}, !.rows = {},
            !.asked = IF v = None THEN @ ELSE Append(@, v)]

(* api_vehicle_equipment answers, or its answer is an error or no JSON.    *)
Answer(w) ==
  \E i \in DOMAIN page[w].asked :
    LET v == page[w].asked[i] IN
    /\ "late answer" \notin troubles => v = page[w].vehicle
    /\ \E offered \in {StockOf(v), {}} :
         Show(w, [page[w] EXCEPT !.asked = RemoveAt(@, i), !.options = offered, !.rows = {}])
    /\ OnPage(w)

PickRow(w) ==
  /\ OnForm(w)
  /\ \E e \in page[w].options \ page[w].rows : Show(w, [page[w] EXCEPT !.rows = @ \cup {e}])
  /\ OnPage(w)

DropRow(w) ==
  /\ OnForm(w)
  /\ \E e \in page[w].rows : Show(w, [page[w] EXCEPT !.rows = @ \ {e}])
  /\ OnPage(w)

-----------------------------------------------------------------------------
(* The vehicle. *)

Offered(p, v) == IF v \in p.choices THEN v ELSE None

(* slip: the listener that puts the locked vehicle back is not bound *)
Settled_NotBound(p, v) == v

(* the listener of prefillFromActiveTrip *)
Settled(p, v) == IF p.lock # None THEN Offered(p, p.lock) ELSE v

(* The attribute onchange asks for the equipment of the vehicle chosen     *)
(* before the listener puts the locked one back.                           *)
ChangeVehicle(w) ==
  /\ OnForm(w)
  /\ "locked change" \notin troubles => page[w].lock = None
  /\ Len(page[w].asked) < MaxAsked
  /\ \E v \in Maybe(page[w].choices) \ {page[w].vehicle} :
       Show(w, [LoadEquipment(page[w], v) EXCEPT !.vehicle = Settled(page[w], v)])
  /\ OnPage(w)

-----------------------------------------------------------------------------
(* Pages. *)

Load(w) ==
  /\ loads < MaxLoads /\ loads' = loads + 1
  /\ "two tabs" \notin troubles => \A x \in Tabs \ {w} : page[x].at = "closed"
  /\ UNCHANGED <<server, card, queue, confirmed, troubles>>

OpenDashboard(w) == Load(w) /\ Show(w, [Blank EXCEPT !.at = "dashboard"])

(* prefillFromActiveTrip *)
Prefilled(p) ==
  IF card = None THEN p
  ELSE LoadEquipment([p EXCEPT !.vehicle = Offered(p, card.vehicle), !.lock = card.vehicle,
                               !.base = card.trip],
                     card.vehicle)

(* The listener of trips.html restores the vehicle chosen last, which may  *)
(* be gone, or keeps the one the address asks for; with ?add=1 it returns  *)
(* to that one, and asks for its equipment even when there is no such      *)
(* vehicle; then app.js prefills.                                          *)
OpenForm(w) ==
  /\ Load(w)
  /\ \E wanted \in Maybe(Vehicles), restored \in Maybe(vehicles), add \in BOOLEAN :
       LET default == IF wanted \in vehicles THEN wanted ELSE None
           fresh == [Blank EXCEPT !.at = "form", !.choices = vehicles, !.default = default]
           first == [LoadEquipment(fresh, restored) EXCEPT !.vehicle = restored]
           again == IF add THEN [LoadEquipment(first, wanted) EXCEPT !.vehicle = default]
                           ELSE first
           shown == Prefilled(again)
       IN
       /\ add => wanted # None
       /\ "preselected" \notin troubles => wanted = None
       /\ Len(shown.asked) <= MaxAsked
       /\ Show(w, shown)

-----------------------------------------------------------------------------
(* Sending the form. *)

(* slip: the object built for the offline queue is used online too *)
Payload_LastRow(rows, offline) ==
  IF rows # {} THEN {{e} : e \in rows} ELSE {rows}

(* Online the whole FormData is sent; the offline queue keeps one value of *)
(* each name, that of the last row.                                        *)
Payload(rows, offline) ==
  IF offline /\ rows # {} THEN {{e} : e \in rows} ELSE {rows}

(* form.reset, then ActiveTrip.clear; the list of equipment stays.         *)
Cleared(p) == [p EXCEPT !.vehicle = p.default, !.rows = {}, !.lock = None, !.base = None,
                        !.sending = "no", !.form = None]

Submit(w) ==
  LET p == page[w] IN
  /\ OnForm(w) /\ p.sending = "no" /\ p.vehicle # None
  /\ \E rows \in Payload(p.rows, FALSE) :
       Show(w, [p EXCEPT !.sending = "sent",
                         !.form = [vehicle |-> p.vehicle, rows |-> rows,
                                   form |-> [rows |-> p.rows, offline |-> FALSE]]])
  /\ OnPage(w)

(* When the registration of the sync event fails, the form stays as well.  *)
SubmitOffline(w) ==
  LET p == page[w] IN
  /\ OnForm(w) /\ p.sending = "no" /\ p.vehicle # None
  /\ queue = {}
  /\ \E rows \in Payload(p.rows, TRUE) :
       queue' = {[vehicle |-> p.vehicle, rows |-> rows,
                  form |-> [rows |-> p.rows, offline |-> TRUE]]}
  /\ \/ Show(w, Cleared(p)) /\ card' = None
     \/ UNCHANGED <<page, card>>
  /\ UNCHANGED <<server, confirmed, loads, troubles>>

(* api_add_trip saves the form or refuses it.                              *)
ServerSaves(w) ==
  LET form == page[w].form IN
  /\ page[w].sending = "sent"
  /\ Save(form.vehicle, form.rows, form.form)
  /\ Show(w, [page[w] EXCEPT !.sending = "saved"])
  /\ UNCHANGED <<card, queue, confirmed, loads, troubles>>

ServerRefuses(w) ==
  /\ page[w].sending = "sent"
  /\ Show(w, [page[w] EXCEPT !.sending = "refused"])
  /\ OnPage(w)

Saved(w) ==
  /\ page[w].sending = "saved"
  /\ Show(w, Cleared(page[w]))
  /\ card' = None
  /\ UNCHANGED <<server, queue, confirmed, loads, troubles>>

(* slip: the card is put away whatever the answer *)
NotSaved_Clears(w) ==
  /\ page[w].sending \in {"sent", "saved", "refused"}
  /\ Show(w, [page[w] EXCEPT !.sending = "no", !.form = None])
  /\ card' = None
  /\ UNCHANGED <<server, queue, confirmed, loads, troubles>>

(* An error status, or no answer within 15 seconds, saved or not.          *)
NotSaved(w) ==
  /\ page[w].sending \in {"sent", "saved", "refused"}
  /\ Show(w, [page[w] EXCEPT !.sending = "no", !.form = None])
  /\ OnPage(w)

(* flushQueue of sw.js; the form stays queued when the answer is lost or,  *)
(* after the commit, an error.                                             *)
FlushSaves ==
  /\ \E item \in queue : Save(item.vehicle, item.rows, item.form)
  /\ queue' \in {{}, queue}
  /\ UNCHANGED <<card, page, confirmed, loads, troubles>>

FlushDrops ==
  /\ queue # {} /\ queue' = {}
  /\ UNCHANGED <<server, card, page, confirmed, loads, troubles>>

-----------------------------------------------------------------------------
(* The card. *)

(* handleQuickTripConfirm *)
Confirm(w) ==
  /\ page[w].at = "dashboard"
  /\ \E q \in Quick \ confirmed, v \in vehicles :
       /\ card' = [trip |-> q, vehicle |-> v]
       /\ confirmed' = confirmed \cup {q}
       /\ Show(w, [page[w] EXCEPT !.toasts = @ \cup {q}])
  /\ UNCHANGED <<server, queue, loads, troubles>>

(* The button of the toast clears the card, whichever trip it shows; after *)
(* 7 seconds the toast goes.                                               *)
Undo(w) ==
  /\ \E q \in page[w].toasts :
       /\ "undo of earlier" \notin troubles => card \in Maybe([trip : {q}, vehicle : Vehicles])
       /\ Show(w, [page[w] EXCEPT !.toasts = @ \ {q}])
  /\ card' = None
  /\ UNCHANGED <<server, queue, confirmed, loads, troubles>>

UndoExpires(w) ==
  /\ \E q \in page[w].toasts : Show(w, [page[w] EXCEPT !.toasts = @ \ {q}])
  /\ OnPage(w)

-----------------------------------------------------------------------------
Init ==
  /\ ServerInit
  /\ card = None
  /\ page = [w \in Tabs |-> Blank]
  /\ queue = {}
  /\ confirmed = {}
  /\ loads = 0
  /\ troubles \in Troubles

Next ==
  \/ Stocktaking /\ UNCHANGED browser
  \/ FlushSaves \/ FlushDrops
  \/ \E w \in Tabs :
       \/ OpenDashboard(w) \/ OpenForm(w) \/ Confirm(w) \/ Undo(w) \/ UndoExpires(w)
       \/ ChangeVehicle(w) \/ Answer(w) \/ PickRow(w) \/ DropRow(w)
       \/ Submit(w) \/ SubmitOffline(w) \/ ServerSaves(w) \/ ServerRefuses(w)
       \/ Saved(w) \/ NotSaved(w)

Spec == Init /\ [][Next]_vars
-----------------------------------------------------------------------------
TypeOK ==
  /\ ServerTypeOK
  /\ card \in Maybe(Card)
  /\ page \in [Tabs -> Page]
  /\ queue \in SUBSET Sent
  /\ confirmed \in SUBSET Quick
  /\ \A w \in Tabs : page[w].sending = "no" <=> page[w].form = None

(* Every variable has its type, a form that is sent is its page's, and     *)
(* whatever is deleted under whatever, no row refers to one that is gone.  *)
Consistent == TypeOK /\ References

(* A trip names equipment of its own vehicle only, although the page gets  *)
(* its list in answers that cross.  What breaks it, and is taken out here: *)
(* an answer for another vehicle than the one now chosen, a change of the  *)
(* locked vehicle, which is undone when its equipment is already asked     *)
(* for, and a page opened for a vehicle, to which form.reset returns while *)
(* the list of the vehicle chosen instead stays.                           *)
OwnEquipment ==
  troubles \cap Mixed = {} =>
    \A u \in used : equipment[u[2]].vehicle = trips[u[1]]

(* The form of tab w completes the active trip, for its vehicle. *)
Completes(w) ==
  /\ page[w].base = card.trip /\ page'[w].base = None
  /\ page[w].sending \in {"no", "saved"}
  /\ card.vehicle = IF page[w].form = None THEN page[w].vehicle ELSE page[w].form.vehicle

(* The card goes when its own trip is undone, or completed by a form for   *)
(* its vehicle, whatever was tried with that field in the meantime, or     *)
(* gives way to a newer one; a form that is refused or gets no answer      *)
(* leaves it.                                                              *)
CardKept ==
  [][card # None /\ card' # card /\ troubles \cap Crossed = {} =>
       \/ card' # None /\ card'.trip \notin confirmed
       \/ \E w \in Tabs : card.trip \in page[w].toasts \ page'[w].toasts
       \/ \E w \in Tabs : Completes(w)]_vars
=============================================================================
