----------------------------- MODULE MCTripForm -----------------------------
(***************************************************************************)
(* Small instances of TripForm for TLC.  A behaviour is about              *)
(* administrators, who manage the equipment of vehicles that have little at *)
(* first, or about forms, filled in while one administrator removes        *)
(* equipment and vehicles.                                                 *)
(***************************************************************************)
EXTENDS TripForm, TLC

VARIABLE mix   \* what the behaviour is about

Symmetry == Permutations(Vehicles) \cup Permutations(Items) \cup Permutations(Tabs)

EquipmentOrCard == {Mixed, Crossed}

(* Every vehicle has some equipment; two pieces of one are of interest when *)
(* lists cross.                                                            *)
Stocked ==
  \E owner \in [Items -> Vehicles \cup {None}], n \in Names :
    /\ \A v \in Vehicles : \E e \in Items : owner[e] = v
    /\ (troubles = Mixed) <=> (\A e \in Items : owner[e] # None)
    /\ equipment = [e \in Items |-> IF owner[e] = None THEN None
                                                      ELSE [vehicle |-> owner[e], name |-> n]]

Clerk   == CHOOSE a \in Admins : TRUE
TheTrip == CHOOSE t \in Trips : TRUE

(* No equipment, or one piece; no trip, or one with what its vehicle has.  *)
Used ==
  /\ \E owner \in Vehicles \cup {None}, first \in Items, n \in Names :
       equipment = [e \in Items |-> IF e = first /\ owner # None
                                     THEN [vehicle |-> owner, name |-> n] ELSE None]
  /\ \E v \in Vehicles \cup {None} :
       trips = [t \in Trips |-> IF t = TheTrip THEN v ELSE None]
  /\ sent = [t \in Trips |-> IF trips[t] = None THEN None
                             ELSE [rows |-> StockOf(trips[t]), offline |-> FALSE]]
  /\ used = {u \in Trips \X Items : trips[u[1]] # None /\ u[2] \in StockOf(trips[u[1]])}

MCInit ==
  /\ mix \in {"admins", "forms"}
  /\ troubles \in Troubles
  /\ vehicles = Vehicles
  /\ \/ mix = "admins" /\ Used /\ troubles = Crossed
     \/ /\ mix = "forms" /\ Stocked
        /\ trips = [t \in Trips |-> None] /\ sent = trips /\ used = {}
  /\ issued = {e \in Items : InStock(e)}
  /\ Init

MCNext == Next /\ UNCHANGED mix

MCSpec == MCInit /\ [][MCNext]_<<vars, mix>>

(* In a behaviour about administrators names are typed or doubled at most  *)
(* once for a vehicle.   In one about forms whoever sends a form waits for *)
(* the answer before he picks anything else, and a form queued offline     *)
(* goes before the page is touched again.  While lists cross the stock     *)
(* stays as it is; while cards cross there is one card, a single thread    *)
(* removes at most one piece of equipment, and the other tab shows the     *)
(* dashboard.  One form becomes a trip.                                    *)
Patient ==
  /\ \A t \in Trips : sent'[t] # None => t = TheTrip
  /\ queue # {} => page' = page
  /\ \A w \in Tabs : page[w].sending # "no" =>
       \/ page'[w].sending = "no"
       \/ page'[w].vehicle = page[w].vehicle /\ page'[w].rows \in {page[w].rows, {}}

ListsCross ==
  /\ equipment' = equipment /\ admin' = admin

CardsCross ==
  /\ \A a \in Admins : admin'[a] = Idle \/ (a = Clerk /\ admin'[a].op = "scrap")
  /\ issued' = issued
  /\ \A e \in Items : equipment'[e] \in {equipment[e], None}
  /\ Cardinality({e \in issued : equipment'[e] = None}) <= 1
  /\ Cardinality({w \in Tabs : page'[w].at = "form"}) <= 1
  /\ Cardinality(confirmed') <= 1

Bounded ==
  \/ mix = "admins" /\ browser' = browser /\ \A v \in Vehicles : excuses'[v] <= 1
  \/ mix = "forms" /\ Patient /\ IF troubles = Mixed THEN ListsCross ELSE CardsCross
=============================================================================
