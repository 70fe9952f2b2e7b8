--------------------------- MODULE TripFormProofs ---------------------------
(***************************************************************************)
(* Safety of Equipment and of TripForm for any number of vehicles, pieces  *)
(* of equipment, trips, administrators, tabs and quick trips.  First the   *)
(* server on its own, then the pages and what they leave in localStorage,  *)
(* and last the server of TripForm as a step of the server on its own.     *)
(***************************************************************************)
EXTENDS TripForm, FiniteSetTheorems, SequenceTheorems, TLAPS

(* What the server keeps true, whatever the browser does. *)
ServerInv == ServerTypeOK /\ References

-----------------------------------------------------------------------------
(* There are at least as many pieces with a default name as such names. *)
LEMMA NamesAreFewer ==
  ASSUME NEW v \in Vehicles
  PROVE  Cardinality({e \in StockOf(v) : equipment[e].name \in Defaults})
           - Cardinality(NamesOf(v) \cap Defaults) \in Nat
<1> DEFINE S == {e \in StockOf(v) : equipment[e].name \in Defaults}
           T == NamesOf(v) \cap Defaults
           f == [e \in S |-> equipment[e].name]
<1>1. IsFiniteSet(S)
  BY EquipmentAssumption, FS_Subset DEF StockOf
<1>2. f \in Surjection(S, T)
  BY DEF Surjection, NamesOf
<1>3. IsFiniteSet(T) /\ Cardinality(T) <= Cardinality(S)
  <2> HIDE DEF S, T, f
  <2> QED
    BY <1>1, <1>2, FS_Surjection
<1>4. Cardinality(S) \in Nat /\ Cardinality(T) \in Nat
  BY <1>1, <1>3, FS_CardinalityType
<1> HIDE DEF S, T
<1>5. Cardinality(S) - Cardinality(T) \in Nat
  BY <1>3, <1>4
<1>6. QED
  BY <1>5 DEF S, T

LEMMA ServerInitInv == ServerInit => ServerInv
<1> SUFFICES ASSUME ServerInit
             PROVE  ServerInv
  OBVIOUS
<1>1. References
  BY DEF ServerInit, References
<1>2. admin \in [Admins -> Thread] /\ \A a \in Admins : admin[a].op = "idle" <=> admin[a].vehicle = None
  BY DEF ServerInit, Idle, Thread
<1>3. excuses \in [Vehicles -> Nat]
  BY NamesAreFewer DEF ServerInit
<1>4. QED
  BY <1>1, <1>2, <1>3 DEF ServerInit, ServerInv, ServerTypeOK

(* A row of trip_equipment is a pair. *)
LEMMA PairsOnly ==
  ASSUME ServerTypeOK, NEW u \in used
  PROVE  u[1] \in Trips /\ u[2] \in Items /\ u = <<u[1], u[2]>>
  BY DEF ServerTypeOK

LEMMA AddItemInv ==
  ASSUME ServerInv, NEW v \in Vehicles, NEW name \in Names, AddItem(v, name)
  PROVE  ServerInv'
<1>1. PICK e \in Items \ issued :
        /\ equipment' = [equipment EXCEPT ![e] = [vehicle |-> v, name |-> name]]
        /\ issued' = issued \cup {e}
  BY DEF AddItem
<1>2. [vehicle |-> v, name |-> name] \in Row /\ [vehicle |-> v, name |-> name] # None
  BY EquipmentAssumption DEF Row
<1>3. ServerTypeOK'
  BY <1>1, <1>2 DEF ServerInv, ServerTypeOK, AddItem, Excuse
<1>4. References'
  BY <1>1, <1>2, PairsOnly DEF ServerInv, ServerTypeOK, References, AddItem, InStock
<1>5. QED
  BY <1>3, <1>4 DEF ServerInv

LEMMA RenameItemInv ==
  ASSUME ServerInv, NEW e \in Items, NEW name \in Names, RenameItem(e, name)
  PROVE  ServerInv'
<1>1. equipment[e] \in Row
  BY DEF ServerInv, ServerTypeOK, RenameItem, InStock
<1>2. equipment'[e] \in Row /\ equipment'[e] # None /\ equipment'[e].vehicle = equipment[e].vehicle
      /\ \A d \in Items \ {e} : equipment'[d] = equipment[d]
      /\ equipment' \in [Items -> Row \cup {None}]
  BY <1>1, EquipmentAssumption DEF ServerInv, ServerTypeOK, RenameItem, Row
<1>3. ServerTypeOK'
  BY <1>1, <1>2 DEF ServerInv, ServerTypeOK, RenameItem, Excuse, Row
<1>4. References'
  BY <1>1, <1>2, PairsOnly DEF ServerInv, References, RenameItem, InStock
<1>5. QED
  BY <1>3, <1>4 DEF ServerInv

LEMMA RemoveItemInv ==
  ASSUME ServerInv, NEW e \in Items, RemoveItem(e)
  PROVE  ServerInv'
<1>1. ServerTypeOK'
  BY DEF ServerInv, ServerTypeOK, RemoveItem
<1>2. References'
  BY PairsOnly DEF ServerInv, ServerTypeOK, References, RemoveItem, InStock
<1>3. QED
  BY <1>1, <1>2 DEF ServerInv

(* The tables stay; one thread takes a step. *)
LEMMA ThreadInv ==
  ASSUME ServerInv, NEW a \in Admins, NEW t \in Thread, t.op = "idle" <=> t.vehicle = None,
         admin' = [admin EXCEPT ![a] = t], UNCHANGED <<tables, excuses>>
  PROVE  ServerInv'
<1>1. ServerTypeOK'
  BY DEF ServerInv, ServerTypeOK, tables
<1>2. References'
  BY DEF ServerInv, References, tables, InStock
<1>3. QED
  BY <1>1, <1>2 DEF ServerInv

LEMMA PreloadReadsInv ==
  ASSUME ServerInv, NEW a \in Admins, NEW v \in Vehicles, PreloadReads(a, v)
  PROVE  ServerInv'
<1> DEFINE t == [op |-> "preload", vehicle |-> v, names |-> NamesOf(v), late |-> FALSE]
<1>1. NamesOf(v) \subseteq Names
  BY DEF ServerInv, ServerTypeOK, NamesOf, StockOf, InStock, Row
<1>2. t \in Thread /\ (t.op = "idle" <=> t.vehicle = None)
  BY <1>1, EquipmentAssumption DEF Thread
<1>3. QED
  BY <1>2, ThreadInv DEF PreloadReads

LEMMA ScrapCountsInv ==
  ASSUME ServerInv, NEW a \in Admins, NEW v \in Vehicles, ScrapCounts(a, v)
  PROVE  ServerInv'
<1> DEFINE t == [Idle EXCEPT !.op = "scrap", !.vehicle = v]
<1>1. t \in Thread /\ (t.op = "idle" <=> t.vehicle = None)
  BY EquipmentAssumption DEF Thread, Idle
<1>2. QED
  BY <1>1, ThreadInv DEF ScrapCounts

LEMMA GiveUpInv ==
  ASSUME ServerInv, NEW a \in Admins, GiveUp(a)
  PROVE  ServerInv'
<1>1. Idle \in Thread /\ (Idle.op = "idle" <=> Idle.vehicle = None)
  BY DEF Thread, Idle
<1>2. QED
  BY <1>1, ThreadInv DEF GiveUp

LEMMA PreloadInsertsInv ==
  ASSUME ServerInv, NEW a \in Admins, PreloadInserts(a)
  PROVE  ServerInv'
<1> DEFINE v == admin[a].vehicle
<1>1. v \in Vehicles /\ v \in vehicles
  BY DEF ServerInv, ServerTypeOK, PreloadInserts
<1>2. PICK id \in [Missing(a) -> Items \ issued] :
        /\ equipment' = [e \in Items |->
             IF \E n \in Missing(a) : id[n] = e
               THEN [vehicle |-> v, name |-> CHOOSE n \in Missing(a) : id[n] = e]
               ELSE equipment[e]]
        /\ issued' = issued \cup {id[n] : n \in Missing(a)}
  BY DEF PreloadInserts
<1>3. \A e \in Items \ issued' : equipment'[e] = equipment[e]
  BY <1>2
<1>4. \A e \in Items :
        \/ equipment'[e] = equipment[e]
        \/ /\ e \in issued' /\ equipment'[e] \in Row /\ equipment'[e] # None
           /\ equipment'[e].vehicle = v
  <2> SUFFICES ASSUME NEW e \in Items, \E n \in Missing(a) : id[n] = e
               PROVE  /\ e \in issued' /\ equipment'[e] \in Row /\ equipment'[e] # None
                      /\ equipment'[e].vehicle = v
    BY <1>2
  <2> DEFINE n == CHOOSE m \in Missing(a) : id[m] = e
  <2>1. n \in Missing(a) /\ n \in Names
    BY EquipmentAssumption DEF Missing
  <2>2. equipment'[e] = [vehicle |-> v, name |-> n]
    BY <1>2
  <2>3. [vehicle |-> v, name |-> n] \in Row
    BY <1>1, <2>1 DEF Row
  <2>4. QED
    BY <1>2, <2>2, <2>3, EquipmentAssumption
<1>5. equipment' \in [Items -> Row \cup {None}]
  <2>1. \A e \in Items : equipment'[e] \in Row \cup {None}
    BY <1>4 DEF ServerInv, ServerTypeOK
  <2>2. equipment' = [e \in Items |-> equipment'[e]]
    BY <1>2
  <2>3. QED
    BY <2>1, <2>2
<1>6. issued' \in SUBSET Items
  BY <1>2 DEF ServerInv, ServerTypeOK
<1>7. excuses' \in [Vehicles -> Nat]
  BY DEF ServerInv, ServerTypeOK, PreloadInserts
<1>8. admin' \in [Admins -> Thread] /\ \A b \in Admins : admin'[b].op = "idle" <=> admin'[b].vehicle = None
  <2>1. ASSUME NEW b \in Admins
        PROVE  admin'[b] \in Thread /\ (admin'[b].op = "idle" <=> admin'[b].vehicle = None)
    <3>1. admin'[b] \in {Idle, admin[b], [admin[b] EXCEPT !.late = TRUE]}
      BY DEF PreloadInserts
    <3>2. admin[b] \in Thread /\ (admin[b].op = "idle" <=> admin[b].vehicle = None)
      BY DEF ServerInv, ServerTypeOK
    <3>3. Idle \in Thread /\ Idle.op = "idle" /\ Idle.vehicle = None
      BY DEF Thread, Idle
    <3>4. ASSUME NEW t \in Thread
          PROVE  /\ [t EXCEPT !.late = TRUE] \in Thread
                 /\ [t EXCEPT !.late = TRUE].op = t.op
                 /\ [t EXCEPT !.late = TRUE].vehicle = t.vehicle
      BY DEF Thread
    <3>5. QED
      BY <3>1, <3>2, <3>3, <3>4
  <2>2. admin' = [b \in Admins |-> admin'[b]]
    BY DEF PreloadInserts
  <2>3. QED
    BY <2>1, <2>2
<1>9. ServerTypeOK'
  BY <1>5, <1>6, <1>7, <1>8 DEF ServerInv, ServerTypeOK, PreloadInserts
<1>10. References'
  <2>1. UNCHANGED <<vehicles, trips, used, sent>> /\ issued \subseteq issued'
    BY <1>2 DEF PreloadInserts
  <2>2. QED
    BY <1>1, <1>4, <2>1, PairsOnly DEF ServerInv, References, InStock
<1>11. QED
  BY <1>9, <1>10 DEF ServerInv

LEMMA ScrapInv ==
  ASSUME ServerInv, NEW a \in Admins, Scrap(a)
  PROVE  ServerInv'
<1> DEFINE v == admin[a].vehicle
<1>1. Idle \in Thread /\ Idle.op = "idle" /\ Idle.vehicle = None
  BY DEF Thread, Idle
<1>2. ServerTypeOK'
  BY <1>1 DEF ServerInv, ServerTypeOK, Scrap
<1>3. References'
  <2>1. \A e \in Items : InStock(e)' => InStock(e) /\ equipment'[e] = equipment[e] /\ equipment[e].vehicle # v
    BY DEF Scrap, InStock, StockOf
  <2>2. \A t \in Trips : trips'[t] # None => trips[t] # None /\ trips'[t] = trips[t] /\ trips[t] # v
    BY DEF Scrap
  <2>3. \A u \in used' : u \in used /\ trips'[u[1]] # None /\ InStock(u[2])'
    BY PairsOnly DEF Scrap, InStock, ServerInv, References
  <2>4. QED
    BY <2>1, <2>2, <2>3 DEF ServerInv, References, Scrap
<1>4. QED
  BY <1>2, <1>3 DEF ServerInv

LEMMA PurgeTripInv ==
  ASSUME ServerInv, NEW t \in Trips, PurgeTrip(t)
  PROVE  ServerInv'
<1>1. ServerTypeOK'
  BY DEF ServerInv, ServerTypeOK, PurgeTrip
<1>2. References'
  BY PairsOnly DEF ServerInv, ServerTypeOK, References, PurgeTrip, InStock
<1>3. QED
  BY <1>1, <1>2 DEF ServerInv

LEMMA StocktakingInv ==
  ASSUME ServerInv, Stocktaking
  PROVE  ServerInv'
  BY AddItemInv, RenameItemInv, RemoveItemInv, PreloadReadsInv, ScrapCountsInv,
     PreloadInsertsInv, ScrapInv, GiveUpInv, PurgeTripInv DEF Stocktaking

LEMMA SaveInv ==
  ASSUME ServerInv, NEW v, NEW rows \in SUBSET Items, NEW form \in Form, Save(v, rows, form)
  PROVE  ServerInv'
<1>1. PICK t \in Trips :
        /\ sent[t] = None
        /\ sent' = [sent EXCEPT ![t] = form]
        /\ trips' = [trips EXCEPT ![t] = v]
        /\ used' = used \cup ({t} \X rows)
  BY DEF Save
<1>2. v \in vehicles /\ v \in Vehicles /\ v # None /\ form # None
  BY EquipmentAssumption DEF Save, ServerInv, ServerTypeOK
<1>3. ServerTypeOK'
  BY <1>1, <1>2 DEF ServerInv, ServerTypeOK, Save
<1>4. References'
  <2>1. \A u \in used' : u \in used \/ (u[1] = t /\ u[2] \in rows)
    BY <1>1
  <2>2. QED
    BY <1>1, <1>2, <2>1, PairsOnly DEF ServerInv, ServerTypeOK, References, Save, InStock
<1>5. QED
  BY <1>3, <1>4 DEF ServerInv
-----------------------------------------------------------------------------
LEMMA SameServer ==
  ASSUME ServerInv, UNCHANGED server
  PROVE  ServerInv'
<1>1. ServerTypeOK'
  BY DEF ServerInv, ServerTypeOK, server
<1>2. References'
  BY DEF ServerInv, References, server, InStock
<1>3. QED
  BY <1>1, <1>2 DEF ServerInv

LEMMA ServerNextInv == ServerInv /\ [ServerNext]_server => ServerInv'
<1>1. ASSUME ServerInv, NEW v \in Vehicles, NEW form \in Form, NEW rows \in SUBSET form.rows,
             Save(v, rows, form)
      PROVE  ServerInv'
  <2>1. rows \in SUBSET Items
    BY DEF Form
  <2>2. QED
    BY <1>1, <2>1, SaveInv
<1>2. QED
  BY <1>1, SameServer, StocktakingInv DEF ServerNext

(* No row of equipment, trip or use outlives what it refers to. *)
THEOREM ServerInvariance == ServerSpec => []ServerInv
  BY ServerInitInv, ServerNextInv, PTL DEF ServerSpec

-----------------------------------------------------------------------------
(* What has an id keeps its vehicle until it goes, and does not come back. *)
Stays(e) == InStock(e)' => InStock(e) /\ equipment'[e].vehicle = equipment[e].vehicle

LEMMA ItemsStay ==
  ASSUME ServerInv, [ServerNext]_server
  PROVE  issued \subseteq issued' /\ \A e \in issued : Stays(e)
<1> USE DEF Stays, InStock
<1>0. equipment \in [Items -> Row \cup {None}] /\ issued \subseteq Items
  BY DEF ServerInv, ServerTypeOK
<1>1. ASSUME UNCHANGED <<equipment, issued>>
      PROVE  issued \subseteq issued' /\ \A e \in issued : Stays(e)
  BY <1>1
<1>2. ASSUME NEW v \in Vehicles, NEW name \in Names, AddItem(v, name)
      PROVE  issued \subseteq issued' /\ \A e \in issued : Stays(e)
  BY <1>0, <1>2 DEF AddItem
<1>3. ASSUME NEW d \in Items, NEW name \in Names, RenameItem(d, name)
      PROVE  issued \subseteq issued' /\ \A e \in issued : Stays(e)
  BY <1>0, <1>3 DEF RenameItem, Row
<1>4. ASSUME NEW d \in Items, RemoveItem(d)
      PROVE  issued \subseteq issued' /\ \A e \in issued : Stays(e)
  BY <1>0, <1>4 DEF RemoveItem
<1>5. ASSUME NEW a \in Admins, PreloadInserts(a)
      PROVE  issued \subseteq issued' /\ \A e \in issued : Stays(e)
  BY <1>0, <1>5 DEF PreloadInserts
<1>6. ASSUME NEW a \in Admins, Scrap(a)
      PROVE  issued \subseteq issued' /\ \A e \in issued : Stays(e)
  BY <1>0, <1>6 DEF Scrap
<1>7. ASSUME NEW a \in Admins, NEW v \in Vehicles, PreloadReads(a, v) \/ ScrapCounts(a, v) \/ GiveUp(a)
      PROVE  issued \subseteq issued' /\ \A e \in issued : Stays(e)
  BY <1>1, <1>7 DEF PreloadReads, ScrapCounts, GiveUp, tables
<1>8. ASSUME NEW a \in Admins, GiveUp(a)
      PROVE  issued \subseteq issued' /\ \A e \in issued : Stays(e)
  BY <1>1, <1>8 DEF GiveUp, tables
<1>9. QED
  BY <1>1, <1>2, <1>3, <1>4, <1>5, <1>6, <1>7, <1>8
     DEF ServerNext, Stocktaking, Save, PurgeTrip, server

(* A trip keeps its vehicle and its form until it goes, and what it uses   *)
(* but for the equipment that goes; or it is the one that is saved.        *)
TripStays(t) ==
  /\ sent[t] # None => sent'[t] = sent[t]
  /\ trips'[t] # None =>
       /\ trips'[t] = trips[t] /\ sent'[t] = sent[t]
       /\ \A e \in Items : <<t, e>> \in used' <=> <<t, e>> \in used /\ InStock(e)'

SavedAs(t, v, rows, form) ==
  /\ trips'[t] = v /\ sent'[t] = form
  /\ \A e \in rows : InStock(e) /\ InStock(e)'
  /\ \A e \in Items : <<t, e>> \in used' <=> e \in rows

LEMMA SaveStays ==
  ASSUME ServerInv, NEW v, NEW rows \in SUBSET Items, NEW form \in Form, Save(v, rows, form)
  PROVE  \E s \in Trips : /\ sent[s] = None
                          /\ SavedAs(s, v, rows, form)
                          /\ \A t \in Trips \ {s} : TripStays(t)
<1>1. PICK s \in Trips :
        /\ sent[s] = None
        /\ sent' = [sent EXCEPT ![s] = form]
        /\ trips' = [trips EXCEPT ![s] = v]
        /\ used' = used \cup ({s} \X rows)
  BY DEF Save
<1>2. sent \in [Trips -> Form \cup {None}] /\ trips \in [Trips -> Vehicles \cup {None}]
  BY DEF ServerInv, ServerTypeOK
<1>3. \A e \in Items : <<s, e>> \notin used
  BY <1>1 DEF ServerInv, References
<1>4. equipment' = equipment /\ \A e \in rows : InStock(e)
  BY DEF Save
<1>5. SavedAs(s, v, rows, form)
  BY <1>1, <1>2, <1>3, <1>4 DEF SavedAs, InStock
<1>6. ASSUME NEW t \in Trips \ {s}
      PROVE  TripStays(t)
  <2>1. trips'[t] = trips[t] /\ sent'[t] = sent[t]
    BY <1>1, <1>2
  <2>2. \A e \in Items : <<t, e>> \in used' <=> <<t, e>> \in used
    BY <1>1
  <2>3. \A e \in Items : <<t, e>> \in used => InStock(e)
    BY DEF ServerInv, References
  <2>4. QED
    BY <1>4, <2>1, <2>2, <2>3 DEF TripStays, InStock
<1>7. QED
  BY <1>1, <1>5, <1>6

LEMMA StocktakingStays ==
  ASSUME ServerInv, Stocktaking \/ UNCHANGED server, NEW t \in Trips
  PROVE  TripStays(t)
<1> USE DEF TripStays
<1>0. /\ sent \in [Trips -> Form \cup {None}] /\ trips \in [Trips -> Vehicles \cup {None}]
      /\ used \in SUBSET (Trips \X Items)
      /\ \A e \in Items : <<t, e>> \in used => trips[t] # None /\ InStock(e)
  BY DEF ServerInv, ServerTypeOK, References
<1>1. ASSUME UNCHANGED <<trips, sent, used>>, \A e \in Items : InStock(e) => InStock(e)'
      PROVE  TripStays(t)
  BY <1>0, <1>1
<1>2. ASSUME NEW v \in Vehicles, NEW name \in Names, AddItem(v, name)
      PROVE  TripStays(t)
  BY <1>1, <1>2, EquipmentAssumption DEF AddItem, InStock, Row, ServerInv, ServerTypeOK
<1>3. ASSUME NEW d \in Items, NEW name \in Names, RenameItem(d, name)
      PROVE  TripStays(t)
  <2>1. equipment[d] \in Row /\ [equipment[d] EXCEPT !.name = name] \in Row
    BY <1>3 DEF RenameItem, InStock, ServerInv, ServerTypeOK, Row
  <2>2. \A e \in Items : InStock(e) => InStock(e)'
    BY <1>3, <2>1, EquipmentAssumption DEF RenameItem, InStock, ServerInv, ServerTypeOK
  <2>3. QED
    BY <1>1, <1>3, <2>2 DEF RenameItem
<1>4. ASSUME NEW d \in Items, RemoveItem(d)
      PROVE  TripStays(t)
  <2>1. \A e \in Items : InStock(e)' <=> InStock(e) /\ e # d
    BY <1>4 DEF RemoveItem, InStock, ServerInv, ServerTypeOK
  <2>2. \A e \in Items : <<t, e>> \in used' <=> <<t, e>> \in used /\ e # d
    BY <1>4 DEF RemoveItem
  <2>3. QED
    BY <1>0, <1>4, <2>1, <2>2 DEF RemoveItem
<1>5. ASSUME NEW a \in Admins, PreloadInserts(a)
      PROVE  TripStays(t)
  <2>1. \A e \in Items : e \notin issued => ~InStock(e)
    BY DEF ServerInv, References
  <2>2. \A e \in issued : InStock(e) => InStock(e)'
    BY <1>5 DEF PreloadInserts, InStock, ServerInv, ServerTypeOK
  <2>3. QED
    BY <1>1, <1>5, <2>1, <2>2 DEF PreloadInserts
<1>6. ASSUME NEW a \in Admins, Scrap(a)
      PROVE  TripStays(t)
  <2> DEFINE v == admin[a].vehicle
  <2>1. \A e \in Items : InStock(e)' <=> InStock(e) /\ e \notin StockOf(v)
    BY <1>6 DEF Scrap, InStock, StockOf, ServerInv, ServerTypeOK
  <2>2. trips'[t] # None => trips'[t] = trips[t] /\ trips[t] # v
    BY <1>0, <1>6 DEF Scrap
  <2>3. \A e \in Items : <<t, e>> \in used' <=> <<t, e>> \in used /\ trips[t] # v /\ e \notin StockOf(v)
    BY <1>6 DEF Scrap
  <2>4. QED
    BY <1>0, <1>6, <2>1, <2>2, <2>3 DEF Scrap
<1>7. ASSUME NEW s \in Trips, PurgeTrip(s)
      PROVE  TripStays(t)
  <2>1. trips'[t] # None => t # s /\ trips'[t] = trips[t]
    BY <1>0, <1>7 DEF PurgeTrip
  <2>2. t # s => \A e \in Items : <<t, e>> \in used' <=> <<t, e>> \in used
    BY <1>7 DEF PurgeTrip
  <2>3. QED
    BY <1>0, <1>7, <2>1, <2>2 DEF PurgeTrip, InStock
<1>8. ASSUME NEW a \in Admins, NEW v \in Vehicles, PreloadReads(a, v) \/ ScrapCounts(a, v)
      PROVE  TripStays(t)
  BY <1>1, <1>8 DEF PreloadReads, ScrapCounts, tables, InStock
<1>9. ASSUME NEW a \in Admins, GiveUp(a)
      PROVE  TripStays(t)
  BY <1>1, <1>9 DEF GiveUp, tables, InStock
<1>10. ASSUME UNCHANGED server
       PROVE  TripStays(t)
  BY <1>1, <1>10 DEF server, InStock
<1>11. QED
  BY <1>2, <1>3, <1>4, <1>5, <1>6, <1>7, <1>8, <1>9, <1>10 DEF Stocktaking

-----------------------------------------------------------------------------
(* An id in the form of a trip is not one that is still to be handed out:  *)
(* otherwise WholeTrips would have a row that comes later belong to it.    *)
Known == \A t \in Trips : sent[t] # None /\ ~sent[t].offline => sent[t].rows \subseteq issued

WholeAt(t) ==
  trips[t] # None =>
    LET left == {e \in sent[t].rows : InStock(e)}
    IN  IF sent[t].offline THEN RowsOf(t) \subseteq left ELSE RowsOf(t) = left

LEMMA WholeStays ==
  ASSUME ServerInv, Known, NEW t \in Trips, TripStays(t), WholeAt(t),
         issued \subseteq issued', \A e \in issued : Stays(e)
  PROVE  WholeAt(t)'
<1> SUFFICES ASSUME trips'[t] # None
             PROVE  WholeAt(t)'
  BY DEF WholeAt
<1>1. trips[t] # None /\ sent'[t] = sent[t] /\ sent[t] # None /\ sent[t].rows \subseteq Items
  BY DEF TripStays, ServerInv, ServerTypeOK, References, Form
<1>2. \A e \in Items : e \in RowsOf(t)' <=> e \in RowsOf(t) /\ InStock(e)'
  BY DEF TripStays, RowsOf
<1>3. RowsOf(t) \subseteq Items /\ RowsOf(t)' \subseteq Items
  BY DEF RowsOf
<1>4. CASE sent[t].offline
  BY <1>1, <1>2, <1>3, <1>4 DEF WholeAt
<1>5. CASE ~sent[t].offline
  <2>1. \A e \in sent[t].rows : InStock(e)' => InStock(e)
    BY <1>1, <1>5 DEF Known, Stays
  <2>2. QED
    BY <1>1, <1>2, <1>3, <1>5, <2>1 DEF WholeAt
<1>6. QED
  BY <1>4, <1>5 DEF Form

LEMMA WholeStep ==
  ASSUME ServerInv, Known, \A t \in Trips : WholeAt(t), [ServerNext]_server
  PROVE  Known' /\ \A t \in Trips : WholeAt(t)'
<1>1. issued \subseteq issued' /\ \A e \in issued : Stays(e)
  BY ItemsStay
<1>2. CASE Stocktaking \/ UNCHANGED server
  <2>1. \A t \in Trips : TripStays(t)
    BY <1>2, StocktakingStays
  <2>2. sent' = sent
    BY <1>2 DEF Stocktaking, AddItem, RenameItem, RemoveItem, PreloadReads, ScrapCounts,
       PreloadInserts, Scrap, GiveUp, PurgeTrip, tables, server
  <2>3. QED
    BY <1>1, <2>1, <2>2, WholeStays DEF Known
<1>3. CASE \E v \in Vehicles, form \in Form : \E rows \in SUBSET form.rows :
             (form.offline \/ rows = form.rows) /\ Save(v, rows, form)
  <2>1. PICK v \in Vehicles, form \in Form : \E rows \in SUBSET form.rows :
          (form.offline \/ rows = form.rows) /\ Save(v, rows, form)
    BY <1>3
  <2>2. PICK rows \in SUBSET form.rows :
          (form.offline \/ rows = form.rows) /\ Save(v, rows, form)
    BY <2>1
  <2>3. rows \in SUBSET Items /\ form.rows \in SUBSET Items
    BY DEF Form
  <2>4. PICK s \in Trips : /\ sent[s] = None
                           /\ SavedAs(s, v, rows, form)
                           /\ \A t \in Trips \ {s} : TripStays(t)
    BY <2>2, <2>3, SaveStays
  <2>5. \A t \in Trips \ {s} : WholeAt(t)'
    BY <1>1, <2>4, WholeStays
  <2>6. WholeAt(s)'
    BY <2>2, <2>3, <2>4 DEF SavedAs, WholeAt, RowsOf
  <2>7. form.offline \/ form.rows \subseteq issued
    BY <2>2, <2>3 DEF Save, ServerInv, References
  <2>8. \A t \in Trips \ {s} : sent'[t] = sent[t]
    BY <2>2, <2>4 DEF Save, ServerInv, ServerTypeOK, SavedAs
  <2>9. Known'
    BY <1>1, <2>4, <2>7, <2>8 DEF Known, SavedAs
  <2>10. QED
    BY <2>5, <2>6, <2>9
<1>4. QED
  BY <1>2, <1>3 DEF ServerNext

(* A trip keeps all the equipment its form listed that is still there. *)
THEOREM TripsWhole == ServerSpec => []WholeTrips
<1> DEFINE W == Known /\ \A t \in Trips : WholeAt(t)
<1>1. WholeTrips <=> \A t \in Trips : WholeAt(t)
  BY DEF WholeTrips, WholeAt
<1>2. ServerInit => W
  BY <1>1 DEF ServerInit, Known
<1>3. ServerInv /\ W /\ [ServerNext]_server => W'
  BY WholeStep
<1> HIDE DEF W
<1>4. ServerSpec => []W
  BY <1>2, <1>3, ServerInvariance, PTL DEF ServerSpec
<1>5. W => WholeTrips
  BY <1>1 DEF W
<1>6. QED
  BY <1>4, <1>5, PTL

-----------------------------------------------------------------------------

(* What a page keeps true, with what is in localStorage.  The second part  *)
(* says where the card comes from and where it goes: a form that was       *)
(* opened for it holds its trip and its vehicle until it is sent.          *)
PageOK(p) == p \in Page /\ (p.sending = "no" <=> p.form = None)

Bound(p, c) ==
  /\ p.at # "form" => p.sending = "no"
  /\ p.at # "dashboard" => p.toasts = {}
  /\ p.at = "form" =>
       /\ p.base = IF c = None THEN None ELSE c.trip
       /\ p.lock = IF c = None THEN None ELSE c.vehicle
       /\ p.lock # None => /\ p.vehicle \in {p.lock, None}
                           /\ p.form # None => p.form.vehicle = p.lock

Uncrossed == troubles \cap Crossed = {}

OneTab == \A w, x \in Tabs : page[w].at # "closed" /\ page[x].at # "closed" => w = x

Bindings == Uncrossed => OneTab /\ \A w \in Tabs : Bound(page[w], card)

Inv == Consistent /\ Bindings

-----------------------------------------------------------------------------
(* The types of everything but the server. *)
BrowserOK ==
  /\ card \in Maybe(Card)
  /\ page \in [Tabs -> Page]
  /\ \A w \in Tabs : PageOK(page[w])
  /\ queue \in SUBSET Sent
  /\ confirmed \in SUBSET Quick

LEMMA InvParts == Inv <=> ServerInv /\ BrowserOK /\ Bindings
  BY DEF Inv, Consistent, TypeOK, ServerInv, BrowserOK, PageOK

LEMMA Shown ==
  ASSUME BrowserOK, NEW w \in Tabs, NEW p, PageOK(p), Show(w, p)
  PROVE  /\ page' \in [Tabs -> Page]
         /\ page'[w] = p
         /\ \A x \in Tabs \ {w} : page'[x] = page[x]
         /\ \A x \in Tabs : PageOK(page'[x])
  BY DEF BrowserOK, PageOK, Show

(* One page changes, and what it changes outside is well typed: a card that *)
(* changes is no other page's, where there is one tab.                     *)
LEMMA TabStep ==
  ASSUME Inv, NEW w \in Tabs, NEW p, PageOK(p), Show(w, p), p.at = page[w].at,
         Uncrossed => Bound(p, card') /\ (card' = card \/ p.at # "closed"),
         card' \in Maybe(Card), queue' \in SUBSET Sent, confirmed' \in SUBSET Quick, troubles' = troubles, ServerInv'
  PROVE  Inv'
<1>1. BrowserOK'
  BY InvParts, Shown DEF BrowserOK
<1>2. Bindings'
  <2> SUFFICES ASSUME Uncrossed'
               PROVE  OneTab' /\ \A x \in Tabs : Bound(page[x], card)'
    BY DEF Bindings
  <2>1. Uncrossed /\ OneTab /\ \A x \in Tabs : Bound(page[x], card)
    BY InvParts DEF Bindings, Uncrossed
  <2>2. page'[w] = p /\ \A x \in Tabs \ {w} : page'[x] = page[x]
    BY InvParts, Shown
  <2>3. \A x \in Tabs \ {w} : card' = card \/ page[x].at = "closed"
    BY <2>1 DEF OneTab
  <2>4. \A x \in Tabs \ {w} : Bound(page[x], card')
    BY <2>1, <2>3 DEF Bound
  <2>5. QED
    BY <2>1, <2>2, <2>4 DEF OneTab
<1>3. QED
  BY <1>1, <1>2 DEF Inv, Consistent, TypeOK, ServerInv, BrowserOK, PageOK

(* One page changes, nothing else does. *)
LEMMA PageStep ==
  ASSUME Inv, NEW w \in Tabs, NEW p, PageOK(p), Show(w, p), OnPage(w),
         p.at = page[w].at, Uncrossed => Bound(p, card)
  PROVE  Inv'
<1>1. ServerInv'
  BY InvParts, SameServer DEF OnPage
<1>2. queue' \in SUBSET Sent /\ confirmed' \in SUBSET Quick /\ card' = card /\ troubles' = troubles
      /\ card' \in Maybe(Card)
  BY InvParts DEF BrowserOK, OnPage
<1>3. QED
  BY <1>1, <1>2, TabStep

LEMMA LoadedPage ==
  ASSUME NEW p \in Page, NEW v \in Maybe(Vehicles)
  PROVE  /\ LoadEquipment(p, v) \in Page
         /\ LoadEquipment(p, v).at = p.at
         /\ LoadEquipment(p, v).toasts = p.toasts
         /\ LoadEquipment(p, v).base = p.base
         /\ LoadEquipment(p, v).lock = p.lock
         /\ LoadEquipment(p, v).choices = p.choices
         /\ LoadEquipment(p, v).vehicle = p.vehicle
         /\ LoadEquipment(p, v).sending = p.sending
         /\ LoadEquipment(p, v).form = p.form
         /\ LoadEquipment(p, v).default = p.default
         /\ LoadEquipment(p, v).options = {} /\ LoadEquipment(p, v).rows = {}
<1>1. ASSUME NEW a \in Seq(Vehicles)
      PROVE  /\ [p EXCEPT !.options = {}, !.rows = {}, !.asked = a] \in Page
  BY <1>1 DEF Page
<1>2. (IF v = None THEN p.asked ELSE Append(p.asked, v)) \in Seq(Vehicles)
  BY AppendProperties DEF Page, Maybe
<1>3. LoadEquipment(p, v) = [p EXCEPT !.options = {}, !.rows = {},
                             !.asked = IF v = None THEN p.asked ELSE Append(p.asked, v)]
  BY DEF LoadEquipment, Page
<1>4. QED
  BY <1>1, <1>2, <1>3 DEF Page

LEMMA AnswerInv ==
  ASSUME Inv, NEW w \in Tabs, Answer(w)
  PROVE  Inv'
<1> DEFINE p == page[w]
<1>0. PICK i \in DOMAIN p.asked : \E offered \in {StockOf(p.asked[i]), {}} :
        Show(w, [p EXCEPT !.asked = RemoveAt(@, i), !.options = offered, !.rows = {}])
  BY DEF Answer
<1>1. PICK offered \in {StockOf(p.asked[i]), {}} :
        Show(w, [p EXCEPT !.asked = RemoveAt(@, i), !.options = offered, !.rows = {}])
  BY <1>0
<1>2. p \in Page /\ PageOK(p) /\ (Uncrossed => Bound(p, card))
  BY InvParts DEF BrowserOK, Bindings
<1>3. RemoveAt(p.asked, i) \in Seq(Vehicles)
  <2>1. p.asked \in Seq(Vehicles) /\ i \in 1..Len(p.asked)
    BY <1>2 DEF Page
  <2>2. SubSeq(p.asked, 1, i - 1) \in Seq(Vehicles) /\ SubSeq(p.asked, i + 1, Len(p.asked)) \in Seq(Vehicles)
    BY <2>1, SubSeqProperties
  <2>3. QED
    BY <2>2, ConcatProperties DEF RemoveAt
<1>4. offered \in SUBSET Items
  BY DEF StockOf
<1> DEFINE q == [p EXCEPT !.asked = RemoveAt(@, i), !.options = offered, !.rows = {}]
<1>5. q \in Page /\ q.at = p.at /\ q.toasts = p.toasts /\ q.base = p.base /\ q.lock = p.lock
      /\ q.vehicle = p.vehicle /\ q.sending = p.sending /\ q.form = p.form
  BY <1>2, <1>3, <1>4 DEF Page
<1>6. PageOK(q) /\ (Uncrossed => Bound(q, card))
  BY <1>2, <1>5 DEF PageOK, Bound
<1>7. OnPage(w)
  BY DEF Answer
<1> HIDE DEF q
<1>8. QED
  BY <1>1, <1>5, <1>6, <1>7, PageStep DEF q
LEMMA RowsInv ==
  ASSUME Inv, NEW w \in Tabs, PickRow(w) \/ DropRow(w)
  PROVE  Inv'
<1> DEFINE p == page[w]
<1>1. p \in Page /\ PageOK(p) /\ (Uncrossed => Bound(p, card))
  BY InvParts DEF BrowserOK, Bindings
<1>2. PICK rows \in SUBSET Items : Show(w, [p EXCEPT !.rows = rows])
  <2>1. ASSUME PickRow(w)
        PROVE  \E rows \in SUBSET Items : Show(w, [p EXCEPT !.rows = rows])
    <3>1. PICK e \in p.options \ p.rows : Show(w, [p EXCEPT !.rows = p.rows \cup {e}])
      BY <1>1, <2>1 DEF PickRow, Page
    <3>2. p.rows \cup {e} \in SUBSET Items
      BY <1>1, <3>1 DEF Page
    <3>3. QED
      BY <3>1, <3>2
  <2>2. ASSUME DropRow(w)
        PROVE  \E rows \in SUBSET Items : Show(w, [p EXCEPT !.rows = rows])
    <3>1. PICK e \in p.rows : Show(w, [p EXCEPT !.rows = p.rows \ {e}])
      BY <1>1, <2>2 DEF DropRow, Page
    <3>2. p.rows \ {e} \in SUBSET Items
      BY <1>1, <3>1 DEF Page
    <3>3. QED
      BY <3>1, <3>2
  <2>3. QED
    BY <2>1, <2>2
<1> DEFINE q == [p EXCEPT !.rows = rows]
<1>3. q \in Page /\ q.at = p.at /\ q.toasts = p.toasts /\ q.base = p.base /\ q.lock = p.lock
      /\ q.vehicle = p.vehicle /\ q.sending = p.sending /\ q.form = p.form
  BY <1>1, <1>2 DEF Page
<1>4. PageOK(q) /\ (Uncrossed => Bound(q, card))
  BY <1>1, <1>3 DEF PageOK, Bound
<1>5. OnPage(w)
  BY DEF PickRow, DropRow
<1> HIDE DEF q
<1>6. QED
  BY <1>2, <1>3, <1>4, <1>5, PageStep DEF q

LEMMA ChangeVehicleInv ==
  ASSUME Inv, NEW w \in Tabs, ChangeVehicle(w)
  PROVE  Inv'
<1> DEFINE p == page[w]
<1>1. p \in Page /\ PageOK(p) /\ (Uncrossed => Bound(p, card))
  BY InvParts DEF BrowserOK, Bindings
<1>2. PICK v \in Maybe(p.choices) : Show(w, [LoadEquipment(p, v) EXCEPT !.vehicle = Settled(p, v)])
  BY DEF ChangeVehicle
<1> DEFINE l == LoadEquipment(p, v)
           q == [l EXCEPT !.vehicle = Settled(p, v)]
<1>3. v \in Maybe(Vehicles) /\ Settled(p, v) \in Maybe(Vehicles)
      /\ (p.lock # None => Settled(p, v) \in {p.lock, None})
  BY <1>1, <1>2 DEF Page, Maybe, Settled, Offered
<1>4. l \in Page /\ l.at = p.at /\ l.toasts = p.toasts /\ l.base = p.base /\ l.lock = p.lock
      /\ l.sending = p.sending /\ l.form = p.form
  BY <1>1, <1>3, LoadedPage
<1> HIDE DEF l
<1>5. q \in Page /\ q.at = l.at /\ q.toasts = l.toasts /\ q.base = l.base /\ q.lock = l.lock
      /\ q.vehicle = Settled(p, v) /\ q.sending = l.sending /\ q.form = l.form
  BY <1>3, <1>4 DEF Page
<1>6. PageOK(q) /\ (Uncrossed => Bound(q, card))
  BY <1>1, <1>3, <1>4, <1>5 DEF PageOK, Bound
<1>7. OnPage(w) /\ Show(w, q) /\ q.at = page[w].at
  BY <1>2, <1>4, <1>5 DEF ChangeVehicle, l
<1> HIDE DEF q
<1>8. QED
  BY <1>6, <1>7, PageStep

(* A page is loaded in tab w; without "two tabs" all others are closed. *)
LEMMA LoadStep ==
  ASSUME Inv, NEW w \in Tabs, NEW p, PageOK(p), Show(w, p), Load(w), Uncrossed => Bound(p, card)
  PROVE  Inv'
<1>1. ServerInv'
  BY InvParts, SameServer DEF Load
<1>2. BrowserOK'
  BY InvParts, Shown DEF BrowserOK, Load
<1>3. Bindings'
  <2> SUFFICES ASSUME Uncrossed'
               PROVE  OneTab' /\ \A x \in Tabs : Bound(page[x], card)'
    BY DEF Bindings
  <2>1. card' = card /\ Uncrossed
    BY DEF Load, Uncrossed
  <2>2. \A x \in Tabs \ {w} : page[x].at = "closed"
    BY <2>1 DEF Load, Uncrossed, Crossed
  <2>3. page'[w] = p /\ \A x \in Tabs \ {w} : page'[x] = page[x]
    BY InvParts, Shown
  <2>4. QED
    BY InvParts, <2>1, <2>2, <2>3 DEF Bindings, OneTab
<1>4. QED
  BY <1>1, <1>2, <1>3 DEF Inv, Consistent, TypeOK, ServerInv, BrowserOK, PageOK

LEMMA BlankPage ==
  PageOK(Blank) /\ Blank.at = "closed" /\ Blank.toasts = {} /\ Blank.sending = "no"
  /\ Blank.form = None /\ Blank.base = None /\ Blank.lock = None
  BY EmptySeq DEF PageOK, Blank, Page, Maybe

LEMMA OpenDashboardInv ==
  ASSUME Inv, NEW w \in Tabs, OpenDashboard(w)
  PROVE  Inv'
<1> DEFINE p == [Blank EXCEPT !.at = "dashboard"]
<1>1. PageOK(p) /\ Bound(p, card)
  BY BlankPage DEF PageOK, Page, Bound
<1> HIDE DEF p
<1>2. QED
  BY <1>1, LoadStep DEF OpenDashboard, p

LEMMA OpenFormInv ==
  ASSUME Inv, NEW w \in Tabs, OpenForm(w)
  PROVE  Inv'
<1>1. PICK wanted \in Maybe(Vehicles), restored \in Maybe(vehicles), add \in BOOLEAN :
        LET default == IF wanted \in vehicles THEN wanted ELSE None
            fresh == [Blank EXCEPT !.at = "form", !.choices = vehicles, !.default = default]
            first == [LoadEquipment(fresh, restored) EXCEPT !.vehicle = restored]
            again == IF add THEN [LoadEquipment(first, wanted) EXCEPT !.vehicle = default]
                            ELSE first
        IN  Show(w, Prefilled(again))
  BY DEF OpenForm
<1> DEFINE default == IF wanted \in vehicles THEN wanted ELSE None
           fresh == [Blank EXCEPT !.at = "form", !.choices = vehicles, !.default = default]
           first == [LoadEquipment(fresh, restored) EXCEPT !.vehicle = restored]
           again == IF add THEN [LoadEquipment(first, wanted) EXCEPT !.vehicle = default]
                           ELSE first
           FormPage(p) == p \in Page /\ p.at = "form" /\ p.toasts = {} /\ p.sending = "no"
                          /\ p.form = None /\ p.base = None /\ p.lock = None
                          /\ p.choices \subseteq Vehicles
<1>2. vehicles \subseteq Vehicles /\ card \in Maybe(Card)
  BY InvParts DEF ServerInv, ServerTypeOK, BrowserOK
<1>3. wanted \in Maybe(Vehicles) /\ default \in Maybe(Vehicles) /\ restored \in Maybe(Vehicles)
  BY <1>2 DEF Maybe
<1> HIDE DEF default
<1>4. FormPage(fresh)
  BY <1>2, <1>3, BlankPage DEF Page, PageOK
<1>5. ASSUME NEW p, FormPage(p), NEW v \in Maybe(Vehicles), NEW u \in Maybe(Vehicles)
      PROVE  FormPage([LoadEquipment(p, v) EXCEPT !.vehicle = u])
  <2> DEFINE l == LoadEquipment(p, v)
  <2>1. FormPage(l)
    BY <1>5, LoadedPage
  <2> HIDE DEF l
  <2>2. QED
    BY <2>1, <1>5 DEF Page, l
<1> HIDE DEF fresh
<1>6. FormPage(first)
  BY <1>3, <1>4, <1>5
<1> HIDE DEF first
<1>7. FormPage(again)
  BY <1>3, <1>5, <1>6
<1> HIDE DEF again
<1>8. PageOK(Prefilled(again)) /\ Bound(Prefilled(again), card)
  <2>1. CASE card = None
    BY <1>7, <2>1 DEF PageOK, Bound, Prefilled
  <2>2. CASE card # None
    <3> DEFINE q == [again EXCEPT !.vehicle = Offered(again, card.vehicle),
                                  !.lock = card.vehicle, !.base = card.trip]
               l == LoadEquipment(q, card.vehicle)
    <3>1. card \in Card /\ card.vehicle \in Vehicles /\ card.trip \in Quick
      BY <1>2, <2>2 DEF Maybe, Card
    <3>2. q \in Page /\ q.at = "form" /\ q.toasts = {} /\ q.sending = "no" /\ q.form = None
          /\ q.base = card.trip /\ q.lock = card.vehicle /\ q.vehicle \in {card.vehicle, None}
      BY <1>7, <3>1 DEF Page, Offered, Maybe
    <3> HIDE DEF q
    <3>3. l \in Page /\ l.at = q.at /\ l.toasts = q.toasts /\ l.sending = q.sending /\ l.form = q.form
          /\ l.base = q.base /\ l.lock = q.lock /\ l.vehicle = q.vehicle
      BY <3>1, <3>2, LoadedPage DEF Maybe
    <3>4. Prefilled(again) = l
      BY <2>2 DEF Prefilled, q
    <3> HIDE DEF l
    <3>5. QED
      BY <2>2, <3>2, <3>3, <3>4 DEF PageOK, Bound
  <2>3. QED
    BY <2>1, <2>2
<1>9. Load(w) /\ Show(w, Prefilled(again))
  BY <1>1 DEF OpenForm, again, first, fresh, default
<1>10. QED
  BY <1>8, <1>9, LoadStep
-----------------------------------------------------------------------------
(* Sending the form. *)

LEMMA PayloadRows ==
  ASSUME NEW S \in SUBSET Items, NEW offline \in BOOLEAN, NEW rows \in Payload(S, offline)
  PROVE  rows \in SUBSET Items /\ rows \subseteq S
  BY DEF Payload

LEMMA FormSent ==
  ASSUME NEW v \in Vehicles, NEW S \in SUBSET Items, NEW offline \in BOOLEAN,
         NEW rows \in Payload(S, offline)
  PROVE  LET f == [vehicle |-> v, rows |-> rows, form |-> [rows |-> S, offline |-> offline]]
         IN  f \in Sent /\ f # None /\ f.vehicle = v
<1>1. rows \in SUBSET Items
  BY PayloadRows
<1>2. [rows |-> S, offline |-> offline] \in Form
  BY DEF Form
<1>3. QED
  BY <1>1, <1>2, TripFormAssumption DEF Sent

LEMMA SubmitInv ==
  ASSUME Inv, NEW w \in Tabs, Submit(w)
  PROVE  Inv'
<1> DEFINE p == page[w]
<1>1. p \in Page /\ PageOK(p) /\ (Uncrossed => Bound(p, card))
  BY InvParts DEF BrowserOK, Bindings
<1>2. PICK rows \in Payload(p.rows, FALSE) :
        Show(w, [p EXCEPT !.sending = "sent",
                          !.form = [vehicle |-> p.vehicle, rows |-> rows,
                                    form |-> [rows |-> p.rows, offline |-> FALSE]]])
  BY DEF Submit
<1> DEFINE f == [vehicle |-> p.vehicle, rows |-> rows,
                 form |-> [rows |-> p.rows, offline |-> FALSE]]
           q == [p EXCEPT !.sending = "sent", !.form = f]
<1>3. p.vehicle \in Vehicles /\ p.rows \in SUBSET Items /\ p.at = "form"
  BY <1>1 DEF Submit, Page, Maybe, OnForm
<1>4. f \in Sent /\ f.vehicle = p.vehicle /\ f # None
  BY <1>2, <1>3, FormSent
<1> HIDE DEF f
<1>5. q \in Page /\ q.at = p.at /\ q.toasts = p.toasts /\ q.base = p.base /\ q.lock = p.lock
      /\ q.vehicle = p.vehicle /\ q.sending = "sent" /\ q.form = f
  BY <1>1, <1>4 DEF Page, Maybe
<1>6. PageOK(q) /\ (Uncrossed => Bound(q, card))
  BY <1>1, <1>3, <1>4, <1>5 DEF PageOK, Bound, Submit
<1>7. OnPage(w) /\ Show(w, q)
  BY <1>2 DEF Submit, f
<1> HIDE DEF q
<1>8. QED
  BY <1>5, <1>6, <1>7, PageStep

(* The form is cleared and the card put away, or one of the two was to be. *)
LEMMA ClearedPage ==
  ASSUME NEW p \in Page
  PROVE  LET q == Cleared(p)
         IN  /\ PageOK(q) /\ q.at = p.at /\ q.toasts = p.toasts /\ q.base = None /\ q.lock = None
             /\ q.sending = "no" /\ q.vehicle = p.default /\ q.default = p.default /\ q.form = None
  BY DEF Page, Maybe, Cleared, PageOK

LEMMA SubmitOfflineInv ==
  ASSUME Inv, NEW w \in Tabs, SubmitOffline(w)
  PROVE  Inv'
<1> DEFINE p == page[w]
<1>1. p \in Page /\ PageOK(p) /\ (Uncrossed => Bound(p, card)) /\ p.at = "form"
  BY InvParts DEF BrowserOK, Bindings, SubmitOffline, OnForm
<1>2. queue' \in SUBSET Sent
  <2>1. PICK rows \in Payload(p.rows, TRUE) :
          queue' = {[vehicle |-> p.vehicle, rows |-> rows,
                     form |-> [rows |-> p.rows, offline |-> TRUE]]}
    BY DEF SubmitOffline
  <2>2. p.vehicle \in Vehicles /\ p.rows \in SUBSET Items
    BY <1>1 DEF SubmitOffline, Page, Maybe
  <2>3. QED
    BY <2>1, <2>2, FormSent
<1>3. ServerInv' /\ confirmed' \in SUBSET Quick /\ troubles' = troubles
  BY InvParts, SameServer DEF SubmitOffline, BrowserOK
<1>4. CASE Show(w, Cleared(p)) /\ card' = None
  <2> DEFINE q == Cleared(p)
  <2>1. PageOK(q) /\ q.at = p.at /\ (Uncrossed => Bound(q, card'))
    BY <1>1, <1>4, ClearedPage DEF Bound
  <2> HIDE DEF q
  <2>2. Show(w, q) /\ card' = None /\ p.at # "closed"
    BY <1>1, <1>4 DEF q
  <2>3. QED
    BY <1>2, <1>3, <2>1, <2>2, TabStep DEF Maybe
<1>5. CASE UNCHANGED <<page, card>>
  <2>1. Show(w, p)
    BY <1>5, InvParts DEF Show, BrowserOK
  <2>2. QED
    BY <1>1, <1>2, <1>3, <1>5, <2>1, TabStep, InvParts DEF BrowserOK
<1>6. QED
  BY <1>4, <1>5 DEF SubmitOffline

(* What a page waits for has come, or not. *)
LEMMA AnsweredPage ==
  ASSUME Inv, NEW w \in Tabs, page[w].sending # "no", NEW s \in {"saved", "refused"}
  PROVE  LET q == [page[w] EXCEPT !.sending = s]
         IN  PageOK(q) /\ q.at = page[w].at /\ (Uncrossed => Bound(q, card))
<1> DEFINE p == page[w]
           q == [p EXCEPT !.sending = s]
<1>1. p \in Page /\ PageOK(p) /\ (Uncrossed => Bound(p, card))
  BY InvParts DEF BrowserOK, Bindings
<1>2. q \in Page /\ q.at = p.at /\ q.toasts = p.toasts /\ q.base = p.base /\ q.lock = p.lock
      /\ q.vehicle = p.vehicle /\ q.sending = s /\ q.form = p.form
  BY <1>1 DEF Page
<1> HIDE DEF q
<1>3. PageOK(q) /\ q.at = p.at /\ (Uncrossed => Bound(q, card))
  BY <1>1, <1>2 DEF PageOK, Bound
<1>4. QED
  BY <1>3 DEF q

LEMMA SentForm ==
  ASSUME Inv, NEW w \in Tabs, page[w].sending # "no"
  PROVE  page[w].form \in Sent
  BY InvParts DEF BrowserOK, PageOK, Page, Maybe

LEMMA ServerSavesInv ==
  ASSUME Inv, NEW w \in Tabs, ServerSaves(w)
  PROVE  Inv'
<1> DEFINE q == [page[w] EXCEPT !.sending = "saved"]
<1>1. PageOK(q) /\ q.at = page[w].at /\ (Uncrossed => Bound(q, card))
  BY AnsweredPage DEF ServerSaves
<1> HIDE DEF q
<1>2. page[w].form.rows \in SUBSET Items /\ page[w].form.form \in Form
  BY SentForm DEF ServerSaves, Sent
<1>3. ServerInv'
  BY <1>2, SaveInv, InvParts DEF ServerSaves
<1>4. queue' \in SUBSET Sent /\ confirmed' \in SUBSET Quick /\ card' = card /\ troubles' = troubles
      /\ card' \in Maybe(Card) /\ Show(w, q)
  BY InvParts DEF BrowserOK, ServerSaves, q
<1>5. QED
  BY <1>1, <1>3, <1>4, TabStep

LEMMA ServerRefusesInv ==
  ASSUME Inv, NEW w \in Tabs, ServerRefuses(w)
  PROVE  Inv'
<1> DEFINE q == [page[w] EXCEPT !.sending = "refused"]
<1>1. PageOK(q) /\ q.at = page[w].at /\ (Uncrossed => Bound(q, card))
  BY AnsweredPage DEF ServerRefuses
<1>2. Show(w, q) /\ OnPage(w)
  BY DEF ServerRefuses
<1> HIDE DEF q
<1>3. QED
  BY <1>1, <1>2, PageStep

LEMMA SavedInv ==
  ASSUME Inv, NEW w \in Tabs, Saved(w)
  PROVE  Inv'
<1> DEFINE p == page[w]
           q == Cleared(p)
<1>1. p \in Page /\ PageOK(p) /\ (Uncrossed => Bound(p, card))
  BY InvParts DEF BrowserOK, Bindings
<1>2. p.at = "closed" => ~Uncrossed
  BY <1>1 DEF Bound, Saved
<1>3. PageOK(q) /\ q.at = p.at /\ (Uncrossed => Bound(q, card'))
  BY <1>1, ClearedPage DEF Bound, Saved
<1> HIDE DEF q
<1>4. Show(w, q) /\ card' = None /\ troubles' = troubles
      /\ queue' \in SUBSET Sent /\ confirmed' \in SUBSET Quick /\ ServerInv'
  BY InvParts, SameServer DEF BrowserOK, Saved, q
<1>5. QED
  BY <1>2, <1>3, <1>4, TabStep DEF Maybe
LEMMA NotSavedInv ==
  ASSUME Inv, NEW w \in Tabs, NotSaved(w)
  PROVE  Inv'
<1> DEFINE p == page[w]
           q == [p EXCEPT !.sending = "no", !.form = None]
<1>1. p \in Page /\ PageOK(p) /\ (Uncrossed => Bound(p, card))
  BY InvParts DEF BrowserOK, Bindings
<1>2. q \in Page /\ q.at = p.at /\ q.toasts = p.toasts /\ q.base = p.base /\ q.lock = p.lock
      /\ q.vehicle = p.vehicle /\ q.sending = "no" /\ q.form = None
  BY <1>1 DEF Page, Maybe
<1>3. Show(w, q) /\ OnPage(w)
  BY DEF NotSaved
<1> HIDE DEF q
<1>4. PageOK(q) /\ (Uncrossed => Bound(q, card))
  BY <1>1, <1>2 DEF PageOK, Bound
<1>5. QED
  BY <1>2, <1>3, <1>4, PageStep

(* The service worker has no page. *)
LEMMA FlushInv ==
  ASSUME Inv, FlushSaves \/ FlushDrops
  PROVE  Inv'
<1>1. ServerInv'
  <2>1. ASSUME FlushSaves
        PROVE  ServerInv'
    <3>1. PICK item \in queue : Save(item.vehicle, item.rows, item.form)
      BY <2>1 DEF FlushSaves
    <3>2. item.rows \in SUBSET Items /\ item.form \in Form
      BY <3>1, InvParts DEF BrowserOK, Sent
    <3>3. QED
      BY <3>1, <3>2, InvParts, SaveInv
  <2>2. ASSUME FlushDrops
        PROVE  ServerInv'
    BY <2>2, InvParts, SameServer DEF FlushDrops
  <2>3. QED
    BY <2>1, <2>2
<1>2. BrowserOK'
  BY InvParts DEF BrowserOK, FlushSaves, FlushDrops
<1>3. Bindings'
  BY InvParts DEF Bindings, OneTab, Uncrossed, FlushSaves, FlushDrops
<1>4. QED
  BY <1>1, <1>2, <1>3 DEF Inv, Consistent, TypeOK, ServerInv, BrowserOK, PageOK

LEMMA ServerAloneInv ==
  ASSUME Inv, Stocktaking, UNCHANGED browser
  PROVE  Inv'
<1>1. ServerInv'
  BY InvParts, StocktakingInv
<1>2. BrowserOK'
  BY InvParts DEF BrowserOK, browser
<1>3. Bindings'
  BY InvParts DEF Bindings, OneTab, Uncrossed, browser
<1>4. QED
  BY <1>1, <1>2, <1>3 DEF Inv, Consistent, TypeOK, ServerInv, BrowserOK, PageOK

-----------------------------------------------------------------------------
(* The card. *)

LEMMA ToastsPage ==
  ASSUME Inv, NEW w \in Tabs, NEW S \in SUBSET Quick
  PROVE  LET q == [page[w] EXCEPT !.toasts = S]
         IN  /\ PageOK(q) /\ q.at = page[w].at
             /\ \A c : page[w].at = "dashboard" /\ Bound(page[w], card) => Bound(q, c)
             /\ S \subseteq page[w].toasts /\ Bound(page[w], card) => Bound(q, card)
<1> DEFINE p == page[w]
           q == [p EXCEPT !.toasts = S]
<1>1. p \in Page /\ PageOK(p)
  BY InvParts DEF BrowserOK
<1>2. q \in Page /\ q.at = p.at /\ q.toasts = S /\ q.base = p.base /\ q.lock = p.lock
      /\ q.vehicle = p.vehicle /\ q.sending = p.sending /\ q.form = p.form
  BY <1>1 DEF Page
<1> HIDE DEF q
<1>3. PageOK(q) /\ q.at = p.at
  BY <1>1, <1>2 DEF PageOK
<1>4. \A c : p.at = "dashboard" /\ Bound(p, card) => Bound(q, c)
  BY <1>2 DEF Bound
<1>5. S \subseteq p.toasts /\ Bound(p, card) => Bound(q, card)
  BY <1>2 DEF Bound
<1>6. QED
  BY <1>3, <1>4, <1>5 DEF q

LEMMA ConfirmInv ==
  ASSUME Inv, NEW w \in Tabs, Confirm(w)
  PROVE  Inv'
<1>1. PICK i \in Quick \ confirmed, v \in vehicles :
        /\ card' = [trip |-> i, vehicle |-> v]
        /\ confirmed' = confirmed \cup {i}
        /\ Show(w, [page[w] EXCEPT !.toasts = page[w].toasts \cup {i}])
  <2>1. page[w] \in Page
    BY InvParts DEF BrowserOK
  <2>2. QED
    BY <2>1 DEF Confirm, Page
<1> DEFINE q == [page[w] EXCEPT !.toasts = page[w].toasts \cup {i}]
<1>2. page[w].toasts \cup {i} \in SUBSET Quick /\ page[w].at = "dashboard"
  BY <1>1, InvParts DEF BrowserOK, Page, Confirm
<1>3. PageOK(q) /\ q.at = page[w].at /\ (Uncrossed => Bound(q, card'))
  BY <1>2, InvParts, ToastsPage DEF Bindings
<1> HIDE DEF q
<1>4. Show(w, q)
  BY <1>1 DEF q
<1>5. card' \in Maybe(Card)
  BY <1>1, InvParts DEF Card, Maybe, ServerInv, ServerTypeOK
<1>6. queue' \in SUBSET Sent /\ confirmed' \in SUBSET Quick /\ troubles' = troubles /\ ServerInv'
  BY <1>1, InvParts, SameServer DEF BrowserOK, Confirm
<1>7. QED
  BY <1>2, <1>3, <1>4, <1>5, <1>6, TabStep

(* The toast of quick trip i goes from page w. *)
LEMMA ToastGoes ==
  ASSUME Inv, NEW w \in Tabs, Undo(w) \/ UndoExpires(w)
  PROVE  \E i \in page[w].toasts :
           /\ Show(w, [page[w] EXCEPT !.toasts = page[w].toasts \ {i}])
           /\ Undo(w) /\ "undo of earlier" \notin troubles =>
                card \in Maybe([trip : {i}, vehicle : Vehicles])
<1>1. page[w] \in Page
  BY InvParts DEF BrowserOK
<1>2. QED
  BY <1>1 DEF Undo, UndoExpires, Page

LEMMA UndoInv ==
  ASSUME Inv, NEW w \in Tabs, Undo(w)
  PROVE  Inv'
<1>1. PICK i \in page[w].toasts : Show(w, [page[w] EXCEPT !.toasts = page[w].toasts \ {i}])
  BY ToastGoes
<1> DEFINE q == [page[w] EXCEPT !.toasts = page[w].toasts \ {i}]
<1>2. page[w].toasts \ {i} \in SUBSET Quick
  BY InvParts DEF BrowserOK, Page
<1>3. Uncrossed => page[w].at = "dashboard"
  BY <1>1, InvParts DEF Bindings, Bound
<1>4. PageOK(q) /\ q.at = page[w].at /\ (Uncrossed => Bound(q, card'))
  BY <1>2, <1>3, InvParts, ToastsPage DEF Bindings
<1> HIDE DEF q
<1>5. Show(w, q) /\ card' \in Maybe(Card) /\ queue' \in SUBSET Sent /\ confirmed' \in SUBSET Quick
      /\ troubles' = troubles /\ ServerInv'
  BY <1>1, InvParts, SameServer DEF BrowserOK, Undo, Maybe, q
<1>6. QED
  BY <1>3, <1>4, <1>5, TabStep

LEMMA UndoExpiresInv ==
  ASSUME Inv, NEW w \in Tabs, UndoExpires(w)
  PROVE  Inv'
<1>1. PICK i \in page[w].toasts : Show(w, [page[w] EXCEPT !.toasts = page[w].toasts \ {i}])
  BY ToastGoes
<1> DEFINE q == [page[w] EXCEPT !.toasts = page[w].toasts \ {i}]
<1>2. page[w].toasts \ {i} \in SUBSET Quick
  BY InvParts DEF BrowserOK, Page
<1>3. PageOK(q) /\ q.at = page[w].at /\ (Uncrossed => Bound(q, card))
  BY <1>2, InvParts, ToastsPage DEF Bindings
<1> HIDE DEF q
<1>4. Show(w, q) /\ OnPage(w)
  BY <1>1 DEF UndoExpires, q
<1>5. QED
  BY <1>3, <1>4, PageStep

-----------------------------------------------------------------------------
LEMMA InitInv == Init => Inv
<1> SUFFICES ASSUME Init
             PROVE  Inv
  OBVIOUS
<1>1. ServerInv
  BY ServerInitInv DEF Init
<1>2. \A w \in Tabs : page[w] = Blank
  BY DEF Init
<1>3. BrowserOK
  BY <1>2, BlankPage DEF Init, BrowserOK, PageOK, Maybe
<1>4. Bindings
  BY <1>2, BlankPage DEF Bindings, OneTab, Bound
<1>5. QED
  BY <1>1, <1>3, <1>4, InvParts

LEMMA NextInv == Inv /\ [Next]_vars => Inv'
<1>1. ASSUME Inv, UNCHANGED vars
      PROVE  Inv'
  <2>1. ServerInv'
    BY <1>1, InvParts, SameServer DEF vars
  <2>2. BrowserOK' /\ Bindings'
    BY <1>1, InvParts DEF vars, browser, BrowserOK, Bindings, OneTab, Uncrossed
  <2>3. QED
    BY <2>1, <2>2 DEF Inv, Consistent, TypeOK, ServerInv, BrowserOK, PageOK
<1>2. ASSUME Inv, Next
      PROVE  Inv'
  BY <1>2, ServerAloneInv, FlushInv, OpenDashboardInv, OpenFormInv, ConfirmInv, UndoInv,
     UndoExpiresInv, ChangeVehicleInv, AnswerInv, RowsInv, SubmitInv, SubmitOfflineInv,
     ServerSavesInv, ServerRefusesInv, SavedInv, NotSavedInv DEF Next
<1>3. QED
  BY <1>1, <1>2

(* The inductive invariant. *)
THEOREM Invariance == Spec => []Inv
  BY InitInv, NextInv, PTL DEF Spec

(* Whatever is deleted under whatever, no row refers to one that is gone,  *)
(* and every variable has its type.                                        *)
THEOREM Consistency == Spec => []Consistent
  BY Invariance, PTL DEF Inv

-----------------------------------------------------------------------------
(* Only a form that is sent, a confirmation and an undo touch the card. *)
LEMMA CardTouched ==
  ASSUME Next, card' # card
  PROVE  \E w \in Tabs : SubmitOffline(w) \/ Saved(w) \/ Confirm(w) \/ Undo(w)
  BY DEF Next, browser, FlushSaves, FlushDrops, OpenDashboard, OpenForm, Load, UndoExpires,
     ChangeVehicle, Answer, PickRow, DropRow, Submit, ServerSaves, ServerRefuses, NotSaved, OnPage

LEMMA CardStep ==
  ASSUME Inv, Next, card # None, card' # card, Uncrossed
  PROVE  \/ card' # None /\ card'.trip \notin confirmed
         \/ \E w \in Tabs : card.trip \in page[w].toasts \ page'[w].toasts
         \/ \E w \in Tabs : Completes(w)
<1>1. PICK w \in Tabs : SubmitOffline(w) \/ Saved(w) \/ Confirm(w) \/ Undo(w)
  BY CardTouched
<1>2. page[w] \in Page /\ PageOK(page[w]) /\ Bound(page[w], card) /\ page \in [Tabs -> Page]
  BY InvParts DEF BrowserOK, Bindings
<1>3. card \in Card
  BY InvParts DEF BrowserOK, Maybe
<1>4. card.trip # None /\ card.vehicle # None
  BY <1>3, TripFormAssumption, EquipmentAssumption DEF Card
<1>5. CASE Confirm(w)
  <2>1. PICK i \in Quick \ confirmed, v \in vehicles : card' = [trip |-> i, vehicle |-> v]
    BY <1>5 DEF Confirm
  <2>2. [trip |-> i, vehicle |-> v] \in Card
    BY <2>1, InvParts DEF Card, ServerInv, ServerTypeOK
  <2>3. QED
    BY <2>1, <2>2, TripFormAssumption
<1>6. CASE Undo(w)
  <2>1. PICK i \in page[w].toasts :
          /\ Show(w, [page[w] EXCEPT !.toasts = page[w].toasts \ {i}])
          /\ Undo(w) /\ "undo of earlier" \notin troubles =>
               card \in Maybe([trip : {i}, vehicle : Vehicles])
    BY <1>6, ToastGoes
  <2>2. card.trip = i
    BY <1>6, <2>1, <1>3, TripFormAssumption DEF Uncrossed, Crossed, Maybe
  <2>3. page'[w].toasts = page[w].toasts \ {i}
    BY <1>2, <2>1 DEF Show, Page
  <2>4. QED
    BY <2>1, <2>2, <2>3
<1>7. CASE Saved(w) \/ SubmitOffline(w)
  <2>1. page[w].sending \in {"no", "saved"} /\ page[w].at = "form"
    BY <1>2, <1>7 DEF Saved, SubmitOffline, OnForm, Bound
  <2>2. page'[w] = Cleared(page[w])
    BY <1>2, <1>7 DEF Saved, SubmitOffline, Show
  <2>3. page[w].base = card.trip /\ page'[w].base = None
    BY <1>2, <2>1, <2>2, ClearedPage DEF Bound
  <2>4. card.vehicle = IF page[w].form = None THEN page[w].vehicle ELSE page[w].form.vehicle
    <3>1. page[w].form = None => page[w].vehicle # None
      BY <1>2, <1>7 DEF Saved, SubmitOffline, PageOK
    <3>2. QED
      BY <1>2, <1>4, <2>1, <3>1 DEF Bound
  <2>5. QED
    BY <2>1, <2>3, <2>4 DEF Completes
<1>8. QED
  BY <1>1, <1>5, <1>6, <1>7

(* The card is put away with its own trip only. *)
THEOREM CardStays == Spec => CardKept
<1>1. Inv /\ [Next]_vars =>
        [card # None /\ card' # card /\ troubles \cap Crossed = {} =>
           \/ card' # None /\ card'.trip \notin confirmed
           \/ \E w \in Tabs : card.trip \in page[w].toasts \ page'[w].toasts
           \/ \E w \in Tabs : Completes(w)]_vars
  BY CardStep DEF Uncrossed, vars, browser
<1>2. QED
  BY <1>1, Invariance, PTL DEF Spec, CardKept
-----------------------------------------------------------------------------
(* What forms say of the equipment they list: all that was picked online,  *)
(* some of it from the queue; and, unless lists are mixed, equipment of    *)
(* the vehicle they name, for as long as it is there.                      *)
Faithful(f) == f # None => f.rows = f.form.rows

Fits(S, v) == \A e \in S : e \in issued /\ (InStock(e) => equipment[e].vehicle = v)

Unmixed == troubles \cap Mixed = {}

PageFits(p) ==
  /\ p.default = None
  /\ p.vehicle # None => Fits(p.options \cup p.rows, p.vehicle)
  /\ p.form # None => Fits(p.form.rows, p.form.vehicle)

Forms ==
  /\ \A w \in Tabs : Faithful(page[w].form)
  /\ \A item \in queue : item.form.offline /\ item.rows \subseteq item.form.rows

Fitting ==
  /\ \A u \in used : equipment[u[2]].vehicle = trips[u[1]]
  /\ \A w \in Tabs : PageFits(page[w])
  /\ \A item \in queue : Fits(item.rows, item.vehicle)

(* Tab w's page becomes q, which is as good as it was. *)
Kept(w, q) == /\ Show(w, q)
              /\ Faithful(page[w].form) => Faithful(q.form)
              /\ Unmixed /\ PageFits(page[w]) => PageFits(q)

(* Nothing new is offered, picked or sent. *)
LEMMA NothingNew ==
  ASSUME NEW w \in Tabs, NEW q, Show(w, q), q.form \in {None, page[w].form},
         Unmixed /\ page[w].default = None =>
           /\ q.default = None
           /\ q.vehicle # None =>
                \/ q.options \cup q.rows = {}
                \/ /\ q.vehicle = page[w].vehicle
                   /\ q.options \cup q.rows \subseteq page[w].options \cup page[w].rows
  PROVE  Kept(w, q)
  BY DEF Kept, Faithful, PageFits, Fits

LEMMA PageTyped ==
  ASSUME Inv, NEW w \in Tabs
  PROVE  page[w] \in Page
  BY InvParts DEF BrowserOK

LEMMA SmallStepsKeep ==
  ASSUME Inv, NEW w \in Tabs,
         \/ Confirm(w) \/ Undo(w) \/ UndoExpires(w) \/ PickRow(w) \/ DropRow(w)
         \/ ServerSaves(w) \/ ServerRefuses(w) \/ NotSaved(w)
  PROVE  \E q : Kept(w, q)
<1> DEFINE p == page[w]
<1>1. p \in Page
  BY PageTyped
<1>2. ASSUME NEW S, Show(w, [p EXCEPT !.toasts = S])
      PROVE  \E q : Kept(w, q)
  <2> DEFINE q == [p EXCEPT !.toasts = S]
  <2>1. q.form = p.form /\ q.default = p.default /\ q.vehicle = p.vehicle
        /\ q.options = p.options /\ q.rows = p.rows
    BY <1>1 DEF Page
  <2>2. Kept(w, q)
    <3> HIDE DEF q
    <3>1. Show(w, q)
      BY <1>2 DEF q
    <3>2. QED
      BY <2>1, <3>1, NothingNew
  <2>3. QED
    BY <2>2
<1>3. ASSUME NEW S, S \subseteq p.options \cup p.rows, Show(w, [p EXCEPT !.rows = S])
      PROVE  \E q : Kept(w, q)
  <2> DEFINE q == [p EXCEPT !.rows = S]
  <2>1. q.form = p.form /\ q.default = p.default /\ q.vehicle = p.vehicle
        /\ q.options = p.options /\ q.rows = S
    BY <1>1 DEF Page
  <2>2. Kept(w, q)
    <3> HIDE DEF q
    <3>1. Show(w, q)
      BY <1>3 DEF q
    <3>2. QED
      BY <1>3, <2>1, <3>1, NothingNew
  <2>3. QED
    BY <2>2
<1>4. ASSUME NEW s, NEW f \in {None, p.form}, Show(w, [p EXCEPT !.sending = s, !.form = f])
      PROVE  \E q : Kept(w, q)
  <2> DEFINE q == [p EXCEPT !.sending = s, !.form = f]
  <2>1. q.form = f /\ q.default = p.default /\ q.vehicle = p.vehicle
        /\ q.options = p.options /\ q.rows = p.rows
    BY <1>1 DEF Page
  <2>2. Kept(w, q)
    <3> HIDE DEF q
    <3>1. Show(w, q)
      BY <1>4 DEF q
    <3>2. QED
      BY <2>1, <3>1, NothingNew
  <2>3. QED
    BY <2>2
<1>5. ASSUME NEW s
      PROVE  [p EXCEPT !.sending = s] = [p EXCEPT !.sending = s, !.form = p.form]
  BY <1>1 DEF Page
<1>6. CASE Confirm(w) \/ Undo(w) \/ UndoExpires(w)
  BY <1>2, <1>6 DEF Confirm, Undo, UndoExpires
<1>7. CASE PickRow(w)
  <2>1. PICK e \in p.options \ p.rows : Show(w, [p EXCEPT !.rows = p.rows \cup {e}])
    BY <1>1, <1>7 DEF PickRow, Page
  <2>2. QED
    BY <1>3, <2>1
<1>8. CASE DropRow(w)
  <2>1. PICK e \in p.rows : Show(w, [p EXCEPT !.rows = p.rows \ {e}])
    BY <1>1, <1>8 DEF DropRow, Page
  <2>2. QED
    BY <1>3, <2>1
<1>9. CASE ServerSaves(w) \/ ServerRefuses(w)
  BY <1>4, <1>5, <1>9 DEF ServerSaves, ServerRefuses
<1>10. CASE NotSaved(w)
  BY <1>4, <1>10 DEF NotSaved
<1>11. QED
  BY <1>6, <1>7, <1>8, <1>9, <1>10

LEMMA ClearedKeeps ==
  ASSUME Inv, NEW w \in Tabs, Show(w, Cleared(page[w]))
  PROVE  \E q : Kept(w, q)
<1> DEFINE q == Cleared(page[w])
<1>1. q.vehicle = page[w].default /\ q.default = page[w].default /\ q.form = None /\ Show(w, q)
  BY PageTyped, ClearedPage
<1> HIDE DEF q
<1>2. Kept(w, q)
  BY <1>1, NothingNew
<1>3. QED
  BY <1>2

LEMMA ChangeVehicleKeeps ==
  ASSUME Inv, NEW w \in Tabs, ChangeVehicle(w)
  PROVE  \E q : Kept(w, q)
<1> DEFINE p == page[w]
<1>1. p \in Page
  BY PageTyped
<1>2. PICK v \in Maybe(p.choices) : Show(w, [LoadEquipment(p, v) EXCEPT !.vehicle = Settled(p, v)])
  BY DEF ChangeVehicle
<1> DEFINE l == LoadEquipment(p, v)
           q == [l EXCEPT !.vehicle = Settled(p, v)]
<1>3. v \in Maybe(Vehicles)
  BY <1>1, <1>2 DEF Page, Maybe
<1>4. l \in Page /\ l.default = p.default /\ l.form = p.form /\ l.options = {} /\ l.rows = {}
  BY <1>1, <1>3, LoadedPage
<1> HIDE DEF l
<1>5. q.default = l.default /\ q.form = l.form /\ q.options = {} /\ q.rows = {}
  BY <1>4 DEF Page
<1>6. Show(w, q)
  BY <1>2 DEF l
<1> HIDE DEF q
<1>7. Kept(w, q)
  BY <1>4, <1>5, <1>6, NothingNew
<1>8. QED
  BY <1>7

(* The answer that comes is for the vehicle now chosen. *)
LEMMA AnswerKeeps ==
  ASSUME Inv, NEW w \in Tabs, Answer(w)
  PROVE  \E q : Kept(w, q)
<1> DEFINE p == page[w]
<1>1. p \in Page
  BY PageTyped
<1>2. PICK i \in DOMAIN p.asked :
        /\ "late answer" \notin troubles => p.asked[i] = p.vehicle
        /\ \E offered \in {StockOf(p.asked[i]), {}} :
             Show(w, [p EXCEPT !.asked = RemoveAt(@, i), !.options = offered, !.rows = {}])
  BY DEF Answer
<1>3. PICK offered \in {StockOf(p.asked[i]), {}} :
        Show(w, [p EXCEPT !.asked = RemoveAt(@, i), !.options = offered, !.rows = {}])
  BY <1>2
<1> DEFINE q == [p EXCEPT !.asked = RemoveAt(@, i), !.options = offered, !.rows = {}]
<1>4. q.default = p.default /\ q.form = p.form /\ q.vehicle = p.vehicle
      /\ q.options = offered /\ q.rows = {} /\ Show(w, q)
  BY <1>1, <1>3 DEF Page
<1>5. Unmixed => Fits(offered, p.vehicle)
  BY <1>2, InvParts DEF Unmixed, Mixed, Fits, StockOf, ServerInv, References
<1> HIDE DEF q
<1>6. Kept(w, q)
  BY <1>4, <1>5 DEF Kept, PageFits
<1>7. QED
  BY <1>6

LEMMA SubmitKeeps ==
  ASSUME Inv, NEW w \in Tabs, Submit(w)
  PROVE  \E q : Kept(w, q)
<1> DEFINE p == page[w]
           f == [vehicle |-> p.vehicle, rows |-> p.rows, form |-> [rows |-> p.rows, offline |-> FALSE]]
           q == [p EXCEPT !.sending = "sent", !.form = f]
<1>1. p \in Page /\ p.vehicle # None
  BY PageTyped DEF Submit
<1>2. Show(w, q)
  BY DEF Submit, Payload
<1>3. f.vehicle = p.vehicle /\ f.rows = p.rows /\ f.form.rows = p.rows
  OBVIOUS
<1> HIDE DEF f
<1>4. q.default = p.default /\ q.form = f /\ q.vehicle = p.vehicle
      /\ q.options = p.options /\ q.rows = p.rows
  BY <1>1 DEF Page
<1> HIDE DEF q
<1>5. Kept(w, q)
  BY <1>1, <1>2, <1>3, <1>4 DEF Kept, Faithful, PageFits, Fits
<1>6. QED
  BY <1>5
LEMMA OpenDashboardKeeps ==
  ASSUME Inv, NEW w \in Tabs, OpenDashboard(w)
  PROVE  \E q : Kept(w, q)
<1> DEFINE q == [Blank EXCEPT !.at = "dashboard"]
<1>1. q.default = None /\ q.form = None /\ q.vehicle = None /\ Show(w, q)
  BY DEF OpenDashboard, Blank
<1> HIDE DEF q
<1>2. Kept(w, q)
  BY <1>1 DEF Kept, Faithful, PageFits
<1>3. QED
  BY <1>2

(* A page that has just been loaded offers nothing yet. *)
LEMMA OpenFormKeeps ==
  ASSUME Inv, NEW w \in Tabs, OpenForm(w)
  PROVE  \E q : Kept(w, q)
<1>1. PICK wanted \in Maybe(Vehicles), restored \in Maybe(vehicles), add \in BOOLEAN :
        LET default == IF wanted \in vehicles THEN wanted ELSE None
            fresh == [Blank EXCEPT !.at = "form", !.choices = vehicles, !.default = default]
            first == [LoadEquipment(fresh, restored) EXCEPT !.vehicle = restored]
            again == IF add THEN [LoadEquipment(first, wanted) EXCEPT !.vehicle = default]
                            ELSE first
        IN  /\ "preselected" \notin troubles => wanted = None
            /\ Show(w, Prefilled(again))
  BY DEF OpenForm
<1> DEFINE default == IF wanted \in vehicles THEN wanted ELSE None
           fresh == [Blank EXCEPT !.at = "form", !.choices = vehicles, !.default = default]
           first == [LoadEquipment(fresh, restored) EXCEPT !.vehicle = restored]
           again == IF add THEN [LoadEquipment(first, wanted) EXCEPT !.vehicle = default]
                           ELSE first
           Empty(p) == p \in Page /\ p.options = {} /\ p.rows = {} /\ p.form = None
                       /\ p.default = default
<1>2. vehicles \subseteq Vehicles /\ card \in Maybe(Card)
  BY InvParts DEF ServerInv, ServerTypeOK, BrowserOK
<1>3. wanted \in Maybe(Vehicles) /\ default \in Maybe(Vehicles) /\ restored \in Maybe(Vehicles)
  BY <1>2 DEF Maybe
<1> HIDE DEF default
<1>4. Empty(fresh)
  <2>1. Blank \in Page /\ Blank.options = {} /\ Blank.rows = {} /\ Blank.form = None
    BY BlankPage DEF Blank, PageOK
  <2>2. QED
    BY <1>2, <1>3, <2>1 DEF Page
<1>5. ASSUME NEW p, Empty(p), NEW v \in Maybe(Vehicles), NEW u \in Maybe(Vehicles)
      PROVE  Empty([LoadEquipment(p, v) EXCEPT !.vehicle = u])
  <2> DEFINE l == LoadEquipment(p, v)
  <2>1. Empty(l)
    BY <1>5, LoadedPage
  <2> HIDE DEF l
  <2>2. QED
    BY <2>1, <1>5 DEF Page, l
<1> HIDE DEF fresh
<1>6. Empty(first)
  BY <1>3, <1>4, <1>5
<1> HIDE DEF first
<1>7. Empty(again)
  BY <1>3, <1>5, <1>6
<1> HIDE DEF again
<1>8. Empty(Prefilled(again))
  <2>1. CASE card = None
    BY <1>7, <2>1 DEF Prefilled
  <2>2. CASE card # None
    <3> DEFINE q == [again EXCEPT !.vehicle = Offered(again, card.vehicle),
                                  !.lock = card.vehicle, !.base = card.trip]
    <3>1. card.vehicle \in Vehicles /\ card.trip \in Quick
      BY <1>2, <2>2 DEF Maybe, Card
    <3>2. Empty(q)
      BY <1>7, <3>1 DEF Page, Offered, Maybe
    <3> HIDE DEF q
    <3>3. Empty(LoadEquipment(q, card.vehicle))
      BY <3>1, <3>2, LoadedPage DEF Maybe
    <3>4. QED
      BY <2>2, <3>3 DEF Prefilled, q
  <2>3. QED
    BY <2>1, <2>2
<1>9. Show(w, Prefilled(again)) /\ (Unmixed => default = None)
  <2>1. Show(w, Prefilled(again))
    BY <1>1 DEF again, first, fresh, default
  <2>2. Unmixed => wanted = None
    BY <1>1 DEF Unmixed, Mixed
  <2>3. QED
    BY <2>1, <2>2 DEF default
<1>10. Kept(w, Prefilled(again))
  BY <1>8, <1>9 DEF Kept, Faithful, PageFits, Fits
<1>11. QED
  BY <1>10

LEMMA PagesKeep ==
  ASSUME Inv, Next, NEW x \in Tabs
  PROVE  /\ Faithful(page[x].form) => Faithful(page'[x].form)
         /\ Unmixed /\ PageFits(page[x]) => PageFits(page'[x])
<1>1. ASSUME NEW w \in Tabs, NEW q, Kept(w, q)
      PROVE  /\ Faithful(page[x].form) => Faithful(page'[x].form)
             /\ Unmixed /\ PageFits(page[x]) => PageFits(page'[x])
  <2>1. page' = [page EXCEPT ![w] = q] /\ page \in [Tabs -> Page]
    BY <1>1, InvParts DEF Kept, Show, BrowserOK
  <2>2. CASE x = w
    <3>1. page'[x] = q
      BY <2>1, <2>2
    <3>2. QED
      BY <1>1, <2>2, <3>1 DEF Kept
  <2>3. CASE x # w
    <3>1. page'[x] = page[x]
      BY <2>1, <2>3
    <3>2. QED
      BY <3>1
  <2>4. QED
    BY <2>2, <2>3
<1>2. CASE page' = page
  BY <1>2
<1>3. CASE \E w \in Tabs : \E q : Kept(w, q)
  BY <1>1, <1>3
<1>4. page' = page \/ \E w \in Tabs : \E q : Kept(w, q)
  <2>1. CASE FlushSaves \/ FlushDrops \/ (Stocktaking /\ UNCHANGED browser)
    BY <2>1 DEF FlushSaves, FlushDrops, browser
  <2>2. ASSUME NEW w \in Tabs, SubmitOffline(w) \/ Saved(w)
        PROVE  page' = page \/ \E q : Kept(w, q)
    BY <2>2, ClearedKeeps DEF SubmitOffline, Saved
  <2>3. QED
    BY <2>1, <2>2, SmallStepsKeep, ChangeVehicleKeeps, AnswerKeeps, SubmitKeeps,
       OpenDashboardKeeps, OpenFormKeeps DEF Next
<1>5. QED
  BY <1>2, <1>3, <1>4

LEMMA QueueKeeps ==
  ASSUME Inv, Forms, Next, NEW item \in queue'
  PROVE  /\ item.form.offline /\ item.rows \subseteq item.form.rows
         /\ Unmixed /\ Fitting => Fits(item.rows, item.vehicle)
<1>1. CASE item \in queue
  BY <1>1 DEF Forms, Fitting
<1>2. CASE item \notin queue
  <2>1. PICK w \in Tabs : SubmitOffline(w)
    BY <1>2 DEF Next, browser, FlushSaves, FlushDrops, OpenDashboard, OpenForm, Load, Confirm, Undo,
       UndoExpires, ChangeVehicle, Answer, PickRow, DropRow, Submit, ServerSaves, ServerRefuses,
       Saved, NotSaved, OnPage
  <2>2. PICK rows \in Payload(page[w].rows, TRUE) :
          item = [vehicle |-> page[w].vehicle, rows |-> rows,
                  form |-> [rows |-> page[w].rows, offline |-> TRUE]]
    BY <2>1 DEF SubmitOffline
  <2>3. rows \subseteq page[w].rows /\ page[w].vehicle # None
    BY <2>1 DEF Payload, SubmitOffline
  <2>4. QED
    BY <2>2, <2>3 DEF Fitting, PageFits, Fits
<1>3. QED
  BY <1>1, <1>2

LEMMA NextForms == Inv /\ Forms /\ [Next]_vars => Forms'
<1>1. ASSUME Forms, UNCHANGED vars
      PROVE  Forms'
  BY <1>1 DEF Forms, Faithful, vars, browser
<1>2. ASSUME Inv, Forms, Next
      PROVE  Forms'
  <2>1. \A x \in Tabs : Faithful(page'[x].form)
    BY <1>2, PagesKeep DEF Forms
  <2>2. \A item \in queue' : item.form.offline /\ item.rows \subseteq item.form.rows
    BY <1>2, QueueKeeps
  <2>3. QED
    BY <2>1, <2>2 DEF Forms, Faithful
<1>3. QED
  BY <1>1, <1>2

LEMMA InitForms == Init => Forms
<1> SUFFICES ASSUME Init
             PROVE  Forms
  OBVIOUS
<1>1. \A w \in Tabs : page[w].form = None
  BY DEF Init, Blank
<1>2. QED
  BY <1>1 DEF Init, Forms, Faithful

-----------------------------------------------------------------------------
(* A saved form is one of Equipment's. *)
LEMMA SaveOfForm ==
  ASSUME Inv, Forms
  PROVE  /\ \A w \in Tabs : ServerSaves(w) =>
              LET f == page[w].form
              IN  /\ f \in Sent /\ f.rows = f.form.rows
                  /\ Save(f.vehicle, f.rows, f.form)
         /\ FlushSaves => \E item \in queue :
              /\ item \in Sent /\ item.form.offline /\ item.rows \subseteq item.form.rows
              /\ Save(item.vehicle, item.rows, item.form)
<1>1. ASSUME NEW w \in Tabs, ServerSaves(w)
      PROVE  page[w].form \in Sent /\ page[w].form.rows = page[w].form.form.rows
  <2>1. page[w].form \in Sent
    BY <1>1, SentForm DEF ServerSaves
  <2>2. page[w].form # None
    BY <2>1, TripFormAssumption
  <2>3. QED
    BY <2>1, <2>2 DEF Forms, Faithful
<1>2. ASSUME NEW item \in queue
      PROVE  item \in Sent /\ item.form.offline /\ item.rows \subseteq item.form.rows
  BY InvParts DEF BrowserOK, Forms
<1>3. QED
  BY <1>1, <1>2 DEF ServerSaves, FlushSaves

LEMMA ServerStep ==
  ASSUME Inv, Forms, [Next]_vars
  PROVE  [ServerNext]_server
<1>1. ASSUME NEW f \in Sent, Save(f.vehicle, f.rows, f.form), f.rows \subseteq f.form.rows,
             f.form.offline \/ f.rows = f.form.rows
      PROVE  ServerNext
  <2>1. f.vehicle \in Vehicles /\ f.form \in Form /\ f.rows \in SUBSET f.form.rows
    BY <1>1 DEF Sent
  <2>2. QED
    BY <1>1, <2>1 DEF ServerNext
<1>2. ASSUME NEW w \in Tabs, ServerSaves(w)
      PROVE  ServerNext
  BY <1>1, <1>2, SaveOfForm
<1>3. ASSUME FlushSaves
      PROVE  ServerNext
  BY <1>1, <1>3, SaveOfForm
<1>4. CASE Stocktaking \/ UNCHANGED vars
  BY <1>4 DEF ServerNext, vars
<1>5. ASSUME NEW w \in Tabs,
             \/ OpenDashboard(w) \/ OpenForm(w) \/ Confirm(w) \/ Undo(w) \/ UndoExpires(w)
             \/ ChangeVehicle(w) \/ Answer(w) \/ PickRow(w) \/ DropRow(w)
             \/ Submit(w) \/ SubmitOffline(w) \/ ServerRefuses(w) \/ Saved(w) \/ NotSaved(w)
      PROVE  UNCHANGED server
  BY <1>5 DEF OpenDashboard, OpenForm, Load, Confirm, Undo, UndoExpires, ChangeVehicle, Answer,
     PickRow, DropRow, Submit, SubmitOffline, ServerRefuses, Saved, NotSaved, OnPage
<1>6. CASE FlushDrops
  BY <1>6 DEF FlushDrops
<1>7. QED
  BY <1>2, <1>3, <1>4, <1>5, <1>6 DEF Next

LEMMA AlwaysForms == Spec => []Forms
  BY InitForms, NextForms, Invariance, PTL DEF Spec

(* The forms of the browser are forms of Equipment: TripForm implements it. *)
THEOREM ImplementsServer == Spec => ServerSpec
<1>1. Init => ServerInit
  BY DEF Init
<1>2. Inv /\ Forms /\ [Next]_vars => [ServerNext]_server
  BY ServerStep
<1>3. QED
  BY <1>1, <1>2, Invariance, AlwaysForms, PTL DEF Spec, ServerSpec

(* A trip has all the equipment its form listed but what has been deleted. *)
THEOREM WholeForms == Spec => []WholeTrips
  BY ImplementsServer, TripsWhole, PTL

-----------------------------------------------------------------------------
LEMMA UsedFits ==
  ASSUME Inv, Forms, Unmixed, Fitting, Next
  PROVE  \A u \in used' : equipment'[u[2]].vehicle = trips'[u[1]]
<1>1. ServerInv /\ ServerInv'
  BY InvParts, NextInv DEF Inv, Consistent, TypeOK, ServerInv
<1>2. \A e \in issued : Stays(e)
  BY <1>1, ItemsStay, ServerStep
<1>3. ASSUME NEW t \in Trips, TripStays(t), NEW e \in Items, <<t, e>> \in used'
      PROVE  equipment'[e].vehicle = trips'[t]
  <2>1. trips'[t] # None /\ InStock(e)'
    BY <1>1, <1>3 DEF ServerInv, References
  <2>2. <<t, e>> \in used /\ trips'[t] = trips[t]
    BY <1>3, <2>1 DEF TripStays
  <2>3. equipment[e].vehicle = trips[t]
    BY <2>2 DEF Fitting
  <2>4. e \in issued
    BY <1>1, <2>2 DEF ServerInv, References
  <2>5. QED
    BY <1>2, <2>1, <2>2, <2>3, <2>4 DEF Stays
<1>4. ASSUME NEW f \in Sent, Save(f.vehicle, f.rows, f.form), Fits(f.rows, f.vehicle),
             NEW t \in Trips, NEW e \in Items, <<t, e>> \in used'
      PROVE  equipment'[e].vehicle = trips'[t]
  <2>1. f.rows \in SUBSET Items /\ f.form \in Form
    BY DEF Sent
  <2>2. PICK s \in Trips : /\ SavedAs(s, f.vehicle, f.rows, f.form)
                           /\ \A r \in Trips \ {s} : TripStays(r)
    BY <1>1, <1>4, <2>1, SaveStays
  <2>3. CASE t = s
    BY <1>2, <1>4, <2>2, <2>3 DEF SavedAs, Fits, Stays
  <2>4. CASE t # s
    BY <1>3, <1>4, <2>2, <2>4
  <2>5. QED
    BY <2>3, <2>4
<1>5. ASSUME NEW t \in Trips, NEW e \in Items, <<t, e>> \in used'
      PROVE  equipment'[e].vehicle = trips'[t]
  <2>1. CASE Stocktaking \/ UNCHANGED server
    BY <1>1, <1>3, <1>5, <2>1, StocktakingStays
  <2>2. CASE FlushSaves
    <3>1. PICK item \in queue : item \in Sent /\ Save(item.vehicle, item.rows, item.form)
      BY <2>2, SaveOfForm
    <3>2. Fits(item.rows, item.vehicle)
      BY DEF Fitting
    <3>3. QED
      BY <1>4, <1>5, <3>1, <3>2
  <2>3. ASSUME NEW w \in Tabs, ServerSaves(w)
        PROVE  equipment'[e].vehicle = trips'[t]
    <3>1. page[w].form \in Sent /\ Save(page[w].form.vehicle, page[w].form.rows, page[w].form.form)
      BY <2>3, SaveOfForm
    <3>2. Fits(page[w].form.rows, page[w].form.vehicle)
      BY <3>1, TripFormAssumption DEF Fitting, PageFits
    <3>3. QED
      BY <1>4, <1>5, <3>1, <3>2
  <2>4. ASSUME NEW w \in Tabs,
               \/ OpenDashboard(w) \/ OpenForm(w) \/ Confirm(w) \/ Undo(w) \/ UndoExpires(w)
               \/ ChangeVehicle(w) \/ Answer(w) \/ PickRow(w) \/ DropRow(w)
               \/ Submit(w) \/ SubmitOffline(w) \/ ServerRefuses(w) \/ Saved(w) \/ NotSaved(w)
        PROVE  UNCHANGED server
    BY <2>4 DEF OpenDashboard, OpenForm, Load, Confirm, Undo, UndoExpires, ChangeVehicle, Answer,
       PickRow, DropRow, Submit, SubmitOffline, ServerRefuses, Saved, NotSaved, OnPage
  <2>5. FlushDrops => UNCHANGED server
    BY DEF FlushDrops
  <2>6. QED
    BY <2>1, <2>2, <2>3, <2>4, <2>5 DEF Next
<1>6. QED
  BY <1>1, <1>5 DEF ServerInv, ServerTypeOK

LEMMA NextFitting ==
  ASSUME Inv, Forms, Unmixed => Fitting, [Next]_vars
  PROVE  Unmixed' => Fitting'
<1>1. CASE UNCHANGED vars
  BY <1>1 DEF Unmixed, Fitting, PageFits, Fits, InStock, vars, server, browser
<1>2. CASE Next
  <2> SUFFICES ASSUME Unmixed'
               PROVE  Fitting'
    OBVIOUS
  <2>1. Unmixed /\ Fitting
    BY <1>2 DEF Unmixed, Next, browser, FlushSaves, FlushDrops, OpenDashboard, OpenForm, Load,
       Confirm, Undo, UndoExpires, ChangeVehicle, Answer, PickRow, DropRow, Submit,
       SubmitOffline, ServerSaves, ServerRefuses, Saved, NotSaved, OnPage
  <2>2. issued \subseteq issued' /\ \A e \in issued : Stays(e)
    BY InvParts, ItemsStay, ServerStep
  <2>3. \A x \in Tabs : PageFits(page[x])'
    <3>1. \A x \in Tabs : PageFits(page'[x])
      BY <1>2, <2>1, PagesKeep DEF Fitting
    <3>2. QED
      BY <2>2, <3>1 DEF PageFits, Fits, Stays
  <2>4. \A item \in queue' : Fits(item.rows, item.vehicle)'
    BY <1>2, <2>1, <2>2, QueueKeeps DEF Fits, Stays
  <2>5. QED
    BY <1>2, <2>1, <2>3, <2>4, UsedFits DEF Fitting
<1>3. QED
  BY <1>1, <1>2

(* Whoever starts with trips of their own vehicles' equipment keeps them.   *)
THEOREM OwnStays == Spec /\ OwnEquipment => []OwnEquipment
<1>1. Init /\ OwnEquipment => (Unmixed => Fitting)
  <2> SUFFICES ASSUME Init, OwnEquipment, Unmixed
               PROVE  Fitting
    OBVIOUS
  <2>1. \A w \in Tabs : PageFits(page[w])
    BY DEF Init, Blank, PageFits
  <2>2. QED
    BY <2>1 DEF Init, Fitting, OwnEquipment, Unmixed
<1>2. Inv /\ Forms /\ (Unmixed => Fitting) /\ [Next]_vars => (Unmixed' => Fitting')
  BY NextFitting
<1>3. (Unmixed => Fitting) => OwnEquipment
  BY DEF Unmixed, Fitting, OwnEquipment
<1>4. QED
  BY <1>1, <1>2, <1>3, Invariance, AlwaysForms, PTL DEF Spec
-----------------------------------------------------------------------------
(* How often a vehicle has a default name.  An administrator who preloads  *)
(* has read the names before; as long as nobody else has inserted since,    *)
(* the vehicle has a name he did not find only for a reason of its own.    *)

Copies(v, n) == {e \in StockOf(v) : equipment[e].name = n}

Count(v, n) == Cardinality(Copies(v, n))

(* What thread a has read is not known to be out of date. *)
Fresh(a) == admin[a].op = "preload" /\ ~admin[a].late

Few ==
  /\ \A v \in Vehicles, n \in Defaults : Count(v, n) <= 1 + excuses[v]
  /\ \A a \in Admins, v \in Vehicles : Fresh(a) /\ admin[a].vehicle = v =>
       \A n \in Missing(a) : Count(v, n) <= excuses[v]

(* A step adds a piece of the name only for a reason. *)
Modest(v, n) ==
  \/ Copies(v, n)' \subseteq Copies(v, n) /\ excuses'[v] >= excuses[v]
  \/ /\ \E x : Copies(v, n)' \subseteq Copies(v, n) \cup {x}
     /\ excuses'[v] >= excuses[v] + 1

(* Or because a thread knows that the vehicle has none without a reason.   *)
Filled(v, n) ==
  /\ \E a \in Admins : Fresh(a) /\ admin[a].vehicle = v /\ n \in Missing(a)
  /\ \E x : Copies(v, n)' \subseteq Copies(v, n) \cup {x}
  /\ excuses'[v] >= excuses[v]

LEMMA CountType ==
  /\ \A v, n : IsFiniteSet(Copies(v, n)) /\ Count(v, n) \in Nat
  /\ \A v, n : IsFiniteSet(Copies(v, n)') /\ Count(v, n)' \in Nat
<1>1. \A S \in SUBSET Items : IsFiniteSet(S) /\ Cardinality(S) \in Nat
  BY EquipmentAssumption, FS_Subset, FS_CardinalityType
<1>2. \A v, n : Copies(v, n) \in SUBSET Items /\ Copies(v, n)' \in SUBSET Items
  BY DEF Copies, StockOf
<1> QED
  BY <1>1, <1>2 DEF Count

LEMMA CountGrows ==
  ASSUME NEW v, NEW n
  PROVE  /\ Copies(v, n)' \subseteq Copies(v, n) => Count(v, n)' <= Count(v, n)
         /\ \A x : Copies(v, n)' \subseteq Copies(v, n) \cup {x} => Count(v, n)' <= Count(v, n) + 1
<1> DEFINE C == Copies(v, n)
           D == Copies(v, n)'
<1>1. IsFiniteSet(C) /\ Cardinality(C) \in Nat /\ IsFiniteSet(D) /\ Cardinality(D) \in Nat
  BY CountType DEF Count
<1>2. Count(v, n) = Cardinality(C) /\ Count(v, n)' = Cardinality(D)
  BY DEF Count
<1> HIDE DEF C, D
<1>3. D \subseteq C => Cardinality(D) <= Cardinality(C)
  BY <1>1, FS_Subset
<1>4. ASSUME NEW x, D \subseteq C \cup {x} PROVE Cardinality(D) <= Cardinality(C) + 1
  <2>1. /\ IsFiniteSet(C \cup {x})
        /\ Cardinality(C \cup {x}) = Cardinality(C) \/ Cardinality(C \cup {x}) = Cardinality(C) + 1
    BY <1>1, FS_AddElement
  <2>2. Cardinality(D) <= Cardinality(C \cup {x})
    BY <1>4, <2>1, FS_Subset
  <2> QED
    BY <1>1, <2>1, <2>2
<1> QED
  BY <1>2, <1>3, <1>4 DEF C, D

LEMMA ModestCount ==
  ASSUME ServerTypeOK, ServerTypeOK', NEW v \in Vehicles, NEW n, Modest(v, n), NEW k \in Nat,
         Count(v, n) <= k + excuses[v]
  PROVE  Count(v, n)' <= k + excuses'[v]
<1>1. excuses[v] \in Nat /\ excuses'[v] \in Nat /\ Count(v, n) \in Nat /\ Count(v, n)' \in Nat
  BY CountType DEF ServerTypeOK
<1>2. \/ Count(v, n)' <= Count(v, n) /\ excuses'[v] >= excuses[v]
      \/ Count(v, n)' <= Count(v, n) + 1 /\ excuses'[v] >= excuses[v] + 1
  BY CountGrows DEF Modest
<1> QED
  BY <1>1, <1>2

LEMMA FewStep ==
  ASSUME ServerInv, ServerInv', Few,
         \A v \in Vehicles, n \in Defaults : Modest(v, n) \/ Filled(v, n),
         \A b \in Admins, v \in Vehicles : Fresh(b)' /\ admin'[b].vehicle = v =>
           \/ admin'[b] = admin[b] /\ \A n \in Missing(b) : Modest(v, n)
           \/ \A n \in Missing(b)' : Copies(v, n)' = {}
  PROVE  Few'
<1>0. ServerTypeOK /\ ServerTypeOK'
  BY DEF ServerInv
<1>1. ASSUME NEW v \in Vehicles, NEW n \in Defaults
      PROVE  Count(v, n)' <= 1 + excuses'[v]
  <2>1. CASE Modest(v, n)
    <3>1. Count(v, n) <= 1 + excuses[v]
      BY DEF Few
    <3> QED
      BY <1>0, <2>1, <3>1, ModestCount
  <2>2. CASE Filled(v, n)
    <3>1. Count(v, n) <= excuses[v] /\ excuses'[v] >= excuses[v]
      BY <2>2 DEF Few, Filled
    <3>2. Count(v, n)' <= Count(v, n) + 1
      BY <2>2, CountGrows DEF Filled
    <3>3. excuses[v] \in Nat /\ excuses'[v] \in Nat /\ Count(v, n) \in Nat /\ Count(v, n)' \in Nat
      BY <1>0, CountType DEF ServerTypeOK
    <3> QED
      BY <3>1, <3>2, <3>3
  <2> QED
    BY <2>1, <2>2
<1>2. ASSUME NEW b \in Admins, NEW v \in Vehicles, Fresh(b)', admin'[b].vehicle = v,
             NEW n \in Missing(b)'
      PROVE  Count(v, n)' <= excuses'[v]
  <2>1. CASE admin'[b] = admin[b] /\ \A m \in Missing(b) : Modest(v, m)
    <3>1. Fresh(b) /\ n \in Missing(b) /\ admin[b].vehicle = v
      BY <1>2, <2>1 DEF Fresh, Missing
    <3>2. Count(v, n) <= 0 + excuses[v]
      <4>1. Count(v, n) <= excuses[v]
        BY <3>1 DEF Few
      <4> QED
        BY <1>0, <4>1 DEF ServerTypeOK
    <3>3. Count(v, n)' <= 0 + excuses'[v]
      BY <1>0, <2>1, <3>1, <3>2, ModestCount
    <3> QED
      BY <1>0, <3>3 DEF ServerTypeOK
  <2>2. CASE \A m \in Missing(b)' : Copies(v, m)' = {}
    <3>1. Count(v, n)' = 0
      BY <1>2, <2>2, FS_EmptySet DEF Count
    <3> QED
      BY <1>0, <3>1 DEF ServerTypeOK
  <2> QED
    BY <1>2, <2>1, <2>2
<1> QED
  BY <1>1, <1>2 DEF Few

(* Steps of other threads, which leave what b has read as it is. *)
LEMMA FewElsewhere ==
  ASSUME ServerInv, ServerInv', Few,
         \A v \in Vehicles, n \in Defaults : Modest(v, n),
         \A b \in Admins : Fresh(b)' => admin'[b] = admin[b]
  PROVE  Few'
<1>1. \A b \in Admins : Missing(b) \subseteq Defaults
  BY DEF Missing
<1> QED
  BY <1>1, FewStep

LEMMA StockSame ==
  ASSUME NEW v \in Vehicles, NEW n,
         \A e \in Items : equipment'[e] \in {equipment[e], None}, excuses' = excuses, ServerTypeOK
  PROVE  Modest(v, n)
<1>1. Copies(v, n)' \subseteq Copies(v, n)
  BY DEF Copies, StockOf, InStock
<1>2. excuses'[v] >= excuses[v]
  BY DEF ServerTypeOK
<1> QED
  BY <1>1, <1>2 DEF Modest

LEMMA ExcuseCounts ==
  ASSUME ServerTypeOK, NEW u \in Vehicles, NEW name, Excuse(u, name)
  PROVE  \A v \in Vehicles : /\ excuses'[v] >= excuses[v]
                             /\ v = u /\ name \in Defaults => excuses'[v] >= excuses[v] + 1
<1>1. \A v \in Vehicles : excuses[v] \in Nat
  BY DEF ServerTypeOK
<1>2. \A v \in Vehicles : excuses'[v] = IF v = u /\ name \in Defaults THEN excuses[v] + 1 ELSE excuses[v]
  BY DEF Excuse, ServerTypeOK
<1> QED
  BY <1>1, <1>2

LEMMA AddItemFew ==
  ASSUME ServerInv, ServerInv', Few, NEW u \in Vehicles, NEW name \in Names, AddItem(u, name)
  PROVE  Few'
<1>0. ServerTypeOK /\ admin' = admin /\ Excuse(u, name)
  BY DEF ServerInv, AddItem
<1>1. PICK e \in Items : equipment' = [equipment EXCEPT ![e] = [vehicle |-> u, name |-> name]]
  BY DEF AddItem
<1>2. ASSUME NEW v \in Vehicles, NEW n \in Defaults PROVE Modest(v, n)
  <2>1. Copies(v, n)' \subseteq Copies(v, n) \cup {e}
    BY <1>1, <1>0 DEF Copies, StockOf, InStock, ServerTypeOK
  <2>2. CASE v = u /\ n = name
    BY <1>0, <2>1, <2>2, ExcuseCounts DEF Modest
  <2>3. CASE ~(v = u /\ n = name)
    <3>1. Copies(v, n)' \subseteq Copies(v, n)
      BY <1>1, <1>0, <2>3 DEF Copies, StockOf, InStock, ServerTypeOK
    <3> QED
      BY <1>0, <3>1, ExcuseCounts DEF Modest
  <2> QED
    BY <2>2, <2>3
<1> QED
  BY <1>0, <1>2, FewElsewhere

LEMMA RenameItemFew ==
  ASSUME ServerInv, ServerInv', Few, NEW e \in Items, NEW name \in Names, RenameItem(e, name)
  PROVE  Few'
<1> DEFINE u == equipment[e].vehicle
<1>0. /\ ServerTypeOK /\ admin' = admin /\ Excuse(u, name) /\ InStock(e)
      /\ equipment' = [equipment EXCEPT ![e].name = name]
  BY DEF ServerInv, RenameItem
<1>1. equipment[e] \in Row /\ u \in Vehicles
  BY <1>0 DEF ServerTypeOK, InStock, Row
<1>2. /\ equipment'[e] = [equipment[e] EXCEPT !.name = name]
      /\ \A x \in Items \ {e} : equipment'[x] = equipment[x]
  BY <1>0 DEF ServerTypeOK
<1>3. equipment'[e].vehicle = u /\ equipment'[e].name = name
  BY <1>1, <1>2 DEF Row
<1>4. ASSUME NEW v \in Vehicles, NEW n \in Defaults PROVE Modest(v, n)
  <2>1. Copies(v, n)' \subseteq Copies(v, n) \cup {e}
    BY <1>2 DEF Copies, StockOf, InStock
  <2>2. CASE v = u /\ n = name
    BY <1>0, <1>1, <2>1, <2>2, ExcuseCounts DEF Modest
  <2>3. CASE ~(v = u /\ n = name)
    <3>1. Copies(v, n)' \subseteq Copies(v, n)
      BY <1>2, <1>3, <2>3 DEF Copies, StockOf, InStock
    <3> QED
      BY <1>0, <1>1, <3>1, ExcuseCounts DEF Modest
  <2> QED
    BY <2>2, <2>3
<1> QED
  BY <1>0, <1>4, FewElsewhere

LEMMA PreloadReadsFew ==
  ASSUME ServerInv, ServerInv', Few, NEW a \in Admins, NEW u \in Vehicles, PreloadReads(a, u)
  PROVE  Few'
<1> DEFINE t == [op |-> "preload", vehicle |-> u, names |-> NamesOf(u), late |-> FALSE]
<1>0. /\ ServerTypeOK /\ excuses' = excuses /\ equipment' = equipment
      /\ admin' = [admin EXCEPT ![a] = t]
  BY DEF ServerInv, PreloadReads, tables
<1>1. \A v \in Vehicles, n \in Defaults : Modest(v, n)
  BY <1>0, StockSame
<1>2. admin'[a] = t /\ \A b \in Admins \ {a} : admin'[b] = admin[b]
  BY <1>0 DEF ServerTypeOK
<1>3. ASSUME NEW n \in Missing(a)' PROVE Copies(u, n)' = {}
  <2>1. n \notin NamesOf(u)
    BY <1>2, <1>3 DEF Missing
  <2>2. Copies(u, n) = {}
    BY <2>1 DEF NamesOf, Copies
  <2> QED
    BY <1>0, <2>2 DEF Copies, StockOf, InStock
<1>4. \A b \in Admins : Missing(b) \subseteq Defaults
  BY DEF Missing
<1>5. ASSUME NEW b \in Admins, NEW v \in Vehicles, Fresh(b)', admin'[b].vehicle = v
      PROVE  \/ admin'[b] = admin[b] /\ \A n \in Missing(b) : Modest(v, n)
             \/ \A n \in Missing(b)' : Copies(v, n)' = {}
  <2>1. CASE b = a
    BY <1>2, <1>3, <1>5, <2>1
  <2>2. CASE b # a
    BY <1>1, <1>2, <1>4, <2>2
  <2> QED
    BY <2>1, <2>2
<1> QED
  BY <1>1, <1>5, FewStep

LEMMA PreloadInsertsFew ==
  ASSUME ServerInv, ServerInv', Few, NEW a \in Admins, PreloadInserts(a)
  PROVE  Few'
<1> DEFINE u == admin[a].vehicle
<1>1. u \in Vehicles /\ ServerTypeOK /\ admin[a].op = "preload"
  BY DEF ServerInv, ServerTypeOK, PreloadInserts
<1>2. PICK id \in [Missing(a) -> Items \ issued] :
        /\ \A m, n \in Missing(a) : id[m] = id[n] => m = n
        /\ equipment' = [e \in Items |->
             IF \E n \in Missing(a) : id[n] = e
               THEN [vehicle |-> u, name |-> CHOOSE n \in Missing(a) : id[n] = e]
               ELSE equipment[e]]
  BY DEF PreloadInserts
<1>3. \A e \in Items :
        \/ equipment'[e] = equipment[e]
        \/ \E m \in Missing(a) : id[m] = e /\ equipment'[e].vehicle = u /\ equipment'[e].name = m
  <2> SUFFICES ASSUME NEW e \in Items, \E n \in Missing(a) : id[n] = e
               PROVE  \E m \in Missing(a) : id[m] = e /\ equipment'[e].vehicle = u /\ equipment'[e].name = m
    BY <1>2
  <2> DEFINE n == CHOOSE m \in Missing(a) : id[m] = e
  <2>1. n \in Missing(a) /\ id[n] = e
    OBVIOUS
  <2>2. equipment'[e] = [vehicle |-> u, name |-> n]
    BY <1>2
  <2> HIDE DEF n
  <2> QED
    BY <2>1, <2>2
<1>4. \A v \in Vehicles, n \in Defaults :
        v # u \/ n \notin Missing(a) => Copies(v, n)' \subseteq Copies(v, n)
  BY <1>3 DEF Copies, StockOf, InStock
<1>5. ASSUME NEW v \in Vehicles, NEW n \in Missing(a)
      PROVE  Copies(v, n)' \subseteq Copies(v, n) \cup {id[n]}
  BY <1>3 DEF Copies, StockOf, InStock
<1>6. \A v \in Vehicles : /\ excuses'[v] >= excuses[v]
                          /\ v = u /\ admin[a].late => excuses'[v] >= excuses[v] + 1
  <2>1. \A v \in Vehicles : excuses[v] \in Nat
    BY <1>1 DEF ServerTypeOK
  <2>2. \A v \in Vehicles : excuses'[v] = IF v = u /\ admin[a].late THEN excuses[v] + 1 ELSE excuses[v]
    BY <1>1 DEF PreloadInserts, ServerTypeOK
  <2> QED
    BY <2>1, <2>2
<1>7. ASSUME NEW v \in Vehicles, NEW n \in Defaults, v # u \/ n \notin Missing(a)
      PROVE  Modest(v, n)
  BY <1>4, <1>6, <1>7 DEF Modest
<1>8. ASSUME NEW v \in Vehicles, NEW n \in Defaults PROVE Modest(v, n) \/ Filled(v, n)
  <2>1. CASE v = u /\ n \in Missing(a) /\ admin[a].late
    BY <1>5, <1>6, <2>1 DEF Modest
  <2>2. CASE v = u /\ n \in Missing(a) /\ ~admin[a].late
    <3>1. Fresh(a)
      BY <1>1, <2>2 DEF Fresh
    <3> QED
      BY <1>5, <1>6, <2>2, <3>1 DEF Filled
  <2> QED
    BY <1>7, <2>1, <2>2
<1>9. ASSUME NEW b \in Admins, NEW v \in Vehicles, Fresh(b)', admin'[b].vehicle = v
      PROVE  admin'[b] = admin[b] /\ \A n \in Missing(b) : Modest(v, n)
  <2>1. admin'[b] = IF b = a THEN Idle
                    ELSE IF admin[b].op = "preload" /\ admin[b].vehicle = u /\ Missing(a) # {}
                           THEN [admin[b] EXCEPT !.late = TRUE] ELSE admin[b]
    BY DEF PreloadInserts
  <2>2. b # a
    BY <1>9, <2>1 DEF Fresh, Idle
  <2>3. admin'[b].late = FALSE /\ admin[b] \in Thread
    BY <1>1, <1>9 DEF Fresh, ServerInv, ServerTypeOK, Thread
  <2>4. admin'[b] # [admin[b] EXCEPT !.late = TRUE]
    BY <2>3 DEF Thread
  <2>5. admin'[b] = admin[b]
    BY <2>1, <2>2, <2>4
  <2>6. v # u \/ Missing(a) = {}
    BY <1>9, <2>1, <2>2, <2>4, <2>5 DEF Fresh
  <2>7. \A n \in Missing(b) : n \in Defaults
    BY DEF Missing
  <2> QED
    BY <1>7, <2>5, <2>6, <2>7
<1> QED
  BY <1>8, <1>9, FewStep

LEMMA NextFew == ServerInv /\ ServerInv' /\ Few /\ [ServerNext]_server => Few'
<1> SUFFICES ASSUME ServerInv, ServerInv', Few, [ServerNext]_server PROVE Few'
  OBVIOUS
<1>0. ServerTypeOK
  BY DEF ServerInv
<1>1. ASSUME \A e \in Items : equipment'[e] \in {equipment[e], None}, excuses' = excuses,
             \A b \in Admins : admin'[b] \in {admin[b], Idle} \/ admin'[b].op = "scrap"
      PROVE  Few'
  <2>1. \A b \in Admins : Fresh(b)' => admin'[b] = admin[b]
    BY <1>1 DEF Fresh, Idle
  <2> QED
    BY <1>0, <1>1, <2>1, StockSame, FewElsewhere
<1>2. ASSUME NEW e \in Items, RemoveItem(e) PROVE Few'
  BY <1>0, <1>1, <1>2 DEF RemoveItem, ServerTypeOK
<1>3. ASSUME NEW a \in Admins, NEW v \in Vehicles, ScrapCounts(a, v) PROVE Few'
  <2>1. /\ equipment' = equipment /\ excuses' = excuses
        /\ admin' = [admin EXCEPT ![a] = [Idle EXCEPT !.op = "scrap", !.vehicle = v]]
    BY <1>3 DEF ScrapCounts, tables
  <2>2. \A b \in Admins : admin'[b] = admin[b] \/ admin'[b].op = "scrap"
    BY <1>0, <2>1 DEF ServerTypeOK, Idle
  <2> QED
    BY <1>1, <2>1, <2>2
<1>4. ASSUME NEW a \in Admins, Scrap(a) PROVE Few'
  <2>1. excuses' = excuses /\ \A e \in Items : equipment'[e] \in {equipment[e], None}
    BY <1>4 DEF Scrap
  <2>2. \A b \in Admins : admin'[b] \in {admin[b], Idle}
    BY <1>0, <1>4 DEF Scrap, ServerTypeOK
  <2> QED
    BY <1>1, <2>1, <2>2
<1>5. ASSUME NEW a \in Admins, GiveUp(a) PROVE Few'
  <2>1. \A b \in Admins : admin'[b] \in {admin[b], Idle}
    BY <1>0, <1>5 DEF GiveUp, ServerTypeOK
  <2> QED
    BY <1>1, <1>5, <2>1 DEF GiveUp, tables
<1>6. ASSUME UNCHANGED <<equipment, excuses, admin>> PROVE Few'
  BY <1>1, <1>6
<1>7. CASE UNCHANGED server
  BY <1>6, <1>7 DEF server, tables
<1>8. ASSUME NEW t \in Trips, PurgeTrip(t) PROVE Few'
  BY <1>6, <1>8 DEF PurgeTrip
<1>9. ASSUME NEW v, NEW rows, NEW form, Save(v, rows, form) PROVE Few'
  BY <1>6, <1>9 DEF Save
<1>10. CASE Stocktaking
  BY <1>2, <1>3, <1>4, <1>5, <1>8, <1>10, AddItemFew, RenameItemFew, PreloadReadsFew,
     PreloadInsertsFew DEF Stocktaking
<1> QED
  BY <1>7, <1>9, <1>10 DEF ServerNext

(* At first the reasons are the pieces that have a name another one has.   *)
LEMMA InitFew == ServerInit => Few
<1>0. ServerInit => \A a \in Admins : ~Fresh(a)
  BY DEF ServerInit, Fresh, Idle
<1> SUFFICES ASSUME ServerInit, NEW v \in Vehicles, NEW n \in Defaults
             PROVE  Count(v, n) <= 1 + excuses[v]
  BY <1>0 DEF Few
<1> DEFINE S == {e \in StockOf(v) : equipment[e].name \in Defaults}
           T == NamesOf(v) \cap Defaults
           C == Copies(v, n)
           f == [e \in S \ C |-> equipment[e].name]
<1>1. excuses[v] = Cardinality(S) - Cardinality(T)
  BY DEF ServerInit
<1>2. C \in SUBSET S /\ f \in Surjection(S \ C, T \ {n})
  BY DEF Surjection, NamesOf, Copies
<1>3. IsFiniteSet(S)
  BY EquipmentAssumption, FS_Subset DEF StockOf
<1>4. Count(v, n) = Cardinality(C)
  BY DEF Count
<1> HIDE DEF S, T, C, f
<1>5. IsFiniteSet(C) /\ IsFiniteSet(S \ C) /\ Cardinality(S \ C) = Cardinality(S) - Cardinality(C)
  <2>1. IsFiniteSet(C) /\ S \cap C = C
    BY <1>2, <1>3, FS_Subset
  <2>2. IsFiniteSet(S \ C) /\ Cardinality(S \ C) = Cardinality(S) - Cardinality(S \cap C)
    BY <1>3, FS_Difference
  <2> QED
    BY <2>1, <2>2
<1>6. IsFiniteSet(T \ {n}) /\ Cardinality(T \ {n}) <= Cardinality(S \ C)
  BY <1>2, <1>5, FS_Surjection
<1>7. IsFiniteSet(T) /\ Cardinality(T) <= Cardinality(T \ {n}) + 1
  <2>1. IsFiniteSet((T \ {n}) \cup {n}) /\ Cardinality((T \ {n}) \cup {n}) = Cardinality(T \ {n}) + 1
    BY <1>6, FS_AddElement
  <2>2. T \in SUBSET ((T \ {n}) \cup {n})
    OBVIOUS
  <2> QED
    BY <2>1, <2>2, FS_Subset
<1>8. /\ Cardinality(S) \in Nat /\ Cardinality(C) \in Nat /\ Cardinality(T) \in Nat
      /\ Cardinality(T \ {n}) \in Nat /\ Cardinality(S \ C) \in Nat
  BY <1>3, <1>5, <1>6, <1>7, FS_CardinalityType
<1> QED
  BY <1>1, <1>4, <1>5, <1>6, <1>7, <1>8

(* However many administrators preload at once, a default name is there    *)
(* twice only for a reason: it was typed, or as many had read before.      *)
THEOREM DefaultsUnique == ServerSpec => []UniqueDefaults
<1>1. Few => UniqueDefaults
  BY DEF Few, UniqueDefaults, Count, Copies
<1>2. ServerSpec => []Few
  BY InitFew, NextFew, ServerInvariance, PTL DEF ServerSpec
<1> QED
  BY <1>1, <1>2, PTL

(* The same with the pages of the browser around the server. *)
THEOREM DefaultsStayUnique == Spec => []UniqueDefaults
  BY ImplementsServer, DefaultsUnique, PTL
=============================================================================
