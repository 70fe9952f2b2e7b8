----------------------------- MODULE Equipment -----------------------------
(***************************************************************************)
(* The equipment of the vehicles and its use on trips, as the database     *)
(* keeps them: rows of equipment belong to a vehicle, rows of              *)
(* trip_equipment to a trip and a row of equipment, and all of them go     *)
(* with what they belong to (ON DELETE CASCADE).                           *)
(*                                                                         *)
(* A statement and the COMMIT that follows it are one step.  Of the routes *)
(* that first SELECT what they then write, only two depend on what they    *)
(* read: preload, on the names it found, and the deletion of a vehicle, on *)
(* the entries it counted.  The others write by id; their SELECT chooses   *)
(* the answer.  What AuditService.log adds afterwards, in a transaction of *)
(* its own, is WriteAudit of Logbook and touches nothing here.             *)
(***************************************************************************)
EXTENDS FiniteSets, Naturals

CONSTANTS
  Vehicles,   \* ids of vehicles
  Items,      \* ids of equipment
  Trips,      \* ids of trips
  Names,      \* names of equipment
  Defaults,   \* those of DUCATO_EQUIPMENT
  Admins,     \* threads that serve the routes of administrators
  None

VARIABLES
  vehicles,    \* the vehicles there are
  equipment,   \* equipment[e]: the row, or None
  issued,      \* the ids of equipment handed out so far
  trips,       \* trips[t]: the vehicle of the trip, or None
  used,        \* trip_equipment: pairs of a trip and a row of equipment
  sent,        \* sent[t]: what the form said that became trip t
  admin,       \* admin[a]: what thread a has read and is about to write
  excuses      \* excuses[v]: reasons for v to have a default name twice

tables == <<vehicles, equipment, issued, trips, used, sent>>
server == <<vehicles, equipment, issued, trips, used, sent, admin, excuses>>

Row  == [vehicle : Vehicles, name : Names]
Form == [rows : SUBSET Items, offline : BOOLEAN]

Idle == [op |-> "idle", vehicle |-> None, names |-> {}, late |-> FALSE]

Thread == [op : {"idle", "preload", "scrap"}, vehicle : Vehicles \cup {None},
           names : SUBSET Names, late : BOOLEAN]

ASSUME EquipmentAssumption ==
  /\ IsFiniteSet(Items)
  /\ Defaults \subseteq Names
  /\ None \notin Vehicles \cup Row \cup Form

InStock(e) == equipment[e] # None

StockOf(v) == {e \in Items : InStock(e) /\ equipment[e].vehicle = v}

NamesOf(v) == {equipment[e].name : e \in StockOf(v)}

RowsOf(t) == {e \in Items : <<t, e>> \in used}

Excuse(v, name) ==
  excuses' = IF name \in Defaults THEN [excuses EXCEPT ![v] = @ + 1] ELSE excuses

-----------------------------------------------------------------------------
(* equipment_add, equipment_edit, equipment_delete.  The name is typed; the *)
(* foreign key fails when the vehicle is not there any more.               *)

AddItem(v, name) ==
  /\ v \in vehicles
  /\ \E e \in Items \ issued :
       /\ equipment' = [equipment EXCEPT ![e] = [vehicle |-> v, name |-> name]]
       /\ issued' = issued \cup {e}
  /\ Excuse(v, name)
  /\ UNCHANGED <<vehicles, trips, used, sent, admin>>

RenameItem(e, name) ==
  /\ InStock(e) /\ equipment[e].name # name
  /\ equipment' = [equipment EXCEPT ![e].name = name]
  /\ Excuse(equipment[e].vehicle, name)
  /\ UNCHANGED <<vehicles, issued, trips, used, sent, admin>>

(* slip: the foreign key of trip_equipment does not cascade *)
RemoveItem_NoCascade(e) ==
  /\ InStock(e)
  /\ equipment' = [equipment EXCEPT ![e] = None]
  /\ UNCHANGED <<vehicles, issued, trips, used, sent, admin, excuses>>

RemoveItem(e) ==
  /\ InStock(e)
  /\ equipment' = [equipment EXCEPT ![e] = None]
  /\ used' = {u \in used : u[2] # e}
  /\ UNCHANGED <<vehicles, issued, trips, sent, admin, excuses>>

-----------------------------------------------------------------------------
(* equipment_preload: the names are read, then all that are missing are    *)
(* inserted in one transaction.                                            *)

PreloadReads(a, v) ==
  /\ admin[a].op = "idle"
  /\ v \in vehicles
  /\ admin' = [admin EXCEPT ![a] = [op |-> "preload", vehicle |-> v,
                                    names |-> NamesOf(v), late |-> FALSE]]
  /\ UNCHANGED <<tables, excuses>>

(* slip: the names that are there are not left out *)
Missing_All(a) == Defaults

Missing(a) == Defaults \ admin[a].names

(* A thread that inserts after another one has, since it read the names,   *)
(* cannot know of the rows of the other one.                               *)
PreloadInserts(a) ==
  LET v == admin[a].vehicle IN
  /\ admin[a].op = "preload"
  /\ v \in vehicles
  /\ \E id \in [Missing(a) -> Items \ issued] :
       /\ \A m, n \in Missing(a) : id[m] = id[n] => m = n
       /\ equipment' = [e \in Items |->
            IF \E n \in Missing(a) : id[n] = e
              THEN [vehicle |-> v, name |-> CHOOSE n \in Missing(a) : id[n] = e]
              ELSE equipment[e]]
       /\ issued' = issued \cup {id[n] : n \in Missing(a)}
  /\ excuses' = IF admin[a].late THEN [excuses EXCEPT ![v] = @ + 1] ELSE excuses
  /\ admin' = [b \in Admins |->
       IF b = a THEN Idle
       ELSE IF admin[b].op = "preload" /\ admin[b].vehicle = v /\ Missing(a) # {}
              THEN [admin[b] EXCEPT !.late = TRUE]
              ELSE admin[b]]
  /\ UNCHANGED <<vehicles, trips, used, sent>>

(* VehicleRepository.delete: trips are counted (fuel and maintenance too,  *)
(* see Logbook), then the vehicle goes, with whatever belongs to it then.  *)
ScrapCounts(a, v) ==
  /\ admin[a].op = "idle"
  /\ v \in vehicles
  /\ \A t \in Trips : trips[t] # v
  /\ admin' = [admin EXCEPT ![a] = [Idle EXCEPT !.op = "scrap", !.vehicle = v]]
  /\ UNCHANGED <<tables, excuses>>

Scrap(a) ==
  LET v == admin[a].vehicle IN
  /\ admin[a].op = "scrap"
  /\ vehicles' = vehicles \ {v}
  /\ equipment' = [e \in Items |-> IF e \in StockOf(v) THEN None ELSE equipment[e]]
  /\ trips' = [t \in Trips |-> IF trips[t] = v THEN None ELSE trips[t]]
  /\ used' = {u \in used : trips[u[1]] # v /\ u[2] \notin StockOf(v)}
  /\ admin' = [admin EXCEPT ![a] = Idle]
  /\ UNCHANGED <<issued, sent, excuses>>

(* The database fails, the vehicle is not there any more, the worker dies. *)
GiveUp(a) ==
  /\ admin[a].op # "idle"
  /\ admin' = [admin EXCEPT ![a] = Idle]
  /\ UNCHANGED <<tables, excuses>>

-----------------------------------------------------------------------------
(* TripRepository.add: the trip and the equipment used on it, or nothing.  *)
(* A row of equipment that is named twice is merged.                       *)
Save(v, rows, form) ==
  /\ v \in vehicles
  /\ \A e \in rows : InStock(e)
  /\ \E t \in Trips :
       /\ sent[t] = None
       /\ sent' = [sent EXCEPT ![t] = form]
       /\ trips' = [trips EXCEPT ![t] = v]
       /\ used' = used \cup ({t} \X rows)
  /\ UNCHANGED <<vehicles, equipment, issued, admin, excuses>>

(* delete_entry_view for a trip *)
PurgeTrip(t) ==
  /\ trips[t] # None
  /\ trips' = [trips EXCEPT ![t] = None]
  /\ used' = {u \in used : u[1] # t}
  /\ UNCHANGED <<vehicles, equipment, issued, sent, admin, excuses>>

-----------------------------------------------------------------------------
(* A trip that is there has the equipment its form listed, all of it but   *)
(* what has been deleted since; a form is never saved in part.  One queued *)
(* offline may have less of it (see Payload in TripForm), never other.     *)
WholeTrips ==
  \A t \in Trips : trips[t] # None =>
    LET left == {e \in sent[t].rows : InStock(e)}
    IN  IF sent[t].offline THEN RowsOf(t) \subseteq left ELSE RowsOf(t) = left

ServerInit ==
  /\ vehicles \in SUBSET Vehicles
  /\ issued \in SUBSET Items
  /\ equipment \in [Items -> Row \cup {None}]
  /\ \A e \in Items : InStock(e) => e \in issued /\ equipment[e].vehicle \in vehicles
  /\ trips \in [Trips -> Vehicles \cup {None}]
  /\ sent \in [Trips -> Form \cup {None}]
  /\ \A t \in Trips :
       /\ trips[t] # None => trips[t] \in vehicles /\ sent[t] # None
       /\ sent[t] # None => sent[t].rows \subseteq issued
  /\ used \in SUBSET (Trips \X Items)
  /\ \A u \in used : trips[u[1]] # None /\ InStock(u[2])
  /\ WholeTrips
  /\ admin = [a \in Admins |-> Idle]
  /\ excuses = [v \in Vehicles |-> Cardinality({e \in StockOf(v) : equipment[e].name \in Defaults})
                                   - Cardinality(NamesOf(v) \cap Defaults)]

Stocktaking ==
  \/ \E v \in Vehicles, name \in Names : AddItem(v, name)
  \/ \E e \in Items, name \in Names : RenameItem(e, name)
  \/ \E e \in Items : RemoveItem(e)
  \/ \E a \in Admins, v \in Vehicles : PreloadReads(a, v) \/ ScrapCounts(a, v)
  \/ \E a \in Admins : PreloadInserts(a) \/ Scrap(a) \/ GiveUp(a)
  \/ \E t \in Trips : PurgeTrip(t)

ServerNext ==
  \/ Stocktaking
  \/ \E v \in Vehicles, form \in Form : \E rows \in SUBSET form.rows :
       (form.offline \/ rows = form.rows) /\ Save(v, rows, form)

ServerSpec == ServerInit /\ [][ServerNext]_server
-----------------------------------------------------------------------------
ServerTypeOK ==
  /\ vehicles \in SUBSET Vehicles
  /\ equipment \in [Items -> Row \cup {None}]
  /\ issued \in SUBSET Items
  /\ trips \in [Trips -> Vehicles \cup {None}]
  /\ used \in SUBSET (Trips \X Items)
  /\ sent \in [Trips -> Form \cup {None}]
  /\ admin \in [Admins -> Thread]
  /\ excuses \in [Vehicles -> Nat]
  /\ \A a \in Admins : admin[a].op = "idle" <=> admin[a].vehicle = None

(* Whatever is deleted under whatever: equipment has its vehicle, trips     *)
(* have theirs, and every row of trip_equipment its trip and its equipment, *)
(* although both may go between the page that offered them and the form.   *)
References ==
  /\ \A e \in Items : InStock(e) => e \in issued /\ equipment[e].vehicle \in vehicles
  /\ \A t \in Trips : trips[t] # None => trips[t] \in vehicles /\ sent[t] # None
  /\ \A u \in used : trips[u[1]] # None /\ InStock(u[2])

(* preload leaves out the names that are there: a vehicle has a default    *)
(* name more than once only if somebody typed it again, or if as many      *)
(* preloads read the names before another one had inserted them.           *)
UniqueDefaults ==
  \A v \in Vehicles, n \in Defaults :
    Cardinality({e \in StockOf(v) : equipment[e].name = n}) <= 1 + excuses[v]
=============================================================================
