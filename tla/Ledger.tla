------------------------------- MODULE Ledger -------------------------------
(***************************************************************************)
(* What the logbook promises of its rows, whoever changes them and however *)
(* the requests interleave.  A row of trips, fuel or maintenance is        *)
(* recorded once, for a vehicle that is there; while it is active it may be *)
(* revised, but its table and its author never change; once retired (soft  *)
(* deleted) it is frozen; once erased it is gone for good.  A vehicle may  *)
(* only leave together with every row that refers to it.                   *)
(*                                                                         *)
(* Nothing here has requests, locks or checks: Logbook is shown to          *)
(* implement this module.                                                  *)
(***************************************************************************)
CONSTANTS
  Kinds,      \* the tables: trips, fuel, maintenance
  Users,      \* user names, the values of added_by
  Vehicles,   \* ids of vehicles
  Ids,        \* ids of entries
  None     \* stands for "no such row"

VARIABLES
  vehicles,    \* the rows of table vehicles
  entries,     \* the rows of the three entry tables
  entrySeq,    \* entry ids the identity columns have handed out
  vehicleSeq   \* vehicle ids the identity column has handed out

db == <<vehicles, entries, entrySeq, vehicleSeq>>

Entry == [kind : Kinds, author : Users, vehicle : Vehicles,
          completed : BOOLEAN, deleted : BOOLEAN]

Present(id) == entries[id] # None
Active(id)  == Present(id) /\ ~entries[id].deleted

(* Any database the program can have left behind. *)
Init ==
  /\ vehicleSeq \in SUBSET Vehicles
  /\ vehicles \in SUBSET vehicleSeq
  /\ entries \in [Ids -> Entry \cup {None}]
  /\ entrySeq \in SUBSET Ids
  /\ \A id \in Ids : Present(id) => id \in entrySeq /\ entries[id].vehicle \in vehicles

(* The row e is written under an id never used before. *)
Record(id, e) ==
  /\ id \notin entrySeq
  /\ e.vehicle \in vehicles /\ ~e.deleted
  /\ entries' = [entries EXCEPT ![id] = e]
  /\ entrySeq' = entrySeq \cup {id}
  /\ UNCHANGED <<vehicles, vehicleSeq>>

(* An active row takes new values; table and author stay. *)
Revise(id, v, c) ==
  /\ Active(id)
  /\ v \in vehicles
  /\ entries' = [entries EXCEPT ![id].vehicle = v, ![id].completed = c]
  /\ UNCHANGED <<vehicles, entrySeq, vehicleSeq>>

Retire(id) ==
  /\ Active(id)
  /\ entries' = [entries EXCEPT ![id].deleted = TRUE]
  /\ UNCHANGED <<vehicles, entrySeq, vehicleSeq>>

Erase(id) ==
  /\ Present(id)
  /\ entries' = [entries EXCEPT ![id] = None]
  /\ UNCHANGED <<vehicles, entrySeq, vehicleSeq>>

Enlist(v) ==
  /\ v \notin vehicleSeq
  /\ vehicles' = vehicles \cup {v}
  /\ vehicleSeq' = vehicleSeq \cup {v}
  /\ UNCHANGED <<entries, entrySeq>>

(* A vehicle leaves and takes its rows with it. *)
Scrap(v) ==
  /\ v \in vehicles
  /\ vehicles' = vehicles \ {v}
  /\ entries' = [id \in Ids |->
                   IF Present(id) /\ entries[id].vehicle = v THEN None ELSE entries[id]]
  /\ UNCHANGED <<entrySeq, vehicleSeq>>

Next ==
  \/ \E id \in Ids, e \in Entry : Record(id, e)
  \/ \E id \in Ids, v \in Vehicles, c \in BOOLEAN : Revise(id, v, c)
  \/ \E id \in Ids : Retire(id) \/ Erase(id)
  \/ \E v \in Vehicles : Enlist(v) \/ Scrap(v)

Spec == Init /\ [][Next]_db
=============================================================================
