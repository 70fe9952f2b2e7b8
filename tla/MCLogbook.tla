----------------------------- MODULE MCLogbook -----------------------------
(***************************************************************************)
(* Small instances of Logbook for TLC.  A behaviour is about the entries   *)
(* of two users and one vehicle, about entries whose vehicle is deleted,   *)
(* or about vehicles that come and go, the last two with one user.         *)
(***************************************************************************)
EXTENDS Logbook, FiniteSets, TLC

CONSTANTS
  Tables,    \* bound: Tables[m] are the tables requests name in a behaviour about m
  InUse      \* bound: InUse[m] are the operations that arrive in it

VARIABLE mix   \* what the behaviour is about

MCTables ==
  [entries  |-> {"maintenance"},
   erased   |-> {"maintenance"},
   vehicles |-> {"trip", "fuel"}]

MCInUse ==
  [entries  |-> {"add", "edit", "delete", "complete", "next", "purge"},
   erased   |-> {"add", "delete", "complete", "next", "delVehicle"},
   vehicles |-> {"add", "edit", "purge", "addVehicle", "editVehicle", "delVehicle"}]

OnlyCompletion == [entries |-> {"add", "complete", "next"}, erased |-> {}, vehicles |-> {}]

Symmetry == Permutations(Requests) \cup Permutations(Users)
              \cup Permutations(Vehicles) \cup Permutations(Ids)

(* The database a run starts from: empty but for some vehicles; requests   *)
(* fill it.                                                                *)
MCInit ==
  /\ mix \in {m \in DOMAIN InUse : InUse[m] # {}}
  /\ entries = [id \in Ids |-> None]
  /\ entrySeq = {}
  /\ vehicles \in {vs \in SUBSET Vehicles : vs # {} /\ (mix # "vehicles" => Cardinality(vs) = 1)}
  /\ vehicleSeq = vehicles
  /\ Init

MCNext == Next /\ UNCHANGED mix
MCSpec == MCInit /\ [][MCNext]_<<vars, mix>>

Named == {req[r].user : r \in {q \in Requests : req[q] # None}}
           \cup {entries[id].author : id \in {i \in Ids : Present(i)}}

(* Where nobody's right is in question one user without it is enough; the  *)
(* right of whoever adds an entry is asked by no step.  Of two requests on *)
(* entries one at most is an administrator's, who meets fewer checks.      *)
(* Whoever is done and has changed nothing is answered at once.            *)
Bounded ==
  /\ \A r \in Requests : pc[r] = "done" /\ ~hit[r] => pc'[r] # "done"
  /\ \A r \in Requests : req'[r] # None =>
       /\ req'[r].op \in InUse[mix] /\ req'[r].kind \in Tables[mix] \cup {None}
       /\ mix # "vehicles" => req'[r].vehicle \in vehicleSeq \cup {None}
       /\ req'[r].isAdmin =>
            req'[r].op \in IF mix = "entries" THEN Ops \ {"add"} ELSE OnVehicle \cup {"addVehicle"}
  /\ mix = "entries" =>
       \A r, q \in Requests : r # q /\ None \notin {req'[r], req'[q]} =>
         ~(req'[r].isAdmin /\ req'[q].isAdmin)
  /\ mix # "entries" => \A u, w \in Named' : u = w
=============================================================================
