--------------------------- MODULE LogbookProofs ---------------------------
(***************************************************************************)
(* Safety of Logbook for any number of requests, users, vehicles and rows. *)
(*                                                                         *)
(* The inductive invariant of what the tables hold is Inv.  CheckedAuthor  *)
(* cannot be proved without ReferentialIntegrity (a present row has an id  *)
(* that was handed out, so a new row never takes the place of the one that *)
(* was checked), and neither without TypeOK.  What the audit log says and  *)
(* that an entry is deleted once need Progressing as well, which ties each *)
(* step of a request to what it has left in the tables so far.             *)
(***************************************************************************)
EXTENDS Logbook, TLAPS

Inv == TypeOK /\ ReferentialIntegrity /\ CheckedAuthor

-----------------------------------------------------------------------------
LEMMA InitInv == Init => Inv
  BY DEF Init, Inv, TypeOK, ReferentialIntegrity, CheckedAuthor, Store!Init, Store!Present,
         Present, Store!Entry, Entry, Steps, Outcomes

(* A refused request leaves everything but its own answer alone. *)
LEMMA RefuseInv ==
  ASSUME Inv, NEW r \in Requests, NEW how \in Outcomes, pc[r] # "idle", Refuse(r, how)
  PROVE  Inv'
  BY DEF Inv, TypeOK, ReferentialIntegrity, CheckedAuthor, Refuse, Finish, db, Present,
         InTable, Authorised

(* A request that arrives leaves the database and the others alone. *)
LEMMA BeginInv ==
  ASSUME Inv, NEW r \in Requests, NEW q \in Request, NEW step \in Steps, Begin(r, q, step),
         step # "owner",
         step = "vehicle" => q.op = "add",
         step = "write" => q.op = "addVehicle"
  PROVE  Inv'
  BY DEF Inv, TypeOK, ReferentialIntegrity, CheckedAuthor, Begin, Go, db, Present,
         InTable, Authorised
LEMMA ArriveInv ==
  ASSUME Inv, NEW r \in Requests, Arrive(r)
  PROVE  Inv'
<1> USE DEF Ask, Request, Ops, OnEntry, OnVehicle, Kinds, Editable, Steps
<1>1. CASE AddEntry(r)
  BY <1>1, BeginInv DEF AddEntry
<1>2. CASE EditEntry(r)
  BY <1>2, BeginInv DEF EditEntry
<1>3. CASE DeleteEntry(r)
  BY <1>3, BeginInv DEF DeleteEntry
<1>4. CASE CompleteMaintenance(r)
  BY <1>4, BeginInv DEF CompleteMaintenance
<1>5. CASE CreateNextMaintenance(r)
  BY <1>5, BeginInv DEF CreateNextMaintenance
<1>6. CASE PurgeEntry(r)
  BY <1>6, BeginInv DEF PurgeEntry
<1>7. CASE AddVehicle(r)
  BY <1>7, BeginInv DEF AddVehicle
<1>8. CASE ChangeVehicle(r)
  BY <1>8, BeginInv DEF ChangeVehicle
<1>9. QED
  BY <1>1, <1>2, <1>3, <1>4, <1>5, <1>6, <1>7, <1>8 DEF Arrive

-----------------------------------------------------------------------------
(* A check either refuses or moves the request on; only CheckOwned and     *)
(* CheckPurge establish the author.                                        *)
LEMMA CheckInv ==
  ASSUME Inv, NEW r \in Requests, Check(r)
  PROVE  Inv'
<1> USE DEF At, Steps, Outcomes
<1>0. ASSUME NEW how \in Outcomes, pc[r] # "idle", Refuse(r, how)
      PROVE  Inv'
  BY <1>0, RefuseInv
<1>1. CASE CheckInRoute(r)
  <2>1. CASE Go(r, "check") /\ UNCHANGED <<db, req, row, hit, audited>>
    BY <1>1, <2>1 DEF CheckInRoute, Inv, TypeOK, ReferentialIntegrity, CheckedAuthor, Go, db,
       Present, InTable, Authorised
  <2>2. QED
    BY <1>0, <1>1, <2>1 DEF CheckInRoute
<1>2. CASE CheckOwned(r)
  <2>1. CASE /\ Visible(r) /\ Authorised(r, entries[req[r].id].author) /\ Selected(r)
             /\ Go(r, IF req[r].op = "edit" THEN "vehicle" ELSE "write")
             /\ UNCHANGED <<db, req, hit, audited>>
    BY <1>2, <2>1 DEF CheckOwned, Inv, TypeOK, ReferentialIntegrity, CheckedAuthor, Go, db,
       Present, InTable, Visible, Authorised, Selected, Request, OnEntry
  <2>2. QED
    BY <1>0, <1>2, <2>1 DEF CheckOwned
<1>3. CASE CheckExists(r)
  <2>1. CASE Visible(r) /\ Selected(r) /\ Go(r, "write") /\ UNCHANGED <<db, req, hit, audited>>
    BY <1>3, <2>1 DEF CheckExists, Inv, TypeOK, ReferentialIntegrity, CheckedAuthor, Go, db,
       Present, InTable, Visible, Authorised, Selected, Request, OnEntry
  <2>2. QED
    BY <1>0, <1>3, <2>1 DEF CheckExists
<1>4. CASE CheckPurge(r)
  <2>1. CASE /\ InTable(r) /\ Authorised(r, entries[req[r].id].author) /\ Selected(r)
             /\ Go(r, "write") /\ UNCHANGED <<db, req, hit, audited>>
    BY <1>4, <2>1 DEF CheckPurge, Inv, TypeOK, ReferentialIntegrity, CheckedAuthor, Go, db,
       Present, InTable, Authorised, Selected, Request, OnEntry
  <2>2. QED
    BY <1>0, <1>4, <2>1 DEF CheckPurge
<1>5. CASE CheckVehicle(r)
  <2>1. CASE Go(r, "write") /\ UNCHANGED <<db, req, row, hit, audited>>
    BY <1>5, <2>1 DEF CheckVehicle, Inv, TypeOK, ReferentialIntegrity, CheckedAuthor, Go, db,
       Present, InTable, Authorised
  <2>2. QED
    BY <1>0, <1>5, <2>1 DEF CheckVehicle
<1>6. CASE CheckVehicleExists(r)
  <2>1. CASE /\ Go(r, IF req[r].op = "delVehicle" THEN "linked" ELSE "write")
             /\ UNCHANGED <<db, req, row, hit, audited>>
    BY <1>6, <2>1 DEF CheckVehicleExists, Inv, TypeOK, ReferentialIntegrity, CheckedAuthor,
       Go, db, Present, InTable, Authorised, OnVehicle
  <2>2. QED
    BY <1>0, <1>6, <2>1 DEF CheckVehicleExists
<1>7. CASE CheckLinked(r)
  <2>1. CASE Go(r, "write") /\ UNCHANGED <<db, req, row, hit, audited>>
    BY <1>7, <2>1 DEF CheckLinked, Inv, TypeOK, ReferentialIntegrity, CheckedAuthor, Go, db,
       Present, InTable, Authorised
  <2>2. QED
    BY <1>0, <1>7, <2>1 DEF CheckLinked
<1>8. QED
  BY <1>1, <1>2, <1>3, <1>4, <1>5, <1>6, <1>7 DEF Check
-----------------------------------------------------------------------------
(* What a writing step has to show: rows keep a table, an author and a     *)
(* vehicle that exists, present rows keep their table and author, and no   *)
(* id that was handed out comes back.                                      *)
KeepsRows ==
  /\ vehicleSeq' \in SUBSET Vehicles
  /\ vehicles' \in SUBSET vehicleSeq'
  /\ entrySeq' \in SUBSET Ids
  /\ entrySeq \subseteq entrySeq'
  /\ entries' \in [Ids -> Entry \cup {None}]
  /\ \A id \in Ids : entries'[id] # None =>
       /\ id \in entrySeq'
       /\ entries'[id].vehicle \in vehicles'
       /\ id \in entrySeq =>
            /\ Present(id)
            /\ entries'[id].kind = entries[id].kind
            /\ entries'[id].author = entries[id].author

LEMMA CommitInv ==
  ASSUME Inv, KeepsRows, NEW r \in Requests, pc[r] = "write", NEW changed \in BOOLEAN,
         NEW step \in {"owner", "audit"}, Commit(r, changed, step),
         step = "owner" => req[r].op \in {"complete", "next"}
  PROVE  Inv'
<1>1. TypeOK'
  BY DEF Inv, KeepsRows, TypeOK, Commit, Go, Finish, Steps, Outcomes
<1>2. ReferentialIntegrity'
  BY DEF KeepsRows, ReferentialIntegrity, Present
<1>3. CheckedAuthor'
  BY DEF Inv, KeepsRows, TypeOK, CheckedAuthor, Commit, Go, Finish, Present, InTable,
         Authorised, Request, OnEntry
<1>4. QED
  BY <1>1, <1>2, <1>3 DEF Inv

LEMMA InsertKeepsRows ==
  ASSUME Inv, NEW r \in Requests, NEW e \in Entry, NEW step, Insert(r, e, step)
  PROVE  KeepsRows
  BY DEF Inv, TypeOK, ReferentialIntegrity, Insert, KeepsRows, Present

(* An UPDATE of a present row that keeps its table and author. *)
LEMMA UpdateKeepsRows ==
  ASSUME Inv, NEW id \in Ids, Present(id), NEW e \in Entry,
         e.kind = entries[id].kind, e.author = entries[id].author, e.vehicle \in vehicles,
         entries' = [entries EXCEPT ![id] = e], UNCHANGED <<vehicles, entrySeq, vehicleSeq>>
  PROVE  KeepsRows
  BY DEF Inv, TypeOK, ReferentialIntegrity, KeepsRows, Present

LEMMA SameKeepsRows ==
  ASSUME Inv, UNCHANGED db
  PROVE  KeepsRows
  BY DEF Inv, TypeOK, ReferentialIntegrity, KeepsRows, Present, db

(* The row a request found is a row like any other. *)
LEMMA VisibleRow ==
  ASSUME Inv, NEW r \in Requests, req[r] \in Request, req[r].op \in OnEntry, Visible(r)
  PROVE  /\ req[r].id \in Ids /\ Present(req[r].id)
         /\ entries[req[r].id] \in Entry
         /\ entries[req[r].id].vehicle \in vehicles
  BY DEF Inv, TypeOK, ReferentialIntegrity, Request, Visible, InTable, Present

LEMMA WriteInv ==
  ASSUME Inv, NEW r \in Requests, Write(r)
  PROVE  Inv'
<1> USE DEF At
<1>0. ASSUME pc[r] = "write", Violates(r) \/ Refuse(r, "notfound")
      PROVE  Inv'
  BY <1>0, RefuseInv DEF Violates, Outcomes
<1>1. CASE SaveNew(r)
  <2>1. ASSUME NEW c \in BOOLEAN,
               Insert(r, [kind |-> req[r].kind, author |-> req[r].user,
                          vehicle |-> req[r].vehicle, completed |-> c,
                          deleted |-> FALSE], "audit")
        PROVE  Inv'
    <3>1. [kind |-> req[r].kind, author |-> req[r].user, vehicle |-> req[r].vehicle,
           completed |-> c, deleted |-> FALSE] \in Entry
      BY <1>1 DEF SaveNew, Inv, TypeOK, Request, Entry, Store!Entry
    <3>2. KeepsRows
      BY <2>1, <3>1, InsertKeepsRows
    <3>3. Commit(r, TRUE, "audit")
      BY <2>1 DEF Insert
    <3>4. QED
      BY <1>1, <3>2, <3>3, CommitInv DEF SaveNew
  <2>2. QED
    BY <1>0, <1>1, <2>1 DEF SaveNew
<1>2. CASE SaveEdit(r)
  <2>1. ASSUME Visible(r), req[r].vehicle \in vehicles, NEW c \in BOOLEAN,
               entries' = [entries EXCEPT ![req[r].id] = Edited(r, @, c)],
               UNCHANGED <<vehicles, entrySeq, vehicleSeq>>, Commit(r, TRUE, "audit")
        PROVE  Inv'
    <3> DEFINE old == entries[req[r].id]
    <3>1. req[r] \in Request /\ req[r].op \in OnEntry /\ req[r].vehicle \in Vehicles
      BY <1>2 DEF SaveEdit, Inv, TypeOK, Request, OnEntry
    <3>2. req[r].id \in Ids /\ Present(req[r].id) /\ old \in Entry
      BY <2>1, <3>1, VisibleRow
    <3>3. /\ Edited(r, old, c) \in Entry
          /\ Edited(r, old, c).kind = old.kind
          /\ Edited(r, old, c).author = old.author
          /\ Edited(r, old, c).vehicle = req[r].vehicle
      BY <3>1, <3>2 DEF Edited, Entry, Store!Entry
    <3>4. KeepsRows
      BY <2>1, <3>2, <3>3, UpdateKeepsRows
    <3>5. QED
      BY <1>2, <2>1, <3>4, CommitInv DEF SaveEdit
  <2>2. QED
    BY <1>0, <1>2, <2>1 DEF SaveEdit
<1>3. CASE SoftDelete(r)
  <2>1. KeepsRows
    <3> DEFINE old == entries[req[r].id]
               new == [old EXCEPT !.deleted = TRUE]
    <3>1. req[r] \in Request /\ req[r].op \in OnEntry
      BY <1>3 DEF SoftDelete, Inv, TypeOK, OnEntry
    <3>2. CASE ~Visible(r)
      BY <1>3, <3>2, SameKeepsRows DEF SoftDelete, db
    <3>3. CASE Visible(r)
      <4>1. /\ req[r].id \in Ids /\ Present(req[r].id)
            /\ old \in Entry /\ old.vehicle \in vehicles
        BY <3>1, <3>3, VisibleRow
      <4>2. /\ new \in Entry /\ new.kind = old.kind /\ new.author = old.author
            /\ new.vehicle = old.vehicle
        BY <4>1 DEF Entry, Store!Entry
      <4>3. entries' = [entries EXCEPT ![req[r].id] = new]
        BY <1>3, <3>3 DEF SoftDelete
      <4>4. QED
        BY <1>3, <4>1, <4>2, <4>3, UpdateKeepsRows DEF SoftDelete
    <3>4. QED
      BY <3>2, <3>3
  <2>2. QED
    BY <1>3, <2>1, CommitInv DEF SoftDelete, Visible
<1>4. CASE SaveCompleted(r)
  <2>1. KeepsRows
    <3> DEFINE old == entries[req[r].id]
               new == [old EXCEPT !.completed = TRUE]
    <3>1. req[r] \in Request /\ req[r].op \in OnEntry
      BY <1>4 DEF SaveCompleted, Inv, TypeOK, OnEntry
    <3>2. CASE ~Visible(r)
      BY <1>4, <3>2, SameKeepsRows DEF SaveCompleted, db
    <3>3. CASE Visible(r)
      <4>1. /\ req[r].id \in Ids /\ Present(req[r].id)
            /\ old \in Entry /\ old.vehicle \in vehicles
        BY <3>1, <3>3, VisibleRow
      <4>2. /\ new \in Entry /\ new.kind = old.kind /\ new.author = old.author
            /\ new.vehicle = old.vehicle
        BY <4>1 DEF Entry, Store!Entry
      <4>3. entries' = [entries EXCEPT ![req[r].id] = new]
        BY <1>4, <3>3 DEF SaveCompleted
      <4>4. QED
        BY <1>4, <4>1, <4>2, <4>3, UpdateKeepsRows DEF SaveCompleted
    <3>4. QED
      BY <3>2, <3>3
  <2>2. QED
    BY <1>4, <2>1, CommitInv DEF SaveCompleted, Visible
<1>5. CASE SaveClone(r)
  <2>1. CASE Insert(r, [kind |-> "maintenance", author |-> req[r].user,
                        vehicle |-> row[r].vehicle, completed |-> FALSE,
                        deleted |-> FALSE], "owner")
    <3>1. [kind |-> "maintenance", author |-> req[r].user, vehicle |-> row[r].vehicle,
           completed |-> FALSE, deleted |-> FALSE] \in Entry
      BY <1>5 DEF SaveClone, Inv, TypeOK, Request, Entry, Store!Entry, Kinds
    <3>2. KeepsRows
      BY <2>1, <3>1, InsertKeepsRows
    <3>3. Commit(r, TRUE, "owner")
      BY <2>1 DEF Insert
    <3>4. QED
      BY <1>5, <3>2, <3>3, CommitInv DEF SaveClone
  <2>2. QED
    BY <1>0, <1>5, <2>1 DEF SaveClone
<1>6. CASE Purge(r)
  <2>1. KeepsRows
    BY <1>6 DEF Purge, Inv, TypeOK, ReferentialIntegrity, KeepsRows, Present, InTable,
       Request, OnEntry
  <2>2. CheckedAuthor'
    BY <1>6, <2>1 DEF Purge, Inv, KeepsRows, TypeOK, CheckedAuthor, Finish, Present, InTable,
       Authorised, Request, OnEntry
  <2>3. TypeOK' /\ ReferentialIntegrity'
    BY <1>6, <2>1 DEF Purge, Inv, KeepsRows, TypeOK, ReferentialIntegrity, Finish, Present,
       InTable, Outcomes
  <2>4. QED
    BY <2>2, <2>3 DEF Inv
<1>7. CASE SaveVehicle(r)
  <2>1. KeepsRows
    BY <1>7 DEF SaveVehicle, Inv, TypeOK, ReferentialIntegrity, KeepsRows, Present
  <2>2. QED
    BY <1>7, <2>1, CommitInv DEF SaveVehicle
<1>8. CASE UpdateVehicle(r)
  <2>1. KeepsRows
    BY <1>8 DEF UpdateVehicle, db, Inv, TypeOK, ReferentialIntegrity, KeepsRows, Present
  <2>2. (req[r].vehicle \in vehicles) \in BOOLEAN
    OBVIOUS
  <2>3. QED
    BY <1>8, <2>1, <2>2, CommitInv DEF UpdateVehicle
<1>9. CASE RemoveVehicle(r)
  <2>1. KeepsRows
    BY <1>9 DEF RemoveVehicle, Inv, TypeOK, ReferentialIntegrity, KeepsRows, Present
  <2>2. (req[r].vehicle \in vehicles) \in BOOLEAN
    OBVIOUS
  <2>3. QED
    BY <1>9, <2>1, <2>2, CommitInv DEF RemoveVehicle
<1>10. QED
  BY <1>1, <1>2, <1>3, <1>4, <1>5, <1>6, <1>7, <1>8, <1>9 DEF Write

-----------------------------------------------------------------------------
LEMMA AfterInv ==
  ASSUME Inv, NEW r \in Requests, After(r)
  PROVE  Inv'
<1>1. CASE CheckOwner(r)
  <2>1. CASE Go(r, "audit") /\ UNCHANGED <<db, req, row, hit, audited>>
    BY <1>1, <2>1 DEF CheckOwner, Inv, TypeOK, ReferentialIntegrity, CheckedAuthor, Go, db,
       Present, InTable, Authorised, Steps
  <2>2. QED
    BY <1>1, <2>1, RefuseInv DEF CheckOwner, Outcomes
<1>2. CASE WriteAudit(r)
  BY <1>2 DEF WriteAudit, Inv, TypeOK, ReferentialIntegrity, CheckedAuthor, Finish, db,
     Present, InTable, Authorised, Outcomes
<1>3. CASE Reply(r)
  BY <1>3 DEF Reply, Inv, TypeOK, ReferentialIntegrity, CheckedAuthor, db, Present, InTable,
     Authorised, Outcomes
<1>4. QED
  BY <1>1, <1>2, <1>3 DEF After

LEMMA StutterInv == Inv /\ UNCHANGED vars => Inv'
  BY DEF Inv, TypeOK, ReferentialIntegrity, CheckedAuthor, vars, Present, InTable, Authorised

LEMMA NextInv == Inv /\ [Next]_vars => Inv'
<1> SUFFICES ASSUME Inv, Next
             PROVE  Inv'
  BY StutterInv
<1>1. PICK r \in Requests : Arrive(r) \/ Check(r) \/ Write(r) \/ After(r) \/ Abort(r)
  BY DEF Next
<1>2. CASE Abort(r)
  BY <1>2, RefuseInv DEF Abort, Steps, Outcomes
<1>3. QED
  BY <1>1, <1>2, ArriveInv, CheckInv, WriteInv, AfterInv

(* Every reachable state is well typed, no row is without its vehicle, and *)
(* every check of an author still holds when the write comes.              *)
THEOREM Invariance == Spec => []Inv
<1>1. QED
  BY InitInv, NextInv, PTL DEF Spec

(* Tables, requests and what a thread has read keep their types. *)
THEOREM TypeCorrect == Spec => []TypeOK
  BY Invariance, PTL DEF Inv

(* No entry is without its vehicle, whatever is deleted at the same time   *)
(* as it is added or edited, and every id in use was handed out.           *)
THEOREM Integrity == Spec => []ReferentialIntegrity
  BY Invariance, PTL DEF Inv

(* Between the comparison of the author and the write nothing makes another *)
(* user the author of the row about to be written.                         *)
THEOREM CheckedStaysAuthorised == Spec => []CheckedAuthor
  BY Invariance, PTL DEF Inv
-----------------------------------------------------------------------------
(* Outside Write no step touches the database. *)
LEMMA ReadOnly ==
  ASSUME NEW r \in Requests, Arrive(r) \/ Check(r) \/ After(r) \/ Abort(r)
  PROVE  UNCHANGED db
  BY DEF Arrive, AddEntry, EditEntry, DeleteEntry, CompleteMaintenance, CreateNextMaintenance,
     PurgeEntry, AddVehicle, ChangeVehicle, Begin, Check, CheckInRoute, CheckOwned, CheckExists,
     CheckPurge, CheckVehicle, CheckVehicleExists, CheckLinked, After, CheckOwner, WriteAudit,
     Reply, Abort, Refuse

(* A write leaves the step "write". *)
LEMMA WriteMoves ==
  ASSUME Inv, NEW r \in Requests, Write(r)
  PROVE  pc[r] = "write" /\ pc'[r] # "write"
  BY DEF Inv, TypeOK, Write, SaveNew, SaveEdit, SoftDelete, SaveCompleted, SaveClone, Purge,
     SaveVehicle, UpdateVehicle, RemoveVehicle, At, Violates, Refuse, Finish, Insert, Commit, Go

(* Who may change the row id: what each write needs to show. *)
LEMMA WriterAuthorised ==
  ASSUME Inv, NEW r \in Requests, Write(r), NEW id \in Ids, Present(id),
         entries'[id] # entries[id]
  PROVE  req[r].op = "complete" \/ Authorised(r, entries[id].author)
<1> USE DEF At
<1>0. req[r] \in Request /\ pc[r] = "write"
  BY WriteMoves DEF Inv, TypeOK
<1>1. ASSUME req[r].op \in {"edit", "delete", "purge"}, InTable(r), id = req[r].id
      PROVE  Authorised(r, entries[id].author)
  BY <1>0, <1>1 DEF Inv, CheckedAuthor
<1>2. ASSUME NEW e, NEW step, Insert(r, e, step)
      PROVE  FALSE
  BY <1>2 DEF Insert, Inv, TypeOK, ReferentialIntegrity
<1>3. CASE SaveNew(r)
  BY <1>2, <1>3 DEF SaveNew, Violates, Refuse, db
<1>4. CASE SaveEdit(r)
  BY <1>1, <1>4 DEF SaveEdit, Violates, Refuse, db, Visible, Inv, TypeOK
<1>5. CASE SoftDelete(r)
  BY <1>1, <1>5 DEF SoftDelete, Visible, Inv, TypeOK
<1>6. CASE SaveCompleted(r)
  BY <1>6 DEF SaveCompleted
<1>7. CASE SaveClone(r)
  BY <1>2, <1>7 DEF SaveClone, Violates, Refuse, db
<1>8. CASE Purge(r)
  BY <1>1, <1>8 DEF Purge, Inv, TypeOK
<1>9. CASE SaveVehicle(r) \/ UpdateVehicle(r)
  BY <1>9 DEF SaveVehicle, UpdateVehicle, db
<1>10. CASE RemoveVehicle(r)
  BY <1>0, <1>10 DEF RemoveVehicle, Authorised, Request, OnVehicle
<1>11. QED
  BY <1>3, <1>4, <1>5, <1>6, <1>7, <1>8, <1>9, <1>10 DEF Write

(* Rows change only by a write whose user was allowed to make it, however  *)
(* the checks and the writes of different requests interleave.             *)
THEOREM OnlyOwnersChange == Spec => OwnersOnly
<1> DEFINE Allowed ==
      \A id \in Ids : Present(id) /\ entries'[id] # entries[id] =>
        \E r \in Requests :
          /\ pc[r] = "write" /\ pc'[r] # "write"
          /\ \/ req[r].op = "complete"
             \/ Authorised(r, entries[id].author)
<1>1. Inv /\ [Next]_vars => [Allowed]_vars
  <2> SUFFICES ASSUME Inv, Next, NEW id \in Ids, Present(id), entries'[id] # entries[id]
               PROVE  \E r \in Requests :
                        /\ pc[r] = "write" /\ pc'[r] # "write"
                        /\ \/ req[r].op = "complete"
                           \/ Authorised(r, entries[id].author)
    OBVIOUS
  <2>1. PICK r \in Requests : Arrive(r) \/ Check(r) \/ Write(r) \/ After(r) \/ Abort(r)
    BY DEF Next
  <2>2. Write(r)
    BY <2>1, ReadOnly DEF db
  <2>3. QED
    BY <2>2, WriteMoves, WriterAuthorised
<1>2. QED
  BY <1>1, Invariance, PTL DEF Spec, OwnersOnly
-----------------------------------------------------------------------------
(* Every write is a step of Ledger or changes nothing in the database. *)
LEMMA WriteRefines ==
  ASSUME Inv, NEW r \in Requests, Write(r)
  PROVE  Store!Next \/ UNCHANGED db
<1> USE DEF At
<1>0. req[r] \in Request
  BY WriteMoves DEF Inv, TypeOK
<1>1. ASSUME NEW e \in Entry, ~e.deleted, NEW step, Insert(r, e, step)
      PROVE  Store!Next
  <2>1. PICK id \in Ids : Store!Record(id, e)
    BY <1>1 DEF Insert, Store!Record, Inv, TypeOK
  <2>2. QED
    BY <2>1 DEF Store!Next, Entry
<1>2. CASE SaveNew(r)
  <2>1. \A c \in BOOLEAN :
          [kind |-> req[r].kind, author |-> req[r].user, vehicle |-> req[r].vehicle,
           completed |-> c, deleted |-> FALSE] \in Entry
    BY <1>0, <1>2 DEF SaveNew, Request, Entry, Store!Entry
  <2>2. QED
    BY <1>1, <1>2, <2>1 DEF SaveNew, Violates, Refuse
<1>3. CASE SaveEdit(r)
  <2>1. ASSUME Visible(r), req[r].vehicle \in vehicles, NEW c \in BOOLEAN,
               entries' = [entries EXCEPT ![req[r].id] = Edited(r, @, c)],
               UNCHANGED <<vehicles, entrySeq, vehicleSeq>>
        PROVE  Store!Next
    <3>1. req[r].id \in Ids /\ req[r].vehicle \in Vehicles
      BY <1>0, <1>3 DEF SaveEdit, Request, OnEntry
    <3>2. Store!Revise(req[r].id, req[r].vehicle, c)
      BY <2>1, <3>1 DEF Store!Revise, Store!Active, Store!Present, Visible, InTable, Present,
         Edited, Inv, TypeOK
    <3>3. QED
      BY <3>1, <3>2 DEF Store!Next
  <2>2. QED
    BY <1>3, <2>1 DEF SaveEdit, Violates, Refuse
<1>4. CASE SoftDelete(r)
  <2>1. CASE Visible(r)
    <3>1. req[r].id \in Ids /\ Store!Retire(req[r].id)
      BY <1>0, <1>4, <2>1 DEF SoftDelete, Store!Retire, Store!Active, Store!Present, Visible,
         InTable, Present, Request, OnEntry
    <3>2. QED
      BY <3>1 DEF Store!Next
  <2>2. QED
    BY <1>4, <2>1 DEF SoftDelete, db
<1>5. CASE SaveCompleted(r)
  <2>1. CASE Visible(r)
    <3> DEFINE id == req[r].id
               v  == entries[id].vehicle
    <3>1. id \in Ids /\ entries[id] \in Entry /\ v \in vehicles /\ v \in Vehicles
      BY <1>0, <1>5, <2>1, VisibleRow DEF SaveCompleted, OnEntry, Inv, TypeOK
    <3>2. [entries[id] EXCEPT !.completed = TRUE]
            = [entries[id] EXCEPT !.vehicle = v, !.completed = TRUE]
      BY <3>1 DEF Entry, Store!Entry
    <3>3. Store!Revise(id, v, TRUE)
      BY <1>5, <2>1, <3>1, <3>2 DEF SaveCompleted, Store!Revise, Store!Active, Store!Present,
         Visible, InTable, Present, Inv, TypeOK
    <3>4. QED
      BY <3>1, <3>3 DEF Store!Next
  <2>2. QED
    BY <1>5, <2>1 DEF SaveCompleted, db
<1>6. CASE SaveClone(r)
  <2>1. [kind |-> "maintenance", author |-> req[r].user, vehicle |-> row[r].vehicle,
         completed |-> FALSE, deleted |-> FALSE] \in Entry
    BY <1>0, <1>6 DEF SaveClone, Inv, TypeOK, Request, Entry, Store!Entry, Kinds
  <2>2. QED
    BY <1>1, <1>6, <2>1 DEF SaveClone, Violates, Refuse
<1>7. CASE Purge(r)
  <2>1. CASE InTable(r)
    <3>1. req[r].id \in Ids /\ Store!Erase(req[r].id)
      BY <1>0, <1>7, <2>1 DEF Purge, Store!Erase, Store!Present, InTable, Present, Request,
         OnEntry
    <3>2. QED
      BY <3>1 DEF Store!Next
  <2>2. QED
    BY <1>7, <2>1 DEF Purge, db
<1>8. CASE SaveVehicle(r)
  <2>1. PICK v \in Vehicles : Store!Enlist(v)
    BY <1>8 DEF SaveVehicle, Store!Enlist
  <2>2. QED
    BY <2>1 DEF Store!Next
<1>9. CASE UpdateVehicle(r)
  BY <1>9 DEF UpdateVehicle
<1>10. CASE RemoveVehicle(r)
  <2>1. CASE req[r].vehicle \in vehicles
    <3>1. req[r].vehicle \in Vehicles /\ Store!Scrap(req[r].vehicle)
      BY <1>10, <2>1 DEF RemoveVehicle, Store!Scrap, Store!Present, Present, Inv, TypeOK
    <3>2. QED
      BY <3>1 DEF Store!Next
  <2>2. CASE req[r].vehicle \notin vehicles
    <3>1. \A id \in Ids : ~(Present(id) /\ entries[id].vehicle = req[r].vehicle)
      BY <2>2 DEF Inv, ReferentialIntegrity
    <3>2. entries' = entries
      BY <1>10, <3>1 DEF RemoveVehicle, Inv, TypeOK
    <3>3. QED
      BY <1>10, <2>2, <3>2 DEF RemoveVehicle, db
  <2>3. QED
    BY <2>1, <2>2
<1>11. QED
  BY <1>2, <1>3, <1>4, <1>5, <1>6, <1>7, <1>8, <1>9, <1>10 DEF Write

(* Logbook implements Ledger: any interleaving of requests leaves rows that *)
(* are written once, keep table and author, freeze when soft deleted and    *)
(* never outlive their vehicle.                                            *)
THEOREM Refinement == Spec => ImplementsLedger
<1>1. Init => Store!Init
  BY DEF Init
<1>2. Inv /\ [Next]_vars => [Store!Next]_(Store!db)
  <2> SUFFICES ASSUME Inv, Next
               PROVE  Store!Next \/ UNCHANGED db
    BY DEF vars, db, Store!db
  <2>1. PICK r \in Requests : Arrive(r) \/ Check(r) \/ Write(r) \/ After(r) \/ Abort(r)
    BY DEF Next
  <2>2. QED
    BY <2>1, ReadOnly, WriteRefines
<1>3. QED
  BY <1>1, <1>2, Invariance, PTL DEF Spec, ImplementsLedger, Store!Spec
-----------------------------------------------------------------------------
(* Of deletions and audit entries: what a request has committed shows in   *)
(* the row it deleted, which stays deleted, and in the step it is at.      *)
Told == {"add", "edit", "next", "addVehicle"}

Gone(id) == id \in entrySeq /\ (Present(id) => entries[id].deleted)

Progress(r) ==
  /\ hit[r] => pc[r] \in {"owner", "audit", "done"}
  /\ hit[r] /\ req[r].op = "delete" => Gone(req[r].id)
  /\ pc[r] \in {"owner", "audit"} /\ req[r].op \in Told => hit[r]
  /\ audited[r] => pc[r] = "done" /\ (req[r].op \in Told => hit[r])

Progressing == \A r \in Requests : Progress(r)

(* Nobody but r sees what r's step changes outside the database. *)
Alone(r) ==
  \A s \in Requests \ {r} :
    pc'[s] = pc[s] /\ req'[s] = req[s] /\ hit'[s] = hit[s] /\ audited'[s] = audited[s]

(* What was deleted stays deleted: only a row that is active is edited,    *)
(* and an id is handed out once.                                           *)
LEMMA GoneStays ==
  ASSUME Inv, NEW r \in Requests, Write(r), NEW id \in Ids, Gone(id)
  PROVE  Gone(id)'
<1> USE DEF At
<1>0. entries \in [Ids -> Entry \cup {None}]
  BY DEF Inv, TypeOK
<1>1. ASSUME UNCHANGED db
      PROVE  Gone(id)'
  BY <1>1 DEF Gone, Present, db
<1>2. ASSUME NEW e, NEW step, Insert(r, e, step)
      PROVE  Gone(id)'
  BY <1>0, <1>2 DEF Insert, Gone, Present
<1>3. ASSUME entries' = entries \/ (Visible(r) /\ \E e : entries' = [entries EXCEPT ![req[r].id] = e]),
             entrySeq' = entrySeq
      PROVE  Gone(id)'
  BY <1>0, <1>3 DEF Gone, Present, Visible, InTable
<1>4. CASE SaveNew(r)
  BY <1>1, <1>2, <1>4 DEF SaveNew, Violates, Refuse
<1>5. CASE SaveEdit(r)
  BY <1>1, <1>3, <1>5 DEF SaveEdit, Violates, Refuse
<1>6. CASE SoftDelete(r)
  BY <1>3, <1>6 DEF SoftDelete
<1>7. CASE SaveCompleted(r)
  BY <1>3, <1>7 DEF SaveCompleted
<1>8. CASE SaveClone(r)
  BY <1>1, <1>2, <1>8 DEF SaveClone, Violates, Refuse
<1>9. CASE Purge(r)
  BY <1>0, <1>9 DEF Purge, Gone, Present
<1>10. CASE SaveVehicle(r) \/ UpdateVehicle(r)
  BY <1>10 DEF SaveVehicle, UpdateVehicle, Gone, Present, db
<1>11. CASE RemoveVehicle(r)
  BY <1>0, <1>11 DEF RemoveVehicle, Gone, Present
<1>12. QED
  BY <1>4, <1>5, <1>6, <1>7, <1>8, <1>9, <1>10, <1>11 DEF Write

LEMMA GoneKept ==
  ASSUME Inv, Next, NEW id \in Ids, Gone(id)
  PROVE  Gone(id)'
<1>1. PICK r \in Requests : Arrive(r) \/ Check(r) \/ Write(r) \/ After(r) \/ Abort(r)
  BY DEF Next
<1>2. QED
  BY <1>1, GoneStays, ReadOnly DEF Gone, Present, db

LEMMA RefuseProgress ==
  ASSUME Inv, NEW r \in Requests, Progress(r), pc[r] \in Steps, NEW how, Refuse(r, how),
         \A id \in Ids : Gone(id) => Gone(id)'
  PROVE  Progress(r)' /\ Alone(r)
  BY DEF Inv, TypeOK, Progress, Alone, Refuse, Finish, Steps, Request, OnEntry

LEMMA ArriveProgress ==
  ASSUME Inv, NEW r \in Requests, Progress(r), Arrive(r)
  PROVE  Progress(r)' /\ Alone(r)
<1>1. ASSUME NEW q, NEW step \in {"route", "check", "vehicle", "write"}, Begin(r, q, step)
      PROVE  Progress(r)' /\ Alone(r)
  BY <1>1 DEF Inv, TypeOK, Progress, Alone, Begin, Go
<1>2. QED
  BY <1>1 DEF Arrive, AddEntry, EditEntry, DeleteEntry, CompleteMaintenance,
     CreateNextMaintenance, PurgeEntry, AddVehicle, ChangeVehicle

(* A check moves on to a step at which nothing is committed yet. *)
LEMMA CheckProgress ==
  ASSUME Inv, NEW r \in Requests, Progress(r), Check(r),
         \A id \in Ids : Gone(id) => Gone(id)'
  PROVE  Progress(r)' /\ Alone(r)
<1> USE DEF At
<1>1. pc[r] \in {"route", "check", "vehicle", "linked"}
  BY DEF Check, CheckInRoute, CheckOwned, CheckExists, CheckPurge, CheckVehicle,
     CheckVehicleExists, CheckLinked
<1>2. ASSUME NEW step \in {"check", "vehicle", "linked", "write"}, Go(r, step),
             UNCHANGED <<req, hit, audited>>
      PROVE  Progress(r)' /\ Alone(r)
  BY <1>1, <1>2 DEF Inv, TypeOK, Progress, Alone, Go
<1>3. ASSUME NEW how, Refuse(r, how)
      PROVE  Progress(r)' /\ Alone(r)
  BY <1>1, <1>3, RefuseProgress DEF Steps
<1>4. QED
  BY <1>2, <1>3 DEF Check, CheckInRoute, CheckOwned, CheckExists, CheckPurge, CheckVehicle,
     CheckVehicleExists, CheckLinked

(* A write that commits leaves the trace Progress speaks of. *)
LEMMA WriteProgress ==
  ASSUME Inv, NEW r \in Requests, Progress(r), Write(r),
         \A id \in Ids : Gone(id) => Gone(id)'
  PROVE  Progress(r)' /\ Alone(r)
<1> USE DEF At
<1>0. pc[r] = "write" /\ req[r] \in Request /\ ~hit[r] /\ ~audited[r]
  BY WriteMoves DEF Inv, TypeOK, Progress
<1>1. ASSUME NEW how, Refuse(r, how)
      PROVE  Progress(r)' /\ Alone(r)
  BY <1>0, <1>1, RefuseProgress DEF Steps
<1>2. ASSUME NEW changed \in BOOLEAN, NEW step \in {"owner", "audit"}, Commit(r, changed, step),
             req[r].op \in Told => changed,
             changed /\ req[r].op = "delete" => Gone(req[r].id)'
      PROVE  Progress(r)' /\ Alone(r)
  BY <1>0, <1>2 DEF Inv, TypeOK, Progress, Alone, Commit, Go, Finish, Gone, Present
<1>3. CASE SaveNew(r)
  BY <1>1, <1>2, <1>3 DEF SaveNew, Violates, Insert
<1>4. CASE SaveEdit(r)
  BY <1>1, <1>2, <1>4 DEF SaveEdit, Violates
<1>5. CASE SoftDelete(r)
  <2>1. req[r].op = "delete" /\ req[r].id \in Ids
    BY <1>0, <1>5 DEF SoftDelete, Request, OnEntry
  <2>2. ASSUME Visible(r)
        PROVE  Gone(req[r].id)'
    <3>1. /\ entries' = [entries EXCEPT ![req[r].id].deleted = TRUE]
          /\ entrySeq' = entrySeq /\ req' = req
      BY <1>5, <2>2 DEF SoftDelete, Commit, Go
    <3>2. /\ req[r].id \in entrySeq /\ entries[req[r].id] \in Store!Entry
          /\ entries \in [Ids -> Store!Entry \cup {None}]
      BY <2>1, <2>2 DEF Visible, Inv, TypeOK, ReferentialIntegrity, InTable, Present,
         Store!Present, Entry, Store!Entry
    <3>3. entries'[req[r].id] = [entries[req[r].id] EXCEPT !.deleted = TRUE]
      BY <2>1, <3>1, <3>2
    <3>4. entries'[req[r].id].deleted
      BY <3>2, <3>3 DEF Store!Entry
    <3>5. QED
      BY <3>1, <3>2, <3>4 DEF Gone, Present
  <2>3. QED
    BY <1>2, <1>5, <2>1, <2>2 DEF SoftDelete, Told, Visible
<1>6. CASE SaveCompleted(r)
  BY <1>2, <1>6 DEF SaveCompleted, Told, Visible
<1>7. CASE SaveClone(r)
  BY <1>1, <1>2, <1>7 DEF SaveClone, Violates, Insert
<1>8. CASE Purge(r)
  BY <1>0, <1>8 DEF Purge, Inv, TypeOK, Progress, Alone, Finish, Told, InTable, Present
<1>9. CASE SaveVehicle(r)
  BY <1>2, <1>9 DEF SaveVehicle
<1>10. CASE UpdateVehicle(r) \/ RemoveVehicle(r)
  <2>1. (req[r].vehicle \in vehicles) \in BOOLEAN /\ req[r].op \notin Told \cup {"delete"}
    BY <1>10 DEF UpdateVehicle, RemoveVehicle, Told
  <2>2. QED
    BY <1>2, <1>10, <2>1 DEF UpdateVehicle, RemoveVehicle
<1>11. QED
  BY <1>3, <1>4, <1>5, <1>6, <1>7, <1>8, <1>9, <1>10 DEF Write

LEMMA AfterProgress ==
  ASSUME Inv, NEW r \in Requests, Progress(r), After(r),
         \A id \in Ids : Gone(id) => Gone(id)'
  PROVE  Progress(r)' /\ Alone(r)
<1>1. CASE CheckOwner(r)
  <2>1. CASE Go(r, "audit") /\ UNCHANGED <<db, req, row, hit, audited>>
    BY <1>1, <2>1 DEF CheckOwner, Inv, TypeOK, Progress, Alone, Go, Request, OnEntry
  <2>2. QED
    BY <1>1, <2>1, RefuseProgress DEF CheckOwner, Steps
<1>2. CASE WriteAudit(r)
  BY <1>2 DEF WriteAudit, Inv, TypeOK, Progress, Alone, Finish, Request, OnEntry
<1>3. CASE Reply(r)
  BY <1>3 DEF Reply, Inv, TypeOK, Progress, Alone
<1>4. QED
  BY <1>1, <1>2, <1>3 DEF After

LEMMA NextProgressing == Inv /\ Progressing /\ [Next]_vars => Progressing'
<1>1. ASSUME Progressing, UNCHANGED vars
      PROVE  Progressing'
  BY <1>1 DEF Progressing, Progress, Gone, Present, vars
<1>2. ASSUME Inv, Progressing, Next
      PROVE  Progressing'
  <2>1. \A id \in Ids : Gone(id) => Gone(id)'
    BY <1>2, GoneKept
  <2>2. PICK r \in Requests : Arrive(r) \/ Check(r) \/ Write(r) \/ After(r) \/ Abort(r)
    BY <1>2 DEF Next
  <2>3. Progress(r)
    BY <1>2 DEF Progressing
  <2>4. Progress(r)' /\ Alone(r)
    BY <1>2, <2>1, <2>2, <2>3, ArriveProgress, CheckProgress, WriteProgress, AfterProgress,
       RefuseProgress DEF Abort
  <2>5. ASSUME NEW s \in Requests \ {r}
        PROVE  Progress(s)'
    <3>1. Progress(s)
      BY <1>2 DEF Progressing
    <3>2. pc'[s] = pc[s] /\ req'[s] = req[s] /\ hit'[s] = hit[s] /\ audited'[s] = audited[s]
      BY <2>4 DEF Alone
    <3>3. hit[s] /\ req[s].op = "delete" => req[s].id \in Ids
      BY <1>2, <3>1 DEF Progress, Inv, TypeOK, Request, OnEntry
    <3>4. QED
      BY <2>1, <3>1, <3>2, <3>3 DEF Progress
  <2>6. QED
    BY <2>4, <2>5 DEF Progressing
<1>3. QED
  BY <1>1, <1>2

LEMMA InitProgressing == Init => Progressing
  BY DEF Init, Progressing, Progress

LEMMA AlwaysProgressing == Spec => []Progressing
  BY InitProgressing, NextProgressing, Invariance, PTL DEF Spec

(* Of an entry, an edit, a clone or a new vehicle the audit log tells only *)
(* what is committed.                                                      *)
THEOREM AuditTruth == Spec => []AuditTellsTruth
<1>1. Progressing => AuditTellsTruth
  BY DEF Progressing, Progress, AuditTellsTruth, Told
<1>2. QED
  BY <1>1, AlwaysProgressing, PTL
(* A request begins with nothing committed; where r's flag is raised by its *)
(* step, r has just written.                                                *)
LEMMA OneDeletionStep ==
  ASSUME Inv, Progressing, SingleDeletion, NEW r \in Requests,
         Arrive(r) \/ Check(r) \/ Write(r) \/ After(r) \/ Abort(r)
  PROVE  /\ hit'[r] /\ ~hit[r] /\ req'[r].op = "delete" =>
              SoftDelete(r) /\ Visible(r) /\ req'[r] = req[r]
         /\ hit'[r] /\ hit[r] => req'[r] = req[r]
<1> USE DEF At
<1>1. CASE Arrive(r)
  <2>1. ~hit[r] /\ hit' = hit
    BY <1>1 DEF Arrive, AddEntry, EditEntry, DeleteEntry, CompleteMaintenance,
       CreateNextMaintenance, PurgeEntry, AddVehicle, ChangeVehicle, Begin, Progressing, Progress
  <2>2. QED
    BY <2>1
<1>2. CASE Check(r) \/ Abort(r)
  <2>1. hit' = hit /\ req' = req
    BY <1>2 DEF Check, CheckInRoute, CheckOwned, CheckExists, CheckPurge, CheckVehicle,
       CheckVehicleExists, CheckLinked, Abort, Refuse
  <2>2. QED
    BY <2>1
<1>3. CASE After(r)
  <2>1. (hit' = hit /\ req' = req) \/ ~hit'[r]
    BY <1>3 DEF After, CheckOwner, WriteAudit, Reply, Refuse, Inv, TypeOK
  <2>2. QED
    BY <2>1
<1>4. CASE Write(r)
  <2>1. req' = req
    BY <1>4 DEF Write, SaveNew, SaveEdit, SoftDelete, SaveCompleted, SaveClone, Purge,
       SaveVehicle, UpdateVehicle, RemoveVehicle, Violates, Refuse, Insert, Commit
  <2>2. req[r].op = "delete" => SoftDelete(r)
    BY <1>4 DEF Write, SaveNew, SaveEdit, SoftDelete, SaveCompleted, SaveClone, Purge,
       SaveVehicle, UpdateVehicle, RemoveVehicle, OnVehicle
  <2>3. SoftDelete(r) /\ hit'[r] => Visible(r)
    BY DEF SoftDelete, Commit, Inv, TypeOK
  <2>4. QED
    BY <2>1, <2>2, <2>3
<1>5. QED
  BY <1>1, <1>2, <1>3, <1>4

LEMMA NextOneDeletion ==
  Inv /\ Progressing /\ SingleDeletion /\ [Next]_vars => SingleDeletion'
<1>1. ASSUME SingleDeletion, UNCHANGED vars
      PROVE  SingleDeletion'
  BY <1>1 DEF SingleDeletion, vars
<1>2. ASSUME Inv, Progressing, SingleDeletion, Next
      PROVE  SingleDeletion'
  <2>1. PICK r \in Requests : Arrive(r) \/ Check(r) \/ Write(r) \/ After(r) \/ Abort(r)
    BY <1>2 DEF Next
  <2>2. Alone(r)
    BY <1>2, <2>1, GoneKept, ArriveProgress, CheckProgress, WriteProgress, AfterProgress,
       RefuseProgress DEF Abort, Progressing
  <2>3. ASSUME NEW s \in Requests, s # r, hit'[r], hit'[s],
               req'[r].op = "delete", req'[s].op = "delete"
        PROVE  req'[r].id # req'[s].id
    <3>1. hit[s] /\ req'[s] = req[s]
      BY <2>2, <2>3 DEF Alone
    <3>2. Gone(req[s].id)
      BY <1>2, <2>3, <3>1 DEF Progressing, Progress
    <3>3. CASE hit[r]
      BY <1>2, <2>1, <2>3, <3>1, <3>3, OneDeletionStep DEF SingleDeletion
    <3>4. CASE ~hit[r]
      BY <1>2, <2>1, <2>3, <3>1, <3>2, <3>4, OneDeletionStep DEF Gone, Visible, InTable
    <3>5. QED
      BY <3>3, <3>4
  <2>4. ASSUME NEW s \in Requests \ {r}, NEW q \in Requests \ {r}, s # q, hit'[s], hit'[q],
               req'[s].op = "delete", req'[q].op = "delete"
        PROVE  req'[s].id # req'[q].id
    BY <1>2, <2>2, <2>4 DEF Alone, SingleDeletion
  <2>5. QED
    BY <2>3, <2>4 DEF SingleDeletion
<1>3. QED
  BY <1>1, <1>2

(* Of the requests that delete one entry at the same time at most one finds *)
(* it active, however many there are.                                       *)
THEOREM OneDeletion == Spec => []SingleDeletion
<1>1. Init => SingleDeletion
  BY DEF Init, SingleDeletion
<1>2. QED
  BY <1>1, NextOneDeletion, AlwaysProgressing, Invariance, PTL DEF Spec
=============================================================================
