------------------------------ MODULE Logbook ------------------------------
(***************************************************************************)
(* The write path of the logbook: HTTP requests that add, edit, delete,    *)
(* complete, clone and purge entries and that manage vehicles, served at   *)
(* the same time by the threads of the gunicorn workers against one        *)
(* PostgreSQL database at READ COMMITTED.                                  *)
(*                                                                         *)
(* Requests are the threads, each serving one request after another.       *)
(* Every SELECT a request makes is a step of its own,                      *)
(* reading what is committed at that moment, so that other requests commit *)
(* between its checks and its write.  A request has at most one writing    *)
(* statement, followed at once by commit: the two are one step, because a  *)
(* concurrent writer of the same row waits for the commit and then applies *)
(* its own WHERE clause to the new row.  AuditService.log is a later       *)
(* transaction on a connection of its own.                                 *)
(***************************************************************************)
CONSTANTS
  Requests,   \* the worker threads, each with the request it serves
  Users,      \* session['username'] and added_by
  Vehicles,   \* ids of vehicles
  Ids,        \* ids of entries
  None        \* stands for a row, a request or a field that is not there

VARIABLES
  vehicles, entries, entrySeq, vehicleSeq,   \* the database, see Ledger
  pc,        \* pc[r]: the step r takes next, "idle" before and "done" after it
  req,       \* req[r]: what r asks for, and the session it comes with
  row,       \* row[r]: the row r's own SELECT returned
  outcome,   \* outcome[r]: how r was answered
  hit,       \* hit[r]: r's transaction committed a change to some row
  audited    \* audited[r]: a row about r is committed in audit_log

Kinds == {"trip", "fuel", "maintenance"}

(* The tables with edit and delete routes of their own; trips have none. *)
Editable == {"fuel", "maintenance"}

Store == INSTANCE Ledger
Entry == Store!Entry

db   == <<vehicles, entries, entrySeq, vehicleSeq>>
vars == <<vehicles, entries, entrySeq, vehicleSeq, pc, req, row, outcome, hit, audited>>

OnEntry   == {"edit", "delete", "complete", "next", "purge"}   \* id in the URL
OnVehicle == {"editVehicle", "delVehicle"}
Ops       == OnEntry \cup OnVehicle \cup {"add", "addVehicle"}

Steps    == {"route", "check", "vehicle", "linked", "write", "owner", "audit"}
Outcomes == {"none", "ok", "invalid", "notfound", "forbidden", "integrity", "error"}

(* kind and id name a row, vehicle is the vehicle_id of the form or URL. *)
Request ==
  {q \in [id : Ids \cup {None}, op : Ops, kind : Kinds \cup {None}, user : Users,
          isAdmin : BOOLEAN, vehicle : Vehicles \cup {None}] :
     /\ q.op \in OnEntry => q.id \in Ids
     /\ q.op \in OnEntry \cup {"add"} => q.kind \in Kinds
     /\ q.op \in OnVehicle \cup {"add", "edit"} => q.vehicle \in Vehicles
     /\ q.op \in OnVehicle \cup {"addVehicle"} => q.isAdmin}

ASSUME NoneAssumption == None \notin Request /\ None \notin Entry

-----------------------------------------------------------------------------
(* Reading the database. *)

Present(id) == entries[id] # None

(* WHERE id = %s, in the table the URL names *)
InTable(r) == Present(req[r].id) /\ entries[req[r].id].kind = req[r].kind

(* ... AND deleted_at IS NULL *)
Visible(r) == InTable(r) /\ ~entries[req[r].id].deleted

(* added_by against the user name and the admin flag of the session *)
Authorised(r, author) == req[r].isAdmin \/ req[r].user = author

(* has_linked_rows counts active rows only. *)
HasLinkedRows(v) ==
  \E id \in Ids : Present(id) /\ entries[id].vehicle = v /\ ~entries[id].deleted

-----------------------------------------------------------------------------
(* Moving a request. *)

At(r, ops, step) == pc[r] = step /\ req[r].op \in ops

Go(r, step) ==
  /\ pc' = [pc EXCEPT ![r] = step]
  /\ UNCHANGED outcome

Finish(r, how) ==
  /\ pc' = [pc EXCEPT ![r] = "done"]
  /\ outcome' = [outcome EXCEPT ![r] = how]

(* A refusal: rollback, nothing written. *)
Refuse(r, how) == Finish(r, how) /\ UNCHANGED <<db, req, row, hit, audited>>

(* The transaction commits; the reply to COMMIT may still be lost. *)
Commit(r, changed, step) ==
  /\ hit' = [hit EXCEPT ![r] = changed]
  /\ Go(r, step) \/ Finish(r, "error")
  /\ UNCHANGED <<req, row, audited>>

Begin(r, q, step) ==
  /\ pc[r] = "idle"
  /\ req' = [req EXCEPT ![r] = q]
  /\ Go(r, step)
  /\ UNCHANGED <<db, row, hit, audited>>

-----------------------------------------------------------------------------
(* Requests arrive: login_required has let them pass, admin_required too   *)
(* where it is asked; the form has passed the route.                       *)

Ask(op, u, a, k, id, v) ==
  [id |-> id, op |-> op, kind |-> k, user |-> u, isAdmin |-> a, vehicle |-> v]

AddEntry(r) ==
  \E u \in Users, a \in BOOLEAN, k \in Kinds, v \in Vehicles :
    Begin(r, Ask("add", u, a, k, None, v), "vehicle")

EditEntry(r) ==
  \E u \in Users, a \in BOOLEAN, k \in Editable, id \in Ids, v \in Vehicles :
    Begin(r, Ask("edit", u, a, k, id, v), "route")

DeleteEntry(r) ==
  \E u \in Users, a \in BOOLEAN, k \in Editable, id \in Ids :
    Begin(r, Ask("delete", u, a, k, id, None), "check")

CompleteMaintenance(r) ==
  \E u \in Users, a \in BOOLEAN, id \in Ids :
    Begin(r, Ask("complete", u, a, "maintenance", id, None), "check")

CreateNextMaintenance(r) ==
  \E u \in Users, a \in BOOLEAN, id \in Ids :
    Begin(r, Ask("next", u, a, "maintenance", id, None), "check")

PurgeEntry(r) ==
  \E u \in Users, a \in BOOLEAN, k \in Kinds, id \in Ids :
    Begin(r, Ask("purge", u, a, k, id, None), "check")

AddVehicle(r) ==
  \E u \in Users : Begin(r, Ask("addVehicle", u, TRUE, None, None, None), "write")

ChangeVehicle(r) ==
  \E u \in Users, op \in OnVehicle, v \in Vehicles :
    Begin(r, Ask(op, u, TRUE, None, None, v), "check")

-----------------------------------------------------------------------------
(* Checks.  The edit route reads the row for itself, then the use case     *)
(* reads it again; delete, complete and next read it inside the repository *)
(* transaction; the legacy purge does not look at deleted_at.              *)

Selected(r) ==
  row' = [row EXCEPT ![r] = entries[req[r].id]]

CheckInRoute(r) ==
  /\ At(r, {"edit"}, "route")
  /\ \/ ~Visible(r) /\ Refuse(r, "notfound")
     \/ /\ Visible(r)
        /\ ~Authorised(r, entries[req[r].id].author)
        /\ Refuse(r, "forbidden")
     \/ /\ Visible(r)
        /\ Authorised(r, entries[req[r].id].author)
        /\ Go(r, "check")
        /\ UNCHANGED <<db, req, row, hit, audited>>

CheckOwned(r) ==
  /\ At(r, {"edit", "delete"}, "check")
  /\ \/ ~Visible(r) /\ Refuse(r, "notfound")
     \/ /\ Visible(r)
        /\ ~Authorised(r, entries[req[r].id].author)
        /\ Refuse(r, "forbidden")
     \/ /\ Visible(r)
        /\ Authorised(r, entries[req[r].id].author)
        /\ Selected(r)
        /\ Go(r, IF req[r].op = "edit" THEN "vehicle" ELSE "write")
        /\ UNCHANGED <<db, req, hit, audited>>

(* slip: the row is read but not handed on *)
CheckExists_RowDropped(r) ==
  /\ At(r, {"complete", "next"}, "check")
  /\ \/ ~Visible(r) /\ Refuse(r, "notfound")
     \/ Visible(r) /\ Go(r, "write") /\ UNCHANGED <<db, req, row, hit, audited>>

(* complete and create_next ask only whether the row is there. *)
CheckExists(r) ==
  /\ At(r, {"complete", "next"}, "check")
  /\ \/ ~Visible(r) /\ Refuse(r, "notfound")
     \/ /\ Visible(r)
        /\ Selected(r)
        /\ Go(r, "write")
        /\ UNCHANGED <<db, req, hit, audited>>

(* slip: the legacy route forgets to compare the author *)
CheckPurge_AnyUser(r) ==
  /\ At(r, {"purge"}, "check")
  /\ \/ ~InTable(r) /\ Refuse(r, "notfound")
     \/ InTable(r) /\ Selected(r) /\ Go(r, "write") /\ UNCHANGED <<db, req, hit, audited>>

CheckPurge(r) ==
  /\ At(r, {"purge"}, "check")
  /\ \/ ~InTable(r) /\ Refuse(r, "notfound")
     \/ /\ InTable(r)
        /\ ~Authorised(r, entries[req[r].id].author)
        /\ Refuse(r, "forbidden")
     \/ /\ InTable(r)
        /\ Authorised(r, entries[req[r].id].author)
        /\ Selected(r)
        /\ Go(r, "write")
        /\ UNCHANGED <<db, req, hit, audited>>

(* validation of the fields, then VehicleRepository.get_active *)
CheckVehicle(r) ==
  /\ At(r, {"add", "edit"}, "vehicle")
  /\ \/ Refuse(r, "invalid")
     \/ /\ req[r].vehicle \in vehicles
        /\ Go(r, "write")
        /\ UNCHANGED <<db, req, row, hit, audited>>

CheckVehicleExists(r) ==
  /\ At(r, OnVehicle, "check")
  /\ \/ req[r].vehicle \notin vehicles /\ Refuse(r, "notfound")
     \/ /\ req[r].vehicle \in vehicles
        /\ Go(r, IF req[r].op = "delVehicle" THEN "linked" ELSE "write")
        /\ UNCHANGED <<db, req, row, hit, audited>>

CheckLinked(r) ==
  /\ At(r, {"delVehicle"}, "linked")
  /\ \/ HasLinkedRows(req[r].vehicle) /\ Refuse(r, "forbidden")
     \/ /\ ~HasLinkedRows(req[r].vehicle)
        /\ Go(r, "write")
        /\ UNCHANGED <<db, req, row, hit, audited>>

-----------------------------------------------------------------------------
(* Writes.  A CHECK constraint or a missing vehicle raises IntegrityError. *)

Violates(r) == Refuse(r, "integrity")

Insert(r, e, step) ==
  \E id \in Ids \ entrySeq :
    /\ e.vehicle \in vehicles
    /\ entries' = [entries EXCEPT ![id] = e]
    /\ entrySeq' = entrySeq \cup {id}
    /\ UNCHANGED <<vehicles, vehicleSeq>>
    /\ Commit(r, TRUE, step)

SaveNew(r) ==
  /\ At(r, {"add"}, "write")
  /\ \/ Violates(r)
     \/ \E c \in BOOLEAN :
          /\ c => req[r].kind = "maintenance"
          /\ Insert(r, [kind |-> req[r].kind, vehicle |-> req[r].vehicle,
                        deleted |-> FALSE, author |-> req[r].user,
                        completed |-> c], "audit")

(* The values an UPDATE writes: status is a column of maintenance only. *)
Edited(r, e, c) == [e EXCEPT !.vehicle = req[r].vehicle, !.completed = c]

(* slip: the UPDATE also sets added_by *)
SaveEdit_TakesOver(r) ==
  /\ At(r, {"edit"}, "write")
  /\ Visible(r) /\ req[r].vehicle \in vehicles
  /\ entries' = [entries EXCEPT ![req[r].id] =
                   [Edited(r, @, FALSE) EXCEPT !.author = req[r].user]]
  /\ UNCHANGED <<vehicles, entrySeq, vehicleSeq>>
  /\ Commit(r, TRUE, "audit")

(* slip: the UPDATE goes by id alone *)
SaveEdit_Deleted(r) ==
  /\ At(r, {"edit"}, "write")
  /\ InTable(r) /\ req[r].vehicle \in vehicles
  /\ entries' = [entries EXCEPT ![req[r].id] = Edited(r, @, req[r].kind = "maintenance")]
  /\ UNCHANGED <<vehicles, entrySeq, vehicleSeq>>
  /\ Commit(r, TRUE, "audit")

(* slip: rowcount = 0 is no error *)
SaveEdit_NoRowCount(r) ==
  /\ At(r, {"edit"}, "write")
  /\ entries' = IF Visible(r) THEN [entries EXCEPT ![req[r].id] = Edited(r, @, FALSE)]
                              ELSE entries
  /\ UNCHANGED <<vehicles, entrySeq, vehicleSeq>>
  /\ Commit(r, Visible(r), "audit")

(* slip: get_active is trusted, the column has no REFERENCES *)
SaveEdit_NoForeignKey(r) ==
  /\ At(r, {"edit"}, "write")
  /\ Visible(r)
  /\ entries' = [entries EXCEPT ![req[r].id] = Edited(r, @, FALSE)]
  /\ UNCHANGED <<vehicles, entrySeq, vehicleSeq>>
  /\ Commit(r, TRUE, "audit")

SaveEdit(r) ==
  /\ At(r, {"edit"}, "write")
  /\ \/ Violates(r)
     \/ ~Visible(r) /\ Refuse(r, "notfound")
     \/ /\ Visible(r)
        /\ req[r].vehicle \in vehicles
        /\ \E c \in BOOLEAN :
             /\ c => req[r].kind = "maintenance"
             /\ entries' = [entries EXCEPT ![req[r].id] = Edited(r, @, c)]
        /\ UNCHANGED <<vehicles, entrySeq, vehicleSeq>>
        /\ Commit(r, TRUE, "audit")

(* slip: soft_delete goes by id alone *)
SoftDelete_Again(r) ==
  /\ At(r, {"delete"}, "write")
  /\ entries' = IF InTable(r) THEN [entries EXCEPT ![req[r].id].deleted = TRUE] ELSE entries
  /\ UNCHANGED <<vehicles, entrySeq, vehicleSeq>>
  /\ Commit(r, InTable(r), "audit")

(* soft_delete; its rowcount is not looked at *)
SoftDelete(r) ==
  /\ At(r, {"delete"}, "write")
  /\ entries' = IF Visible(r) THEN [entries EXCEPT ![req[r].id].deleted = TRUE]
                              ELSE entries
  /\ UNCHANGED <<vehicles, entrySeq, vehicleSeq>>
  /\ Commit(r, Visible(r), "audit")

SaveCompleted(r) ==
  /\ At(r, {"complete"}, "write")
  /\ entries' = IF Visible(r) THEN [entries EXCEPT ![req[r].id].completed = TRUE]
                              ELSE entries
  /\ UNCHANGED <<vehicles, entrySeq, vehicleSeq>>
  /\ Commit(r, Visible(r), "owner")

(* the clone belongs to whoever asked for it *)
SaveClone(r) ==
  /\ At(r, {"next"}, "write")
  /\ \/ row[r].vehicle \notin vehicles /\ Violates(r)
     \/ Insert(r, [kind |-> "maintenance", vehicle |-> row[r].vehicle,
                   deleted |-> FALSE, author |-> req[r].user,
                   completed |-> FALSE], "owner")

(* a hard delete, without an audit entry *)
Purge(r) ==
  /\ At(r, {"purge"}, "write")
  /\ entries' = IF InTable(r) THEN [entries EXCEPT ![req[r].id] = None] ELSE entries
  /\ hit' = [hit EXCEPT ![r] = InTable(r)]
  /\ Finish(r, "ok") \/ Finish(r, "error")
  /\ UNCHANGED <<vehicles, entrySeq, vehicleSeq, req, row, audited>>

SaveVehicle(r) ==
  /\ At(r, {"addVehicle"}, "write")
  /\ \E v \in Vehicles \ vehicleSeq :
       /\ vehicles' = vehicles \cup {v}
       /\ vehicleSeq' = vehicleSeq \cup {v}
  /\ UNCHANGED <<entries, entrySeq>>
  /\ Commit(r, TRUE, "audit")

(* name, plate and type only; no row, no complaint *)
UpdateVehicle(r) ==
  /\ At(r, {"editVehicle"}, "write")
  /\ UNCHANGED db
  /\ Commit(r, req[r].vehicle \in vehicles, "audit")

(* slip: the foreign key does not cascade *)
RemoveVehicle_NoCascade(r) ==
  /\ At(r, {"delVehicle"}, "write")
  /\ vehicles' = vehicles \ {req[r].vehicle}
  /\ UNCHANGED <<entries, entrySeq, vehicleSeq>>
  /\ Commit(r, req[r].vehicle \in vehicles, "audit")

(* ON DELETE CASCADE takes every row of the vehicle, soft-deleted or not *)
RemoveVehicle(r) ==
  /\ At(r, {"delVehicle"}, "write")
  /\ vehicles' = vehicles \ {req[r].vehicle}
  /\ entries' = [id \in Ids |->
                   IF Present(id) /\ entries[id].vehicle = req[r].vehicle
                     THEN None ELSE entries[id]]
  /\ UNCHANGED <<entrySeq, vehicleSeq>>
  /\ Commit(r, req[r].vehicle \in vehicles, "audit")

-----------------------------------------------------------------------------
(* After the commit. *)

(* CompleteMaintenance and CreateNext compare the owner only now. *)
CheckOwner(r) ==
  /\ pc[r] = "owner"
  /\ \/ ~Authorised(r, row[r].author) /\ Refuse(r, "forbidden")
     \/ /\ Authorised(r, row[r].author)
        /\ Go(r, "audit")
        /\ UNCHANGED <<db, req, row, hit, audited>>

(* A database error is logged and swallowed: the entry is missing then.     *)
(* get_pool, before it, and putconn, after it, may still raise.            *)
WriteAudit(r) ==
  /\ pc[r] = "audit"
  /\ \E ok \in BOOLEAN : audited' = [audited EXCEPT ![r] = ok]
  /\ Finish(r, "ok") \/ Finish(r, "error")
  /\ UNCHANGED <<db, req, row, hit>>

(* The database fails before the commit, or the worker dies. *)
Abort(r) ==
  /\ pc[r] \in Steps
  /\ Refuse(r, "error")

(* The answer is out; the thread takes the next request. *)
Reply(r) ==
  /\ pc[r] = "done"
  /\ pc' = [pc EXCEPT ![r] = "idle"]
  /\ req' = [req EXCEPT ![r] = None]
  /\ row' = [row EXCEPT ![r] = None]
  /\ outcome' = [outcome EXCEPT ![r] = "none"]
  /\ hit' = [hit EXCEPT ![r] = FALSE]
  /\ audited' = [audited EXCEPT ![r] = FALSE]
  /\ UNCHANGED db

-----------------------------------------------------------------------------
Init ==
  /\ Store!Init
  /\ \A id \in Ids : Present(id) =>
       /\ entries[id].completed => entries[id].kind = "maintenance"
       /\ entries[id].deleted => entries[id].kind \in Editable
  /\ pc = [r \in Requests |-> "idle"]
  /\ req = [r \in Requests |-> None]
  /\ row = [r \in Requests |-> None]
  /\ outcome = [r \in Requests |-> "none"]
  /\ hit = [r \in Requests |-> FALSE]
  /\ audited = [r \in Requests |-> FALSE]

Arrive(r) ==
  \/ AddEntry(r) \/ EditEntry(r) \/ DeleteEntry(r)
  \/ CompleteMaintenance(r) \/ CreateNextMaintenance(r) \/ PurgeEntry(r)
  \/ AddVehicle(r) \/ ChangeVehicle(r)

Check(r) ==
  \/ CheckInRoute(r) \/ CheckOwned(r) \/ CheckExists(r) \/ CheckPurge(r)
  \/ CheckVehicle(r) \/ CheckVehicleExists(r) \/ CheckLinked(r)

Write(r) ==
  \/ SaveNew(r) \/ SaveEdit(r) \/ SoftDelete(r) \/ SaveCompleted(r) \/ SaveClone(r)
  \/ Purge(r) \/ SaveVehicle(r) \/ UpdateVehicle(r) \/ RemoveVehicle(r)

After(r) == CheckOwner(r) \/ WriteAudit(r) \/ Reply(r)

Next == \E r \in Requests : Arrive(r) \/ Check(r) \/ Write(r) \/ After(r) \/ Abort(r)

Spec == Init /\ [][Next]_vars
-----------------------------------------------------------------------------
(* Every variable has its type, and a request that is under way has the    *)
(* fields and the row its operation needs.                                 *)
TypeOK ==
  /\ vehicleSeq \in SUBSET Vehicles
  /\ vehicles \in SUBSET vehicleSeq
  /\ entrySeq \in SUBSET Ids
  /\ entries \in [Ids -> Entry \cup {None}]
  /\ pc \in [Requests -> Steps \cup {"idle", "done"}]
  /\ req \in [Requests -> Request \cup {None}]
  /\ row \in [Requests -> Entry \cup {None}]
  /\ outcome \in [Requests -> Outcomes]
  /\ hit \in [Requests -> BOOLEAN]
  /\ audited \in [Requests -> BOOLEAN]
  /\ \A r \in Requests :
       /\ pc[r] # "idle" => req[r] \in Request
       /\ pc[r] = "owner" => req[r].op \in {"complete", "next"}
       /\ pc[r] \in {"write", "owner"} /\ req[r].op \in {"complete", "next"} => row[r] \in Entry

(* No row outlives its vehicle and none has an id the identity column did  *)
(* not hand out, although get_active looks at the vehicle in a statement   *)
(* before the INSERT or UPDATE and a vehicle may be deleted in between.    *)
ReferentialIntegrity ==
  \A id \in Ids : Present(id) => id \in entrySeq /\ entries[id].vehicle \in vehicles

(* A check made before the write still holds at the write: the row a       *)
(* request is about to edit, delete or purge, if it is still there, belongs *)
(* to the requester, or the requester is an administrator.                 *)
CheckedAuthor ==
  \A r \in Requests :
    pc[r] \in {"vehicle", "write"} /\ req[r].op \in {"edit", "delete", "purge"} =>
      /\ req[r].id \in entrySeq
      /\ InTable(r) => Authorised(r, entries[req[r].id].author)

(* A row changes or goes only by the write of a request whose user is its  *)
(* author or an administrator.  Completing is the exception, see           *)
(* ForbiddenChangesNothing.                                                *)
OwnersOnly ==
  [][\A id \in Ids : Present(id) /\ entries'[id] # entries[id] =>
       \E r \in Requests :
         /\ pc[r] = "write" /\ pc'[r] # "write"
         /\ \/ req[r].op = "complete"
            \/ Authorised(r, entries[id].author)]_vars

(* Of the requests that delete the same entry at the same time, at most    *)
(* one finds it still active: soft_delete repeats the test on deleted_at.  *)
SingleDeletion ==
  \A r, s \in Requests :
    /\ r # s /\ hit[r] /\ hit[s]
    /\ req[r].op = "delete" /\ req[s].op = "delete"
    => req[r].id # req[s].id

(* audit_log speaks of an added, edited or cloned entry, or of an added    *)
(* vehicle, only when that write is committed.                             *)
AuditTellsTruth ==
  \A r \in Requests :
    audited[r] /\ req[r].op \in {"add", "edit", "next", "addVehicle"} => hit[r]

(* Whatever the interleaving, rows live the life Ledger describes: written *)
(* once under a fresh id, never changing table or author, frozen once soft *)
(* deleted, gone for good once erased, and never without their vehicle.    *)
ImplementsLedger == Store!Spec

-----------------------------------------------------------------------------
(* What the code says of itself and does not keep.                         *)

(* CompleteMaintenanceUseCase and CreateNextMaintenanceUseCase:           *)
(* "ForbiddenError: if requester is neither owner nor admin", so a refused *)
(* request leaves every row as it was and adds none.                       *)
ForbiddenChangesNothing ==
  \A r \in Requests : outcome[r] = "forbidden" => ~hit[r]
=============================================================================
