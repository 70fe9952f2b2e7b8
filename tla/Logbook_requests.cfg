\* Two requests at a time: on the maintenance entries of a vehicle by two users,
\* or on trips and fuel entries whose vehicles come and go.
CONSTANTS
  Requests = {r1, r2}
  Users = {u1, u2}
  Vehicles = {v1, v2}
  Ids = {e1, e2}
  None = None
  Tables <- MCTables
  InUse <- MCInUse
SPECIFICATION MCSpec
SYMMETRY Symmetry
ACTION_CONSTRAINT Bounded
INVARIANTS TypeOK CheckedAuthor SingleDeletion AuditTellsTruth ReferentialIntegrity
PROPERTIES OwnersOnly ImplementsLedger
