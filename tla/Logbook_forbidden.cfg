\* A user completes or clones an entry of somebody else.
CONSTANTS
  Requests = {r1, r2}
  Users = {u1, u2}
  Vehicles = {v1}
  Ids = {e1, e2}
  None = None
  Tables <- MCTables
  InUse <- OnlyCompletion
SPECIFICATION MCSpec
SYMMETRY Symmetry
ACTION_CONSTRAINT Bounded
INVARIANTS ForbiddenChangesNothing
