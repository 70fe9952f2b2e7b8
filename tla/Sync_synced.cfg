\* The session is too old when the queue is flushed.
SPECIFICATION Spec
CONSTANTS
  Entries = {e1}
  Users = {u1}
  None = None
  MaxLogins = 1
  MaxItems = 1
  MaxTroubles = 0
INVARIANTS SyncedIsSaved
