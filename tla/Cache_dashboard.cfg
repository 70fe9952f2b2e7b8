\* The dashboard and its cached parts, by two threads of a worker that may be slow.
CONSTANTS
  Workers = {w1}
  PerWorker = 2
  Vehicles = {v1, v2}
  None = None
  SnapshotTtl = 2
  CardsTtl = 1
  LastKmTtl = 1
  ListTtl = 1
  Slow = 1
  MaxSize = 1
  Outages = FALSE
  Horizon = 7
  MaxCommits = 1
  Asked = {"snapshot"}
  Saves = {v1, v2}
SPECIFICATION Spec
SYMMETRY Symmetry
ACTION_CONSTRAINT Bounded
INVARIANTS TypeOK InvalidationComplete MemoryBounded
PROPERTIES ImplementsFreshness
