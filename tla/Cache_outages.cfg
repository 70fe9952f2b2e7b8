\* Lists and readings, by two workers, with Redis coming and going.
CONSTANTS
  Workers = {w1, w2}
  PerWorker = 1
  Vehicles = {v1}
  None = None
  SnapshotTtl = 1
  CardsTtl = 1
  LastKmTtl = 1
  ListTtl = 1
  Slow = 0
  MaxSize = 1
  Outages = TRUE
  Horizon = 2
  MaxCommits = 1
  Asked = {v1, "vehicles"}
  Saves = {"fleet"}
SPECIFICATION Spec
SYMMETRY Symmetry
ACTION_CONSTRAINT Bounded
PROPERTIES ImplementsFreshness
