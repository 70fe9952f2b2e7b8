\* A trip is confirmed while the queue is flushed.
CONSTANTS
  Trips = {t1, t2}
  Tabs = {w1}
  Flushes = {f1}
  None = None
  Legacy <- NoLegacy
  Troubles = {{"overlap"}}
  MaxFailures = 2
SPECIFICATION Spec
INVARIANTS KeptUntilSaved
