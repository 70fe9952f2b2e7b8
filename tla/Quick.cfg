\* Two tabs; answers are lost and pages left in the middle of a flush, or whatever
\* may happen but two handlers waiting at the same time.
CONSTANTS
  Trips = {t1, t2}
  Tabs = {w1, w2}
  Flushes = {f1}
  None = None
  Legacy <- OneLegacy
  Troubles <- WithAndWithoutLosses
  MaxFailures = 3
SPECIFICATION LiveSpec
INVARIANTS TypeOK KeptUntilSaved SavedOnce
PROPERTIES EventuallySaved
