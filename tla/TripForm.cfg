\* Two administrators manage the equipment; or the trip form is filled in, with
\* equipment lists that cross or with cards that cross.
CONSTANTS
  Vehicles = {v1, v2}
  Items = {e1, e2, e3}
  Trips = {t1, t2}
  Names = {n1, n2}
  Defaults = {n1, n2}
  Admins = {a1, a2}
  None = None
  Tabs = {w1, w2}
  Quick = {q1, q2}
  Troubles <- EquipmentOrCard
  MaxAsked = 2
  MaxLoads = 2
SPECIFICATION MCSpec
CHECK_DEADLOCK FALSE
SYMMETRY Symmetry
ACTION_CONSTRAINT Bounded
INVARIANTS Consistent UniqueDefaults WholeTrips OwnEquipment
PROPERTIES CardKept
