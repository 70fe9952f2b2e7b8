\* Two entries, two logins, and two failures of anything that can fail.
SPECIFICATION Spec
CONSTANTS
  Entries = {e1, e2}
  Users = {u1, u2}
  None = None
  MaxLogins = 2
  MaxItems = 2
  MaxTroubles = 2
SYMMETRY Alike
INVARIANTS TypeOK TruthTold NeverStranded SavedOnce
PROPERTIES UnderOwnName
