\* Two requests of one browser, and an instance that starts meanwhile.
SPECIFICATION Spec
CONSTANTS
  Names = {admin, other}
  Admin = admin
  BootName = other
  Ids = {i1, i2, i3}
  Browsers = {b1}
  Threads = {t1, t2}
  Servers = {s1}
  None = None
  Lifetime = 0
  Slow = 1
  Horizon = 2
SYMMETRY Alike
INVARIANTS TypeOK FlagIsTrue RightsEnd
PROPERTIES LastAdmin AfterStart
