\* Two threads, as in gunicorn.conf.py, and no more connections than they need.
CONSTANTS
  Threads = {t1, t2}
  Conns = {c1, c2, c3, c4, c5, c6}
  MinConn = 1
  MaxConn = 4
  None = None
SPECIFICATION Spec
SYMMETRY Symmetry
INVARIANTS TypeOK Exclusive NothingLeaks RoomForEveryone
