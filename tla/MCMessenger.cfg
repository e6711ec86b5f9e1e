SPECIFICATION Spec
CONSTANTS
  None = None
  MaxEvents = 4
  MaxAttempts = 5
  Sends = {r1, r2}
  Convs = {x, y}
  People = {x}
  Demo = FALSE
  MaxMs = 1
  MaxShown = 3
  Users = {x, y}
  Tenants = {t1, t2}
  Subs = {x, y}
  Sockets = {r1, r2, r3}
  Timers = {r1, r2, r3}
  Jobs = {r1, r2}
  Conv <- OneConv
  Channels = {x}
  Limit = 1
  Calls = {x, y}
  MaxVersion = 2
  Items = {x, y}
  Ops = {r1, r2, r3}
  Opened = {x, y}
  MaxOpens = 4
  Prime = 53
  L = 7
  N = 23
  M = 10
  Bx = 4
  By = 43
  Clamped = {64, 72, 80, 88, 96, 104, 112, 120}
  Hashes = {0, 1, 3, 5, 9}
INVARIANTS TypesOK NothingMissed OneIdentity SignatureVerifies ShownAsAsked
PROPERTY RefreshMends
CHECK_DEADLOCK FALSE
