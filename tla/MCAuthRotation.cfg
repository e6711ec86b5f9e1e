SPECIFICATION Spec
CONSTANTS
  NoToken = NoToken
  AccessSession = access
  Sessions = {s1}
  Tokens = {t1, t2, t3}
  Requests = {r1, r2}
INVARIANT RotatedOnce
CHECK_DEADLOCK FALSE
