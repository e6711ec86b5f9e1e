SPECIFICATION Spec
CONSTANTS
  NoToken = NoToken
  AccessSession = access
  Sessions = {s1, s2}
  Tokens = {t1, t2}
  Requests = {r1, r2}
PROPERTY RevokedMeansRevoked
CHECK_DEADLOCK FALSE
