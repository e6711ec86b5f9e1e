SPECIFICATION Spec
CONSTANTS
  r1 = r1
  r2 = r2
  None = None
  Challenges = {k1, k2, k3}
  Stranger = stranger
  Offered <- Stored
  Counting = {k1}
  Requests = {r1, r2}
  UserIds = {u1, u2}
  SessionIds = {d1, d2}
  Codes = {k1}
  Subjects = {u1, u2, u3}
  DSessions = {d1, d2, k3}
  Approvals = {r1, r2}
  KitCalls = {r1, r2, k2}
  Keys = {k1, k2}
  Fetches = {r1, r2}
  TTL = 2
  MaxAge = 2
  Patience = 1
INVARIANTS TypesOK SessionsAreOwned DevicesPairOnce RotationReaches
PROPERTY ChallengeIsTicket
SYMMETRY Alike
CHECK_DEADLOCK FALSE
