SPECIFICATION Spec
CONSTANTS
  r1 = r1
  r2 = r2
  None = None
  Challenges = {k1, k2}
  Stranger = stranger
  Offered <- NeverStored
  Counting = {k1}
  Requests = {r1}
  UserIds = {u1}
  SessionIds = {d1}
  Codes = {k1}
  Subjects = {u1}
  DSessions = {d1}
  Approvals = {r1}
  KitCalls = {r1}
  Keys = {k1}
  Fetches = {r1}
  TTL = 1
  MaxAge = 1
  Patience = 1
INVARIANT HonestFinishFindsChallenge
CHECK_DEADLOCK FALSE
