SPECIFICATION FairSpec
CONSTANTS
  Calls = {c1, c2}
  Ttls = {1, 3}
INVARIANTS TypeOK PanicObeyed PanicLifted
PROPERTY PanicEnds
CHECK_DEADLOCK FALSE
