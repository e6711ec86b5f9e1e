SPECIFICATION Spec
CONSTANTS
  r1 = r1
  r2 = r2
  r3 = r3
  x = x
  y = y
  None = None
  Media = {x}
  UCalls = {r1, r2}
  Shas = {x, y}
  Sizes = {1, 2}
  NoSha = None
  StreamKeys = {x}
  SCalls = {r1, r2}
  StreamApi = FALSE
  Sockets = {r1, r2, r3}
  MaxInbox = 3
  Events = {x}
  WCalls = {r1, r2}
  Chips = {"ubl_core_v1", "ubl_core_v3"}
  Requests = {r1, r2}
  MaxEval = 2
  Entities = {x}
  Commits = {r1, r2, r3}
  Handed = {y}
  Finished = {}
  MaxMs = 2
  Files = {x, y}
  Families = {y}
  Family <- FamilyOf
  Edges <- DependsOn
  Flagged = {x}
  Workspaces = {x, y}
  Lenses = {x}
  Total = 3
  Amounts <- Asked
  Indexed = {x}
  Texts <- AnyText
  MaxLines = 2
  Runs = {r1, r2}
  IndexEnd = 2
  Socks = {x}
  Metas <- SomeMetas
  Key <- KeyOf
  Tools = {"send", "commit"}
  NoTenant = NoTenant
  TTL = 2
  Capacity = 1
  MaxTicks = 3
  Meters = {x, y}
  QCalls = {r1, r2}
  OpKeys = {x}
  Quantities <- SomeQuantities
  MaxCredit = 0
  Plans <- OnePlan
  Overrides <- OverrideOrNone
  Window = 2
  Day = 4
  Epoch = 2
  MaxTime = 5
  Models = {x}
  Posts = {r1, r2, r3}
  Upstream = {x}
INVARIANTS TypesOK HandledOnce ReplayFollowsRecording CountsAgree MetricsAddUp BooksKept
PROPERTIES HandoverKnown NotDoneAgain
SYMMETRY Alike
CHECK_DEADLOCK FALSE
