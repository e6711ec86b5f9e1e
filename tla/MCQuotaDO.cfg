SPECIFICATION Spec
CONSTANTS
  tool_call = tool_call
  rtc_min = rtc_min
  pro = pro
  free = free
  k1 = k1
  k2 = k2
  c1 = c1
  c2 = c2
  NoKey = NoKey
  Meters = {tool_call, rtc_min}
  Calls = {c1, c2}
  OpKeys = {k1}
  Quantities <- MCQuantities
  PlanIds = {pro, free}
  PlanDocs <- MCPlanDocs
  FreePlan <- MCFreePlan
  OverrideDocs <- MCOverrides
  Window = 2
  Day = 4
  Epoch = 7
  MaxTime = 10
  MaxCredit = 0
INVARIANTS TypeOK WindowBudget DailyCap DebitedOnce
PROPERTIES BackpressureIsEarned RetryAfterReachesRefill ImplementsBudget
SYMMETRY Slots
CHECK_DEADLOCK FALSE
