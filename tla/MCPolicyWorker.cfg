SPECIFICATION Spec
CONSTANTS
  ubl = ubl
  vvz = vvz
  v1 = v1
  v2 = v2
  bad = bad
  r1 = r1
  r2 = r2
  e1 = e1
  e2 = e2
  NoPack = NoPack
  NoDoc = NoDoc
  NoEngine = NoEngine
  NoTenant = NoTenant
  Ubl = ubl
  Tenants = {ubl, vvz}
  Requests = {r1, r2}
  Engines = {e1, e2}
  Policies = {v1, v2}
  BadYaml = {}
  Extensible = {e1}
  MaxEdits = 0
  Targets <- StagesOfVvz
  InitialPacks <- MCPacks
  InitialYamls <- MCYamls
INVARIANTS TypeOK TagIsTruthful FailClosed OwnPolicyButForTwoHoles ReadyMeansMarked
SYMMETRY Slots
CHECK_DEADLOCK FALSE
