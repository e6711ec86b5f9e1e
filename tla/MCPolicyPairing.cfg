SPECIFICATION Spec
CONSTANTS
  ubl = ubl
  vvz = vvz
  v1 = v1
  v2 = v2
  bad = bad
  r1 = r1
  r2 = r2
  e1 = e1
  e2 = e2
  NoPack = NoPack
  NoDoc = NoDoc
  NoEngine = NoEngine
  NoTenant = NoTenant
  Ubl = ubl
  Tenants = {ubl, vvz}
  Requests = {r1, r2}
  Engines = {e1}
  Policies = {v1, v2}
  BadYaml = {}
  Extensible = {}
  MaxEdits = 0
  Targets <- NextOfVvz
  InitialPacks <- MCPacks
  InitialYamls <- MCYamls
INVARIANT DriftIsRefused
CHECK_DEADLOCK FALSE
