SPECIFICATION Spec
CONSTANTS
  i1 = i1
  i2 = i2
  e1 = e1
  e2 = e2
  p1 = p1
  p2 = p2
  u1 = u1
  u2 = u2
  Intakes = {i1, i2}
  Escalations = {e1, e2}
  Target <- TwoTarget
  Processes <- TwoProcesses
  Home <- TwoHome
  Users = {u1, u2}
  Login <- MCLogin
  Results <- MCResults
  PoolSize = 1
  MaxCrashes = 1
INVARIANTS
  TypeOK
  KillSwitchHolds
  RefusedLeavesNothing
  EscalationCarriesRun
PROPERTIES
  ImplementsCaseFile
  EveryCallEnds
