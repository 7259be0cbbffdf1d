SPECIFICATION Spec
CONSTANTS
  Text <- MCText
  Users <- ManyUsers
  Dashboards <- ManyDashboards
  AuthLogs <- ManyAuthLogs
  AuditLogs <- ManyAuditLogs
  Policies <- ManyPolicies
  Names <- MCNames
  GrantEnds <- NoEnds
  AuthWindow = 5
  AuditWindow = 5
  AuthPage = 10
  AuditPage = 50
  MaxOps = 0
  MaxTime = 0
INVARIANTS
  FailClosed
