SPECIFICATION Spec
CONSTANTS
  Text <- MCText
  Users <- TwoUsers
  Dashboards <- OneDash
  AuthLogs <- OneAuthLog
  AuditLogs <- OneAuditLog
  Policies <- OnePolicy
  Names <- MCNames
  GrantEnds <- MCGrantEnds
  AuthWindow = 5
  AuditWindow = 5
  AuthPage = 3
  AuditPage = 3
  MaxOps = 2
  MaxTime = 1
INVARIANTS
  EveryVerdictWasTrue
  ResetLinkHelps
PROPERTIES
  RunEnds
