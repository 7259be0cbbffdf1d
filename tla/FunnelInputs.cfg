SPECIFICATION Spec
CONSTANTS
  Text <- MCText
  Users <- ManyUsers
  Dashboards <- ManyDashboards
  AuthLogs <- ManyAuthLogs
  AuditLogs <- ManyAuditLogs
  Policies <- ManyPolicies
  Names <- MCNames
  GrantEnds <- NoEnds
  AuthWindow = 5
  AuditWindow = 5
  AuthPage = 2
  AuditPage = 2
  MaxOps = 0
  MaxTime = 0
INVARIANTS
  TypeOK
  EveryVerdictWasTrue
  MessageHonest
  ResetLinkHelps
  ResetLinkOffered
PROPERTIES
  ImplementsDiagnosis
