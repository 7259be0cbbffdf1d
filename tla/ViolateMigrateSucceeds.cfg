SPECIFICATION Spec
CONSTANTS
  m1 = m1
  m2 = m2
  c1 = c1
  Migrators = {m1}
  Calls = {}
  Plan <- MCPlan
  Up <- Upgrades
  Down <- Downgrades
  Schemas <- SchemasAt
  Targets = {0, 6}
PROPERTIES
  MigrateSucceeds
