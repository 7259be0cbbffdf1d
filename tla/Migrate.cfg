SPECIFICATION Spec
CONSTANTS
  m1 = m1
  m2 = m2
  c1 = c1
  Migrators = {m1, m2}
  Calls = {c1}
  Plan <- MCPlan
  Up <- Upgrades
  Down <- Downgrades
  Schemas <- SchemasAt
  Targets = {0, 5, 6}
INVARIANTS
  TypeOK
  SchemaOfRevision
  TablesStay
PROPERTIES
  ScriptsApply
  NewestServesCode
  EveryTransactionEnds
