SPECIFICATION Spec
CONSTANTS
  g1 = g1
  Garden <- MCGarden
  Sub = {s1}
  GardenOf <- MCGardenOf
  Content = {c1}
  Id = {d1, d2}
  NoId = NoId
  Task = {t1, t2}
  BatchSize = 1
  Overrides = {TRUE}
  MaxRetries = 1
  MaxConnects = 1
  MaxCrashes = 0
SYMMETRY Symmetry
INVARIANTS
  AuditTruth
PROPERTIES
  ImplementsRows
