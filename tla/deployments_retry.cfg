SPECIFICATION Spec
CONSTANTS
  g1 = g1
  Garden <- MCGarden
  Sub = {}
  GardenOf <- MCGardenOf
  Content = {c1}
  Id = {d1, d2, d3}
  NoId = NoId
  Task = {t1, t2}
  BatchSize = 1
  Overrides = {FALSE}
  MaxRetries = 2
  MaxConnects = 0
  MaxCrashes = 1
SYMMETRY Symmetry
INVARIANTS
  OneOpenRetry
  DistinctOrdinals
