SPECIFICATION SystemSpec
CONSTANTS
  g1 = g1
  Garden <- MCGarden
  Sub = {}
  GardenOf <- MCGardenOf
  Content = {c1}
  Id = {d1, d2}
  NoId = NoId
  Task = {t1}
  BatchSize = 1
  Overrides = {FALSE}
  MaxRetries = 1
  MaxConnects = 1
  MaxCrashes = 1
  Results = {"success"}
  MaxJoins = 1
  MaxFrames = 2
  MaxReloads = 0
  MaxRestarts = 1
SYMMETRY Symmetry
CHECK_DEADLOCK FALSE
INVARIANTS
  CompletedTruth
