SPECIFICATION GardenFairSpec
CONSTANTS
  Id = {d1, d2}
  Results = {success}
  MaxJoins = 2
  MaxFrames = 2
  MaxReloads = 1
  MaxRestarts = 1
CHECK_DEADLOCK FALSE
INVARIANTS
  ActiveAccounted
  ResultsFromRuns
  ReloadSparesEarlier
PROPERTIES
  ActiveDrains
