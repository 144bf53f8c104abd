SPECIFICATION DeploySpec
CONSTANTS
  Id = {d1}
  NoId = NoId
  Args <- MCArgs
  Artifacts <- MCArtifacts
  MaxText = 1
  MaxFrames = 2
CHECK_DEADLOCK FALSE
INVARIANTS
  ExitTruth
  Prepared
  SudoTruth
  ScreenFaithful
PROPERTIES
  DeployEnds
