CONSTANTS
  TotalSteps = 3
  SaveSteps = {1, 2, 3}
  ByName <- ThreeByName
  Score = {1, 2}
  KeepBest = 1
  KeepCurrent = TRUE
  UploadFails = FALSE
  MaxCrashes = 0
SPECIFICATION FairSpec
PROPERTIES
  FailedNeverPruned
