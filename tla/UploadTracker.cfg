CONSTANTS
  TotalSteps = 2
  SaveSteps = {1, 2}
  ByName <- TwoByName
  Score = {1, 2}
  KeepBest = 1
  KeepCurrent = TRUE
  UploadFails = FALSE
  MaxCrashes = 0
SPECIFICATION Spec
INVARIANTS
  TrackerLoadable
