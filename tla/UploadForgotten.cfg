CONSTANTS
  TotalSteps = 2
  SaveSteps = {1, 2}
  ByName <- TwoByName
  Score = {1, 2}
  KeepBest = 1
  KeepCurrent = FALSE
  UploadFails = FALSE
  MaxCrashes = 1
SPECIFICATION Spec
INVARIANTS
  AllUploaded
