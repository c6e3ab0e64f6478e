CONSTANTS
  TotalSteps = 4
  SaveSteps = {1, 2, 4}
  ByName <- SparseByName
  Score = {1, 2}
  KeepBest = 1
  KeepCurrent = TRUE
  UploadFails = TRUE
  MaxCrashes = 1
SPECIFICATION FairSpec
INVARIANTS
  TypeOK
  DrainedUploaded
  BestAreLocal
PROPERTIES
  PrunedOnlyUploaded
  ImplementsLifecycle
  DrainEnds
