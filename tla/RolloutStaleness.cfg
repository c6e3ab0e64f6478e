CONSTANTS
  Uid = {1, 2, 3, 4, 5, 6}
  Session = {s1}
  BatchSize = 1
  Configs <- StalenessConfigs
SPECIFICATION FairSpec
INVARIANTS
  SupplyCoversDemand
  StalenessBounded
PROPERTY TrainingEnds
