CONSTANTS
  Uid = {1, 2, 3, 4}
  Session = {s1, s2}
  BatchSize = 2
  Configs <- GroupConfigs
SPECIFICATION FairSpec
INVARIANTS
  TypeOK
  NothingLost
  GroupsWhole
  FilteredBatchFull
  LeaksOnlyFromFailures
  SupplyCoversDemand
PROPERTIES
  ImplementsLifecycle
  TrainingEnds
