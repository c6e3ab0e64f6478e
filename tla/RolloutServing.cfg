CONSTANTS
  Standalone = {a, b}
  Hybrid = {h}
  Request = {1, 2, 3, 4}
  BatchSize = 1
  SyncFails = TRUE
  Configs <- ServingConfigs
SPECIFICATION FairSpec
INVARIANTS
  TypeOK
  CountsHonest
  NoneRunsAsleep
  SpanOrdered
  FewStranded
PROPERTIES
  OneVersionPerAttempt
  TrainingEnds
