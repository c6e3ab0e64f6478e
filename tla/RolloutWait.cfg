CONSTANTS
  Standalone = {a}
  Hybrid = {h}
  Request = {1, 2, 3, 4, 5}
  BatchSize = 1
  SyncFails = FALSE
  Configs <- WaitConfigs
SPECIFICATION FairSpec
CHECK_DEADLOCK FALSE
PROPERTY OverdueFinish
