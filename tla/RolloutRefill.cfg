CONSTANTS
  Uid = {1, 2, 3}
  Session = {s1, s2}
  BatchSize = 1
  Configs <- ColocatedFilterConfigs
SPECIFICATION FairSpec
CHECK_DEADLOCK FALSE
PROPERTY RefillCompletes
