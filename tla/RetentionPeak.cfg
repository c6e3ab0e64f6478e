CONSTANTS
  Rank = {r0, r1}
  Leader = r0
  TotalSteps = 3
  Updates = 1
  Score = {1, 2}
  NoFile = NoFile
  Configs <- PeakConfigs
SPECIFICATION Spec
CHECK_DEADLOCK FALSE
INVARIANTS
  PeakAsRecorded
