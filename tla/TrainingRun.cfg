CONSTANTS
  Rank = {r0, r1}
  Leader = r0
  TotalSteps = 3
  Updates = 2
  Score = {1, 2}
  NoFile = NoFile
  Configs <- RunConfigs
SPECIFICATION Spec
CHECK_DEADLOCK FALSE
INVARIANTS
  TypeOK
  TeacherExact
  ResumeWhole
  BestOnDisk
  PeakBounded
  ActorsBounded
PROPERTIES
  TrackerNamesWhole
