SPECIFICATION LiveSpec
CONSTANTS
  NoFile = noFile
  Files <- Recent
  MaxKills = 2
INVARIANTS TypeOK VersionMeansColumns NeverDead
PROPERTIES OpenEnds
CHECK_DEADLOCK FALSE
