SPECIFICATION Spec
CONSTANTS
  NoFile = noFile
  Files <- Version5
  MaxKills = 1
INVARIANTS NeverDead
CHECK_DEADLOCK FALSE
