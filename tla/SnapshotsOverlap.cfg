SPECIFICATION Spec
CONSTANTS
  u1 = u1
  u2 = u2
  bad = bad
  Ids <- Asked
  Valid <- Accepted
  HistoryMax = 1
  MaxCalls = 3
  MaxClears = 1
  WithBatches = TRUE
SYMMETRY Same
INVARIANTS TypeOK SpinnerMeansFetching SearchingMeansSearch SearchListsClean
CHECK_DEADLOCK FALSE
