SPECIFICATION Spec
CONSTANTS
  l1 = l1
  l2 = l2
  c1 = c1
  c2 = c2
  blank = blank
  n1 = n1
  Loads = {l1}
  Seeds <- NoSeeds
  Addressed = {}
  Located = {}
  Broker = broker
  Carriers = {c1}
  Unknown = unknown
  NoOne = noOne
  Names = {}
  NameOf <- IdAsName
  EmptyId = blank
  LeftBehind <- OneBidOn
  Buttons <- AnswerButtons
  MaxOps = 4
  MaxInFlight = 2
  MaxFaults = 0
  MaxRestarts = 0
PROPERTIES ApprovedMeansAwaiting
CHECK_DEADLOCK FALSE
