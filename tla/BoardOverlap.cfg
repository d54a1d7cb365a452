SPECIFICATION Spec
CONSTANTS
  l1 = l1
  l2 = l2
  c1 = c1
  c2 = c2
  blank = blank
  n1 = n1
  Loads = {l1, l2}
  Seeds <- NoSeeds
  Addressed = {}
  Located = {}
  Broker = broker
  Carriers = {c1, c2}
  Unknown = unknown
  NoOne = noOne
  Names = {}
  NameOf <- IdAsName
  EmptyId = blank
  LeftBehind <- TwoBidsOrTwoLoads
  Buttons <- ListAndAnswerButtons
  MaxOps = 5
  MaxInFlight = 3
  MaxFaults = 0
  MaxRestarts = 0
CONSTRAINT PostOrAnswer
SYMMETRY TheCarriers
INVARIANTS ConfirmationDurable ConfirmedNamesCarrier NoDuplicateLoads NoGhostLoads AcknowledgedBidsSurvive
CHECK_DEADLOCK FALSE
