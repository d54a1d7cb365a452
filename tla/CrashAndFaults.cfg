SPECIFICATION LiveSpec
CONSTANTS
  l1 = l1
  l2 = l2
  c1 = c1
  c2 = c2
  blank = blank
  n1 = n1
  Loads = {l1, blank}
  Seeds <- OneSeed
  Addressed = {l1}
  Located = {l1}
  Broker = broker
  Carriers = {c1}
  Unknown = unknown
  NoOne = noOne
  Names = {n1}
  NameOf <- OwnName
  EmptyId = blank
  LeftBehind <- AwaitedReturn
  Buttons <- AllButtons
  MaxOps = 3
  MaxInFlight = 2
  MaxFaults = 1
  MaxRestarts = 1
INVARIANTS TypeOK StatusFlagsAgree
PROPERTIES HandlersEnd
CHECK_DEADLOCK FALSE
