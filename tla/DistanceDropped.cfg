SPECIFICATION Spec
CONSTANTS
  l1 = l1  l2 = l2  l3 = l3  r1 = r1  p1 = p1  p2 = p2  p3 = p3  p4 = p4  p5 = p5
  a = a  b = b  blank = blank
  Lookups = {1, 2}
  Loads = {l1, l2, l3, r1}
  Posts = {p1, p2, p3, p4, p5}
  LoadOf <- TheObjects
  Addresses = {a, b, blank}
  Address <- TheAddresses
  Blank = blank
  Stored <- TheStored
  Original <- TheOriginals
  GeocodeTime = 2
  RouteTime = 1
  PauseTime = 1
  MaxRetries = 3
  Nowhere = Nowhere
INVARIANT WriteHasDistance
