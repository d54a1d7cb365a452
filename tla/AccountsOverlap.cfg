SPECIFICATION Spec
CONSTANTS
  s1 = s1
  t1 = t1
  t2 = t2
  n1 = n1
  p1 = p1
  p2 = p2
  broker = broker
  carrier = carrier
  f1 = f1
  f2 = f2
  Seeds = {s1}
  Stamps = {t1, t2}
  Names = {n1}
  Passwords = {p1, p2}
  Roles = {broker}
  Profiles = {f1, f2}
  Absent = absent
  MaxOps = 4
  MaxFaults = 1
  MaxRestarts = 1
SYMMETRY Alike
INVARIANTS TypeOK SessionHasAccount QuietSessionIsCurrent SessionIsEarned
PROPERTIES AccountsKeepTheirOwner
CHECK_DEADLOCK FALSE
