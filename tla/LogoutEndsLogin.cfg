SPECIFICATION Spec
CONSTANTS
  Sessions = {s1, s2}
  Clients = {c1}
  Requests = {r1, r2}
  NoSession = NoSession
  Ops = {"login", "refresh", "logout", "protected"}
  RefreshTTL = 1
  AccessTTL = 1
  MaxTime = 1
  MaxResends = 0
  MaxCrashes = 0
SYMMETRY Symmetry
INVARIANTS
  LogoutEndsLogin
CHECK_DEADLOCK FALSE
