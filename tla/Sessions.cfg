SPECIFICATION Spec
CONSTANTS
  Sessions = {s1, s2, s3}
  Clients = {c1}
  Requests = {r1, r2}
  NoSession = NoSession
  Ops = {"login", "refresh", "logout", "protected"}
  RefreshTTL = 1
  AccessTTL = 1
  MaxTime = 2
  MaxResends = 1
  MaxCrashes = 1
SYMMETRY Symmetry
CONSTRAINT OneLogin
INVARIANTS
  TypeOK
  ExchangedOnce
  ForksNeedCrashes
  LogoutRevokes
  RevokerServedUnlessResent
PROPERTIES
  ImplementsLedger
  StaleAccessBounded
CHECK_DEADLOCK FALSE
