SPECIFICATION FairSpec
CONSTANTS
  Profiles = {u1, u2}
  TestID = 1
  Submissions <- MCSubmissions
  Requests = {r1, r2}
  MaxRequests = 3
  Nobody = Nobody
INVARIANTS
  TypeOK
  AcceptedSucceeds
  ShownIsStored
  ReadsAreCurrent
  TypeFits
PROPERTIES
  EveryRequestAnswered
CHECK_DEADLOCK FALSE
