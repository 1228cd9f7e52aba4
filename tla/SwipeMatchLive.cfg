SPECIFICATION FairSpec
CONSTANTS
  Users = {1, 2}
  Requests = {r1, r2}
  MaxRequests = 2
  NoInput = NoInput
PROPERTIES
  EveryRequestAnswered
CHECK_DEADLOCK FALSE
