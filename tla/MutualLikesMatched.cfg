SPECIFICATION Spec
CONSTANTS
  Users = {1, 2}
  Requests = {r1, r2}
  MaxRequests = 3
  NoInput = NoInput
INVARIANTS
  MutualLikesMatched
CHECK_DEADLOCK FALSE
