SPECIFICATION Spec
CONSTANTS
  Users = {1, 2}
  Requests = {r1, r2, r3}
  MaxRequests = 3
  NoInput = NoInput
SYMMETRY SlotSymmetry
INVARIANTS
  TypeOK
  MatchNeedsBothLikes
  SerialLikesMatch
  SwipesAreEligible
PROPERTIES
  StaleTimeNeedsOverlap
  ImplementsLedger
CHECK_DEADLOCK FALSE
