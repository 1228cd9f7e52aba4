SPECIFICATION Spec
CONSTANTS
  Required = {"name"}
  Optional = {"tags"}
  Values = {"a"}
  Photos = {p1, p2, p3}
  MaxPhotos = 2
  Requests = {r1, r2}
  Ops = {"patch", "add", "delete", "reorder", "filter"}
  MaxRequests = 4
  NoInput = NoInput
SYMMETRY Symmetry
INVARIANTS
  TypeOK
  PositionsDense
PROPERTIES
  PatchOnCurrent
  LapseNeedsRace
  StaleTimeNeedsOverlap
  ImplementsLedger
CHECK_DEADLOCK FALSE
