SPECIFICATION Spec
CONSTANTS
  Required = {"name"}
  Optional = {"tags"}
  Values = {"a"}
  Photos = {p1, p2}
  MaxPhotos = 2
  Requests = {r1, r2}
  Ops = {"patch", "add", "delete", "filter"}
  MaxRequests = 4
  NoInput = NoInput
SYMMETRY Symmetry
PROPERTIES
  LastPhotoStays
CHECK_DEADLOCK FALSE
