SPECIFICATION Spec
CONSTANTS
  Keys = {k1, k2, k3}
  Requests = {r1, r2, r3}
  NoKey = NoKey
SYMMETRY Symmetry
INVARIANTS
  TypeOK
  RowsHaveFiles
  FilesHaveRows
