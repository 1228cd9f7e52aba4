SPECIFICATION Spec
CONSTANTS
  Users = {1, 2, 3, 4}
  Viewer = 2
  Limit = 1
  Traits <- MCTraits
  Filters <- MCFilters
  Lacks = {"dating_goal", "search_filter", "photos"}
  MaxChanges = 3
INVARIANTS
  TypeOK
  NoRepeats
  NothingSkipped
  NeverDropped
