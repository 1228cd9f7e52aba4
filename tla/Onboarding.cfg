SPECIFICATION Spec
CONSTANTS
  NULL = NULL
  GARBLED = GARBLED
  Null = NULL
  Garbled = GARBLED
  Requests <- MCRequests
  Wanted <- MCWanted
  Dictionary = {"coffee"}
  FirstDays <- MCFirstDays
  MaxNights = 3
  MaxPatches = 2
INVARIANTS
  AcceptedFits
  AdultsOnly
  ShownAgeFits
CHECK_DEADLOCK FALSE
