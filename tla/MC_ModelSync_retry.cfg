\* A ConfigFile saved one sync at a time, whose requests may fail.
SPECIFICATION Spec
CONSTANTS
  favorite = favorite
  other = other
  v1 = v1
  v2 = v2
  Keys <- MCKeys
  Favorite = favorite
  Values <- MCValues
  Undefined = Undefined
  Kinds = {"config"}
  MaxInFlight = 1
  MaxEdits = 3
  MaxSyncs = 3
SYMMETRY MCSymmetry
INVARIANTS
  SavedIsStored
CHECK_DEADLOCK FALSE
