\* Two keys, two syncs pending at a time, three requests in all, every kind of model.
SPECIFICATION Spec
CONSTANTS
  favorite = favorite
  other = other
  v1 = v1
  v2 = v2
  Keys <- MCKeys
  Favorite = favorite
  Values <- MCValues
  Undefined = Undefined
  Kinds = {"user", "config", "file", "data", "app"}
  MaxInFlight = 2
  MaxEdits = 3
  MaxSyncs = 3
SYMMETRY MCSymmetry
INVARIANTS
  TypeOK
  SavedMeansReceived
  StagedMeansInFlight
  InFlightBookkeeping
  CallersCalledBack
PROPERTIES
  OnlyEditsChangeTheView
  LocalFallbackSaves
CHECK_DEADLOCK FALSE
