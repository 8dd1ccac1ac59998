SPECIFICATION Spec
CONSTANTS
  Files <- Scripts
  Deps <- DepsOf
  Later <- LaterOf
  Depth <- DepthOf
  Optional = {"theme"}
  Lists <- Wanted
  MaxCalls = 3
  MaxFails = 1
INVARIANTS
  TypeOK
  SuccessMeansLoaded
  StackFound
PROPERTIES
  AllReported
CHECK_DEADLOCK FALSE
