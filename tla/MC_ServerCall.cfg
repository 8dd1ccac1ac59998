\* A built page: three transports, one that cannot group, one that comes and goes.
SPECIFICATION Spec
CONSTANTS
  c1 = c1
  c2 = c2
  c3 = c3
  c4 = c4
  Calls = {c1, c2, c3, c4}
  Transports <- AllTransports
  GroupCapable <- TwoTransports
  Steady <- NotWebsocket
  Accepts <- Page
  Sync = {c3, c4}
  Remote = {}
  Lossy = {}
  MaxAttempts = 2
INVARIANTS
  TypeOK
  OneOwner
  CompletedOnce
  LastResortFound
  NoneForgotten
  BusyWhilePending
PROPERTIES
  UnreachableAtLast
CHECK_DEADLOCK FALSE
